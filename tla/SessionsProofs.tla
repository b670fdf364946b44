--------------------------- MODULE SessionsProofs ---------------------------
(* Type correctness of Sessions; that logging out everywhere is final for  *)
(* what it deleted; which rows outlive their session; and that a client is *)
(* turned away only if the user of its row asked for that.                 *)
EXTENDS Sessions, SequenceTheorems, TLAPS

(* Logins are numbered in order, and only numbers that were given are used.*)
Numbered ==
    /\ \A s \in Sids : context[s] <= Len(logins)
    /\ \A x \in rows : x.login <= Len(logins)
    /\ \A r \in Requests :
          /\ req[r].login <= Len(logins)
          /\ req[r].pc \in {"login", "reply", "inside"} \cup RestoreSteps => req[r].login # 0
          /\ req[r].pc \notin {"idle", "commit"} => req[r].sid # NoSid
          /\ At(r, "commit") => req[r].user # NoUser
    /\ \A i \in DOMAIN queue : queue[i].login <= Len(logins)
    /\ \A w \in Workers : worker[w].login <= Len(logins)

TypeInv == TypeOK /\ Numbered

LEMMA InitTypes == Init => TypeInv
<1> SUFFICES ASSUME Init PROVE TypeInv
  OBVIOUS
<1>1. TypeOK
  BY NamesAssumption, BoundsAssumption
  DEF Init, TypeOK, RequestStates, Tasks, NoTask, Task, IdleRequest, Request
<1>2. Numbered
  BY DEF Init, Numbered, NoTask, Task, IdleRequest, Request, At, RestoreSteps
<1> QED
  BY <1>1, <1>2 DEF TypeInv

LEMMA LoginUser ==
    ASSUME logins \in Seq([user : Users, sid : Sids]), NEW n \in 1 .. Len(logins)
    PROVE  logins[n].user \in Users
<1>1. logins[n] \in [user : Users, sid : Sids]
  BY ElementOfSeq
<1> QED
  BY <1>1

(* The next stage of a save is a task for the same login.                  *)
LEMMA Retasked ==
    ASSUME NEW t \in Tasks, t.op \in {"save", "find", "insert"},
           NEW op \in {"find", "insert", "update", "failed"}
    PROVE  [t EXCEPT !.op = op] \in Tasks /\ [t EXCEPT !.op = op].login = t.login
BY DEF Tasks, NoTask, Task

(* Destroying a session disturbs no type.                                  *)
LEMMA DestroyTypes ==
    ASSUME TypeInv, NEW s \in Sids, s \in live, Destroy(s), UNCHANGED <<logins, created>>
    PROVE  /\ live' \subseteq created'
           /\ context' \in [Sids -> 0 .. MaxLogins]
           /\ \A t \in Sids \ live' : context'[t] = 0
           /\ \A t \in Sids : context'[t] <= Len(logins')
           /\ queue' \in Seq(Tasks)
           /\ \A i \in DOMAIN queue' : queue'[i].login <= Len(logins')
           /\ excused' \subseteq created'
<1> USE BoundsAssumption
<1>1. Task("delete", 0, s) \in Tasks
  BY DEF Task, Tasks
<1>2. queue' \in Seq(Tasks) /\ \A i \in DOMAIN queue' : queue'[i].login <= Len(logins')
  BY <1>1 DEF Destroy, TypeInv, TypeOK, Numbered, Task
<1> QED
  BY <1>2 DEF Destroy, TypeInv, TypeOK, Numbered

(* Nor does deleting the rows of a user.                                   *)
LEMMA LogoutTypes ==
    ASSUME TypeInv, NEW r \in Requests, NEW u \in Users, NEW keep, LogoutEverywhere(r, u, keep)
    PROVE  TypeInv'
<1>1. Condemned(u, keep) \in SUBSET Rows
  BY DEF TypeInv, TypeOK, Condemned
<1>2. req' = [req EXCEPT ![r] = [req[r] EXCEPT !.pc = "commit", !.user = u,
                                              !.condemned = Condemned(u, keep)]]
  BY DEF LogoutEverywhere, TypeInv, TypeOK, RequestStates
<1>3. req[r] \in RequestStates
  BY DEF TypeInv, TypeOK
<1>4. /\ req'[r] \in RequestStates
      /\ req'[r].pc = "commit" /\ req'[r].user = u /\ req'[r].login = req[r].login
  BY <1>1, <1>2, <1>3 DEF TypeInv, TypeOK, RequestStates
<1>5. \A q \in Requests \ {r} : req'[q] = req[q]
  BY <1>2 DEF TypeInv, TypeOK
<1>6. req' \in [Requests -> RequestStates]
  BY <1>2, <1>4, <1>5 DEF TypeInv, TypeOK
<1> QED
  BY <1>4, <1>5, <1>6, NamesAssumption
     DEF LogoutEverywhere, TypeInv, TypeOK, Numbered, history, At, RestoreSteps

(* The answer stores the context of the request, if any.                   *)
LEMMA AnsweredTypes ==
    ASSUME TypeInv, NEW r \in Requests, NEW c, c = Answered(r)
    PROVE  /\ c \in [Sids -> 0 .. MaxLogins]
           /\ \A s \in Sids \ live : c[s] = 0
           /\ \A s \in Sids : c[s] <= Len(logins)
<1>1. /\ req[r].login \in 0 .. MaxLogins /\ req[r].login <= Len(logins)
      /\ Len(logins) \in Nat
  BY DEF TypeInv, TypeOK, Numbered, RequestStates
<1>2. /\ context \in [Sids -> 0 .. MaxLogins]
      /\ \A s \in Sids \ live : context[s] = 0
      /\ \A s \in Sids : context[s] <= Len(logins)
  BY DEF TypeInv, TypeOK, Numbered
<1>3. c = context \/ (req[r].sid \in live /\ c = [context EXCEPT ![req[r].sid] = req[r].login])
  BY DEF Answered
<1> QED
  BY <1>1, <1>2, <1>3

(* A request that goes on keeps all but its stage.                         *)
LEMMA GoTypes ==
    ASSUME TypeInv, NEW r \in Requests, NEW pc, Go(r, pc),
           req[r].pc \notin {"idle", "commit"}, req[r].login # 0,
           pc \in {"reply", "loaded", "inside"} \cup RestoreSteps
    PROVE  /\ req' \in [Requests -> RequestStates]
           /\ \A q \in Requests \ {r} : req'[q] = req[q]
           /\ req'[r].pc = pc /\ req'[r].login = req[r].login
           /\ req'[r].sid = req[r].sid /\ req'[r].user = req[r].user
<1>1. req[r] \in RequestStates /\ req' = [req EXCEPT ![r] = [req[r] EXCEPT !.pc = pc]]
  BY DEF Go, TypeInv, TypeOK
<1>2. PICK q : q = [req[r] EXCEPT !.pc = pc]
  OBVIOUS
<1>3. /\ q \in RequestStates /\ q.pc = pc /\ q.login = req[r].login
      /\ q.sid = req[r].sid /\ q.user = req[r].user
  BY <1>1, <1>2 DEF RequestStates
<1> QED
  BY <1>1, <1>2, <1>3 DEF TypeInv, TypeOK

(* The steps of a request that restores its session.                       *)
LEMMA RestoreTypes ==
    ASSUME TypeInv, NEW r \in Requests, Restore(r) \/ RestoreFails(r)
    PROVE  TypeInv'
<1> USE NamesAssumption, BoundsAssumption DEF history
<1>0. req[r] \in RequestStates /\ req[r].pc \in RestoreSteps
  BY DEF Restore, OpenSession, SeekRow, ReadAttributes, StoreRow, RestoreFails, At, RestoreSteps,
         TypeInv, TypeOK
<1>1. /\ req[r].login \in 1 .. MaxLogins /\ req[r].login <= Len(logins)
      /\ req[r].sid \in Sids /\ req[r].pc \notin {"idle", "commit"}
  <2>1. req[r].login \in 0 .. MaxLogins /\ req[r].sid \in Sids \cup {NoSid}
    BY <1>0 DEF RequestStates
  <2>2. req[r].login # 0 /\ req[r].sid # NoSid /\ req[r].pc \notin {"idle", "commit"}
        /\ req[r].login <= Len(logins)
    BY <1>0 DEF TypeInv, Numbered, RestoreSteps
  <2> QED
    BY <2>1, <2>2
<1>2. ASSUME NEW s \in Sids, OpenSession(r, s) PROVE TypeInv'
  <2>1. PICK q : q = Request("opened", req[r].login, s, s \notin created)
    OBVIOUS
  <2>2. q \in RequestStates /\ q.pc = "opened" /\ q.login = req[r].login /\ q.sid = s /\ s # NoSid
    BY <1>1, <2>1 DEF Request, RequestStates, RestoreSteps
  <2>3. /\ req' \in [Requests -> RequestStates] /\ req'[r] = q
        /\ \A p \in Requests \ {r} : req'[p] = req[p]
    BY <1>2, <2>1, <2>2 DEF OpenSession, TypeInv, TypeOK
  <2> QED
    BY <1>1, <1>2, <2>2, <2>3 DEF OpenSession, TypeInv, TypeOK, Numbered, At
<1>3. ASSUME NEW pc \in {"loaded", "read", "find", "insert"}, Go(r, pc),
             UNCHANGED <<live, context, logins, queue, worker, crashes, created, out, gone, cleared, excused>>,
             rows' \subseteq Rows, stored' \subseteq Rows, \A x \in rows' : x.login <= Len(logins)
      PROVE  TypeInv'
  <2>1. /\ req' \in [Requests -> RequestStates]
        /\ \A q \in Requests \ {r} : req'[q] = req[q]
        /\ req'[r].pc = pc /\ req'[r].login = req[r].login
        /\ req'[r].sid = req[r].sid /\ req'[r].user = req[r].user
    BY <1>1, <1>3, GoTypes DEF RestoreSteps
  <2>2. TypeOK'
    BY <1>3, <2>1 DEF TypeInv, TypeOK
  <2>3. \A q \in Requests :
           /\ req'[q].login <= Len(logins)
           /\ req'[q].pc \in {"login", "reply", "inside"} \cup RestoreSteps => req'[q].login # 0
           /\ req'[q].pc \notin {"idle", "commit"} => req'[q].sid # NoSid
           /\ req'[q].pc = "commit" => req'[q].user # NoUser
    <3> TAKE q \in Requests
    <3>1. CASE q = r
      BY <1>1, <1>3, <2>1, <3>1
    <3>2. CASE q # r
      BY <2>1, <3>2 DEF TypeInv, Numbered, At
    <3> QED
      BY <3>1, <3>2
  <2>4. Numbered'
    BY <1>3, <2>3 DEF TypeInv, Numbered, At
  <2> QED
    BY <2>2, <2>4 DEF TypeInv
<1>4. CASE SeekRow(r, "opened", "read") \/ ReadAttributes(r) \/ SeekRow(r, "find", "insert")
  <2>1. \E pc \in {"loaded", "read", "find", "insert"} : Go(r, pc)
    BY <1>4 DEF SeekRow, ReadAttributes
  <2> QED
    BY <1>3, <1>4, <2>1 DEF SeekRow, ReadAttributes, TypeInv, TypeOK, Numbered
<1>5. CASE StoreRow(r)
  <2>1. PICK x : x = Row(req[r].login, req[r].sid, r)
    OBVIOUS
  <2>2. x \in Rows /\ x.login = req[r].login
    BY <1>1, <2>1 DEF Row, Rows
  <2>3. rows' = rows \cup {x} /\ stored' = stored \cup rows' /\ Go(r, "loaded")
    BY <1>5, <2>1 DEF StoreRow
  <2>4. rows' \subseteq Rows /\ stored' \subseteq Rows /\ \A y \in rows' : y.login <= Len(logins)
    BY <1>1, <2>2, <2>3 DEF TypeInv, TypeOK, Numbered
  <2> QED
    BY <1>3, <1>5, <2>3, <2>4 DEF StoreRow
<1>6. CASE RestoreFails(r)
  BY <1>6 DEF RestoreFails, End, IdleRequest, Request, TypeInv, TypeOK, Numbered, At, RequestStates,
              RestoreSteps
<1> QED
  BY <1>2, <1>4, <1>5, <1>6 DEF Restore

LEMMA NextTypes == TypeInv /\ [Next]_vars => TypeInv'
<1> SUFFICES ASSUME TypeInv, [Next]_vars PROVE TypeInv'
  OBVIOUS
<1> USE NamesAssumption, BoundsAssumption
<1> USE DEF TypeInv, TypeOK, Numbered, history, At, Go, End, Request, IdleRequest, RestoreSteps
<1>1. ASSUME NEW r \in Requests, NEW u \in Users, NEW s \in Sids, Login(r, u, s) PROVE TypeInv'
  <2>1. /\ logins' \in Seq([user : Users, sid : Sids])
        /\ Len(logins') = Len(logins) + 1
        /\ Len(logins') \in 1 .. MaxLogins
        /\ DOMAIN logins \subseteq DOMAIN logins'
    BY <1>1 DEF Login
  <2>2. /\ Request("login", Len(logins'), s, s \notin created) \in RequestStates
        /\ s # NoSid
    BY <2>1 DEF RequestStates
  <2>3. \A q \in Requests : req'[q] = IF q = r THEN Request("login", Len(logins'), s, s \notin created)
                                              ELSE req[q]
    BY <1>1 DEF Login
  <2>4. TypeOK'
    BY <1>1, <2>1, <2>2 DEF Login
  <2>5. Numbered'
    <3>1. \A t \in Sids : context'[t] <= Len(logins')
      BY <1>1, <2>1 DEF Login
    <3>2. \A x \in rows' : x.login <= Len(logins')
      BY <1>1, <2>1 DEF Login, Rows
    <3>3. \A q \in Requests : req[q].login <= Len(logins')
      BY <2>1 DEF RequestStates
    <3>4. \A i \in DOMAIN queue' : queue'[i].login <= Len(logins')
      <4>1. \A i \in DOMAIN queue : queue[i] \in Tasks
        OBVIOUS
      <4>2. \A i \in DOMAIN queue : queue[i].login \in Nat
        BY ONLY <4>1, BoundsAssumption DEF Tasks, NoTask, Task
      <4>3. queue' = queue /\ Len(logins) \in Nat
        BY <1>1 DEF Login
      <4>4. \A i \in DOMAIN queue : queue[i].login <= Len(logins)
        OBVIOUS
      <4> QED
        BY ONLY <2>1, <4>2, <4>3, <4>4
    <3>5. \A w \in Workers : worker'[w].login <= Len(logins')
      BY <1>1, <2>1 DEF Login, Tasks, NoTask, Task
    <3>6. \A q \in Requests :
             /\ req'[q].login <= Len(logins')
             /\ req'[q].pc \in {"login", "reply", "inside"} \cup RestoreSteps => req'[q].login # 0
             /\ req'[q].pc \notin {"idle", "commit"} => req'[q].sid # NoSid
             /\ req'[q].pc = "commit" => req'[q].user # NoUser
      <4> TAKE q \in Requests
      <4>1. CASE q = r
        BY <2>1, <2>2, <2>3, <4>1
      <4>2. CASE q # r
        <5>1. req'[q] = req[q]
          BY <2>3, <4>2
        <5> QED
          BY <3>3, <5>1
      <4> QED
        BY <4>1, <4>2
    <3> QED
      BY <3>1, <3>2, <3>4, <3>5, <3>6
  <2> QED
    BY <2>4, <2>5
<1>2. ASSUME NEW r \in Requests, SubmitSave(r) PROVE TypeInv'
  <2>1. req[r] \in RequestStates /\ req[r].pc = "login"
    BY <1>2 DEF SubmitSave
  <2>a. /\ req[r].login \in 0 .. MaxLogins /\ req[r].login # 0
        /\ req[r].sid \in Sids \cup {NoSid} /\ req[r].sid # NoSid
    <3>1. req[r].login \in 0 .. MaxLogins /\ req[r].sid \in Sids \cup {NoSid}
      BY <2>1 DEF RequestStates
    <3>2. req[r].login # 0 /\ req[r].sid # NoSid
      BY <2>1 DEF TypeInv, Numbered
    <3> QED
      BY <3>1, <3>2
  <2>2. req[r].login \in 1 .. MaxLogins /\ req[r].sid \in Sids
    BY ONLY <2>a, BoundsAssumption
  <2>3. Task("save", req[r].login, req[r].sid) \in Tasks
    BY <2>2 DEF Tasks, Task
  <2>4. /\ queue' \in Seq(Tasks)
        /\ \A i \in DOMAIN queue' : queue'[i].login <= Len(logins)
    BY <1>2, <2>3 DEF SubmitSave, Task
  <2>5. /\ req' \in [Requests -> RequestStates]
        /\ \A q \in Requests : req'[q].login = req[q].login /\ req'[q].sid = req[q].sid
                                /\ req'[q].user = req[q].user /\ (q # r => req'[q].pc = req[q].pc)
        /\ req'[r].pc = "reply"
    BY <1>2 DEF SubmitSave, RequestStates
  <2> QED
    BY <1>2, <2>1, <2>4, <2>5 DEF SubmitSave
<1>3. ASSUME NEW r \in Requests, Reply(r) PROVE TypeInv'
  BY <1>3 DEF Reply, Valid, RequestStates
<1>4. ASSUME NEW r \in Requests, NEW s \in Sids, LoadContext(r, s) PROVE TypeInv'
  <2>1. \E n \in 0 .. MaxLogins, pc \in {"loaded", "restore"} :
           /\ n <= Len(logins)
           /\ pc = "restore" => n # 0
           /\ req' = [req EXCEPT ![r] = Request(pc, n, s, FALSE)]
    <3>1. CASE s \in live /\ context[s] # 0
      BY <1>4, <3>1 DEF LoadContext
    <3>2. CASE ~(s \in live /\ context[s] # 0) /\ Backups /\ Debug /\ Found(s) # {}
      <4>1. PICK x \in rows : req' = [req EXCEPT ![r] = Request("restore", x.login, s, FALSE)]
        BY <1>4, <3>2 DEF LoadContext, Found, Copies
      <4>2. x.login \in 1 .. MaxLogins /\ x.login <= Len(logins)
        BY DEF Rows
      <4>3. PICK n \in 0 .. MaxLogins : n = x.login /\ n # 0 /\ n <= Len(logins)
        BY <4>2
      <4>4. req' = [req EXCEPT ![r] = Request("restore", n, s, FALSE)]
        BY <4>1, <4>3
      <4> HIDE DEF Request
      <4> QED
        BY <4>3, <4>4
    <3>3. CASE ~(s \in live /\ context[s] # 0) /\ ~(Backups /\ Debug /\ Found(s) # {})
      BY <1>4, <3>3 DEF LoadContext
    <3> QED
      BY <3>1, <3>2, <3>3
  <2>2. PICK n \in 0 .. MaxLogins, pc \in {"loaded", "restore"} :
           /\ n <= Len(logins)
           /\ pc = "restore" => n # 0
           /\ req' = [req EXCEPT ![r] = Request(pc, n, s, FALSE)]
    BY <2>1
  <2>3. Request(pc, n, s, FALSE) \in RequestStates /\ s # NoSid
    BY DEF RequestStates
  <2> QED
    BY <1>4, <2>2, <2>3 DEF LoadContext
<1>5. ASSUME NEW r \in Requests, Restore(r) \/ RestoreFails(r) PROVE TypeInv'
  BY <1>5, RestoreTypes
<1>6. ASSUME NEW r \in Requests, Admit(r) PROVE TypeInv'
  <2>1. /\ req[r] \in RequestStates /\ req[r].pc = "loaded" /\ req[r].login # 0
        /\ req' = [req EXCEPT ![r].pc = "inside"]
        /\ UNCHANGED <<live, context, logins, rows, queue, worker, crashes, history>>
    BY <1>6 DEF Admit
  <2>2. /\ req' \in [Requests -> RequestStates]
        /\ \A q \in Requests \ {r} : req'[q] = req[q]
        /\ req'[r].pc = "inside" /\ req'[r].login = req[r].login
        /\ req'[r].sid = req[r].sid /\ req'[r].user = req[r].user
    BY <2>1 DEF RequestStates
  <2> QED
    BY <2>1, <2>2
<1>7. ASSUME NEW r \in Requests, Invalidate(r) PROVE TypeInv'
  BY <1>7, DestroyTypes DEF Invalidate, RequestStates
<1>8. ASSUME NEW r \in Requests, Leave(r) PROVE TypeInv'
  <2>1. /\ context' \in [Sids -> 0 .. MaxLogins]
        /\ \A s \in Sids \ live : context'[s] = 0
        /\ \A s \in Sids : context'[s] <= Len(logins)
    BY <1>8, AnsweredTypes DEF Leave
  <2> QED
    BY <1>8, <2>1 DEF Leave, RequestStates
<1>9. ASSUME NEW r \in Requests, Logout(r) PROVE TypeInv'
  <2>1. CASE req[r].sid \in live
    BY <1>9, <2>1, DestroyTypes DEF Logout, RequestStates
  <2>2. CASE req[r].sid \notin live
    BY <1>9, <2>2 DEF Logout, RequestStates
  <2> QED
    BY <2>1, <2>2
<1>10. ASSUME NEW r \in Requests, NEW u \in Users, CompletePasswordReset(r, u) PROVE TypeInv'
  BY <1>10, LogoutTypes DEF CompletePasswordReset
<1>11. ASSUME NEW r \in Requests, ChangePassword(r) PROVE TypeInv'
  <2>1. req[r].login \in 1 .. Len(logins)
    BY <1>11 DEF ChangePassword, RequestStates
  <2>2. logins[req[r].login].user \in Users
    BY <2>1, LoginUser
  <2> QED
    BY <1>11, <2>2, LogoutTypes DEF ChangePassword
<1>12. ASSUME NEW r \in Requests, Commit(r) PROVE TypeInv'
  <2>1. req[r].user \in Users
    BY <1>12 DEF Commit, RequestStates
  <2>2. cleared' \subseteq Users \X Sids
    BY <1>12, <2>1 DEF Commit, Rows
  <2>3. out' \subseteq DOMAIN logins /\ gone' \subseteq out'
    BY <1>12 DEF Commit, Ended
  <2>4. /\ context' \in [Sids -> 0 .. MaxLogins]
        /\ \A s \in Sids \ live : context'[s] = 0
        /\ \A s \in Sids : context'[s] <= Len(logins)
    BY <1>12, AnsweredTypes DEF Commit
  <2> QED
    BY <1>12, <2>2, <2>3, <2>4 DEF Commit, RequestStates
<1>13. ASSUME NEW w \in Workers, Start(w) PROVE TypeInv'
  BY <1>13 DEF Start, Tasks, NoTask, Task
<1>15. ASSUME NEW w \in Workers, ReadSession(w) \/ FindRow(w) \/ MergeFails(w) PROVE TypeInv'
  <2>1. worker[w] \in Tasks /\ worker[w].op \in {"save", "find", "insert"}
    BY <1>15 DEF ReadSession, FindRow, MergeFails, Doing
  <2>2. \E op \in {"find", "insert", "update", "failed", "none"} : Then(w, op)
    BY <1>15 DEF ReadSession, FindRow, MergeFails
  <2>3. worker' \in [Workers -> Tasks] /\ worker'[w].login <= Len(logins)
    <3>1. CASE Then(w, "none")
      BY <3>1 DEF Then, Tasks, NoTask, Task
    <3>2. ASSUME NEW op \in {"find", "insert", "update", "failed"}, Then(w, op)
          PROVE  worker'[w] = [worker[w] EXCEPT !.op = op]
      BY <3>2 DEF Then
    <3>3. ASSUME NEW op \in {"find", "insert", "update", "failed"}, Then(w, op)
          PROVE  worker' \in [Workers -> Tasks] /\ worker'[w].login = worker[w].login
      BY <2>1, <3>2, <3>3, Retasked DEF Then
    <3> QED
      BY <2>2, <3>1, <3>3
  <2> QED
    BY <1>15, <2>2, <2>3 DEF ReadSession, FindRow, MergeFails, Then
<1>16. ASSUME NEW w \in Workers, InsertRow(w) PROVE TypeInv'
  <2>1. PICK x : x = Row(worker[w].login, worker[w].sid, "executor")
    OBVIOUS
  <2>2. worker[w] \in [op : {"save", "find", "insert", "update", "failed"}, login : 1 .. MaxLogins, sid : Sids]
    BY <1>16 DEF InsertRow, Doing, Tasks, NoTask, Task
  <2>3. x \in Rows /\ x.login = worker[w].login
    BY <2>1, <2>2 DEF Row, Rows
  <2>4. /\ rows' = rows \cup {x} /\ stored' = stored \cup rows'
        /\ worker' = [worker EXCEPT ![w] = NoTask]
    BY <1>16, <2>1 DEF InsertRow, Then
  <2>5. NoTask \in Tasks /\ NoTask.login = 0
    BY DEF Tasks, NoTask, Task
  <2> QED
    BY <1>16, <2>3, <2>4, <2>5 DEF InsertRow
<1>23. ASSUME NEW w \in Workers, DropException(w) PROVE TypeInv'
  BY <1>23 DEF DropException, Then, Doing, Tasks, NoTask, Task
<1>17. ASSUME NEW w \in Workers, UpdateRow(w) PROVE TypeInv'
  BY <1>17 DEF UpdateRow, Updated, Then, Doing, Tasks, NoTask, Task
<1>18. ASSUME NEW w \in Workers, DeleteRows(w) PROVE TypeInv'
  BY <1>18 DEF DeleteRows, Then, Doing, Tasks, NoTask, Task
<1>19. ASSUME NEW s \in Sids, FailedLogin(s) PROVE TypeInv'
  BY <1>19 DEF FailedLogin
<1>20. ASSUME NEW s \in Sids, Expire(s) PROVE TypeInv'
  BY <1>20, DestroyTypes DEF Expire
<1>21. CASE Crash
  BY <1>21 DEF Crash, NoTask, Task, Tasks, RequestStates
<1>22. CASE UNCHANGED vars
  BY <1>22 DEF vars
<1> QED
  BY <1>1, <1>2, <1>3, <1>4, <1>5, <1>6, <1>7, <1>8, <1>9, <1>10, <1>11, <1>12, <1>13,
     <1>15, <1>16, <1>17, <1>18, <1>19, <1>20, <1>21, <1>22, <1>23
  DEF Next, Serve, Execute

(* Every variable of every instance keeps its type.                        *)
THEOREM TypeCorrect == Spec => []TypeOK
<1>1. Spec => []TypeInv
  BY InitTypes, NextTypes, PTL DEF Spec
<1> QED
  BY <1>1, PTL DEF TypeInv

-----------------------------------------------------------------------------
(* Where the save of login n waits: with its request, in the executor's    *)
(* list or with a thread.  A login is saved once, so it waits in at most   *)
(* one place; it does so no more once there is a row of it, once a request *)
(* restores it from such a row, or once it is gone.  Hence what stores a   *)
(* row of n, its save or a request restoring it, cannot follow the         *)
(* deletion of all rows of n.                                              *)
WithRequest(n, r) == req[r].pc = "login" /\ req[r].login = n
Listed(n, i) == queue[i].login = n
WithThread(n, w) == worker[w].login = n
Pending(n) == \/ \E r \in Requests : WithRequest(n, r)
              \/ \E i \in DOMAIN queue : Listed(n, i)
              \/ \E w \in Workers : WithThread(n, w)

Restoring(n) == \E r \in Requests : req[r].pc \in RestoreSteps /\ req[r].login = n
HasRow(n) == \E x \in rows : x.login = n

SavedOnce(n) ==
    /\ \A r, q \in Requests : WithRequest(n, r) /\ WithRequest(n, q) => r = q
    /\ \A i, j \in DOMAIN queue : Listed(n, i) /\ Listed(n, j) => i = j
    /\ \A w, v \in Workers : WithThread(n, w) /\ WithThread(n, v) => w = v
    /\ \A r \in Requests : WithRequest(n, r) => /\ \A i \in DOMAIN queue : ~Listed(n, i)
                                               /\ \A w \in Workers : ~WithThread(n, w)
    /\ \A i \in DOMAIN queue : Listed(n, i) => \A w \in Workers : ~WithThread(n, w)

Settled(n) ==
    /\ HasRow(n) \/ Restoring(n) \/ n \in gone => ~Pending(n)
    /\ n \in gone => ~HasRow(n) /\ ~Restoring(n)

LoginInv(n) == SavedOnce(n) /\ Settled(n)
Logins == 1 .. MaxLogins
IInv == TypeInv /\ \A n \in Logins : LoginInv(n)

(* A step that gives the save of n no new place, stores a row only from a  *)
(* row and ends nothing keeps the invariant.                               *)
LEMMA Undisturbed ==
    ASSUME NEW n \in Logins, LoginInv(n),
           \A r \in Requests : WithRequest(n, r)' => WithRequest(n, r),
           \A i \in DOMAIN queue' : Listed(n, i)' => i \in DOMAIN queue /\ Listed(n, i),
           \A w \in Workers : WithThread(n, w)' => WithThread(n, w),
           HasRow(n)' => HasRow(n) \/ Restoring(n),
           Restoring(n)' => Restoring(n) \/ HasRow(n),
           n \in gone' => n \in gone
    PROVE  LoginInv(n)'
<1>1. SavedOnce(n)'
  BY DEF LoginInv, SavedOnce
<1>2. Pending(n)' => Pending(n)
  BY DEF Pending
<1>3. Settled(n)'
  BY <1>2 DEF LoginInv, Settled
<1> QED
  BY <1>1, <1>3 DEF LoginInv

(* The deletion of a session is no save.                                   *)
LEMMA DestroyKeeps ==
    ASSUME TypeInv, NEW n \in Logins, NEW s, Destroy(s)
    PROVE  \A i \in DOMAIN queue' : Listed(n, i)' => i \in DOMAIN queue /\ Listed(n, i)
<1>1. CASE queue' = queue
  BY <1>1 DEF Listed
<1>2. CASE queue' = Append(queue, Task("delete", 0, s))
  <2>1. queue \in Seq(Tasks)
    BY DEF TypeInv, TypeOK
  <2>2. /\ Len(queue') = Len(queue) + 1
        /\ DOMAIN queue' = 1 .. Len(queue')
        /\ DOMAIN queue = 1 .. Len(queue)
        /\ \A i \in DOMAIN queue : queue'[i] = queue[i]
        /\ queue'[Len(queue) + 1] = Task("delete", 0, s)
    BY <1>2, <2>1
  <2>3. queue'[Len(queue) + 1].login # n
    BY <2>2, BoundsAssumption DEF Task, Logins
  <2> QED
    BY <2>1, <2>2, <2>3 DEF Listed
<1> QED
  BY <1>1, <1>2 DEF Destroy

LEMMA InitInv == Init => IInv
<1> SUFFICES ASSUME Init PROVE IInv
  OBVIOUS
<1>1. ASSUME NEW n \in Logins PROVE LoginInv(n)
  BY BoundsAssumption
  DEF Init, Logins, LoginInv, SavedOnce, Settled, Pending, Restoring, HasRow, WithRequest, Listed,
      WithThread, IdleRequest, Request, NoTask, Task, RestoreSteps
<1> QED
  BY <1>1, InitTypes DEF IInv

(* The first step of a login: its number is new.                           *)
LEMMA LoginKeeps ==
    ASSUME IInv, NEW n \in Logins, NEW r \in Requests, NEW u \in Users, NEW s \in Sids, Login(r, u, s)
    PROVE  LoginInv(n)'
<1>1. /\ Len(logins') = Len(logins) + 1 /\ Len(logins) \in Nat
      /\ DOMAIN logins = 1 .. Len(logins)
      /\ \A q \in Requests : req'[q] = IF q = r THEN Request("login", Len(logins'), s, s \notin created)
                                              ELSE req[q]
      /\ UNCHANGED <<rows, queue, worker, gone>>
  BY DEF Login, IInv, TypeInv, TypeOK, history
<1>2. CASE n = Len(logins')
  <2>1. /\ \A q \in Requests : ~WithRequest(n, q)
        /\ \A i \in DOMAIN queue : ~Listed(n, i)
        /\ \A w \in Workers : ~WithThread(n, w)
        /\ ~HasRow(n)
    BY <1>1, <1>2 DEF IInv, TypeInv, Numbered, WithRequest, Listed, WithThread, HasRow
  <2>2. ~Restoring(n)
    BY <1>1, <1>2 DEF IInv, TypeInv, Numbered, Restoring
  <2>3. n \notin gone
    BY <1>1, <1>2 DEF IInv, TypeInv, TypeOK
  <2>4. \A q \in Requests : WithRequest(n, q)' => q = r
    BY <1>1, <2>1 DEF WithRequest
  <2>5. /\ \A i \in DOMAIN queue' : ~Listed(n, i)'
        /\ \A w \in Workers : ~WithThread(n, w)'
        /\ ~HasRow(n)'
        /\ ~Restoring(n)'
        /\ n \notin gone'
    BY <1>1, <2>1, <2>2, <2>3 DEF Listed, WithThread, HasRow, Restoring, Request, RestoreSteps
  <2> QED
    BY <2>4, <2>5 DEF LoginInv, SavedOnce, Settled
<1>3. CASE n # Len(logins')
  <2>1. \A q \in Requests : WithRequest(n, q)' => WithRequest(n, q)
    BY <1>1, <1>3 DEF WithRequest, Request
  <2>2. Restoring(n)' => Restoring(n)
    BY <1>1 DEF Restoring, Request, RestoreSteps
  <2> QED
    BY <1>1, <2>1, <2>2, Undisturbed DEF IInv, Listed, WithThread, HasRow
<1> QED
  BY <1>2, <1>3

(* Its save moves from the request to the list.                            *)
LEMMA SubmitKeeps ==
    ASSUME IInv, NEW n \in Logins, NEW r \in Requests, SubmitSave(r)
    PROVE  LoginInv(n)'
<1>1. /\ req[r].pc = "login"
      /\ \A q \in Requests \ {r} : req'[q] = req[q]
      /\ req'[r].pc = "reply"
      /\ UNCHANGED <<rows, worker, gone>>
      /\ queue \in Seq(Tasks)
  BY DEF SubmitSave, IInv, TypeInv, TypeOK, RequestStates, At, Go, history
<1>2. Restoring(n)' => Restoring(n)
  BY <1>1 DEF Restoring, RestoreSteps
<1>3. \A q \in Requests : WithRequest(n, q)' => WithRequest(n, q) /\ q # r
  BY <1>1 DEF WithRequest
<1>4. CASE queue' = Append(queue, Task("save", req[r].login, req[r].sid)) /\ n = req[r].login
  <2>1. WithRequest(n, r)
    BY <1>1, <1>4 DEF WithRequest
  <2>2. /\ \A i \in DOMAIN queue : ~Listed(n, i)
        /\ \A w \in Workers : ~WithThread(n, w)
        /\ \A q \in Requests : ~WithRequest(n, q)'
        /\ ~HasRow(n) /\ ~Restoring(n) /\ n \notin gone
    BY <1>3, <2>1 DEF IInv, LoginInv, SavedOnce, Settled, Pending
  <2>3. \A i \in DOMAIN queue' : Listed(n, i)' => i = Len(queue) + 1
    BY <1>1, <1>4, <2>2 DEF Listed
  <2>4. \A w \in Workers : ~WithThread(n, w)'
    BY <1>1, <2>2 DEF WithThread
  <2>5. ~HasRow(n)' /\ ~Restoring(n)' /\ n \notin gone'
    BY <1>1, <1>2, <2>2 DEF HasRow
  <2> QED
    BY <2>2, <2>3, <2>4, <2>5 DEF LoginInv, SavedOnce, Settled
<1>5. CASE queue' = queue \/ n # req[r].login
  <2>1. \A i \in DOMAIN queue' : Listed(n, i)' => i \in DOMAIN queue /\ Listed(n, i)
    <3>1. CASE queue' = queue
      BY <3>1 DEF Listed
    <3>2. CASE queue' = Append(queue, Task("save", req[r].login, req[r].sid)) /\ n # req[r].login
      BY <1>1, <3>2 DEF Listed, Task
    <3> QED
      BY <1>5, <3>1, <3>2 DEF SubmitSave
  <2> QED
    BY <1>1, <1>2, <1>3, <2>1, Undisturbed DEF IInv, WithThread, HasRow
<1> QED
  BY <1>4, <1>5 DEF SubmitSave

(* From the list to a thread.                                              *)
LEMMA StartKeeps ==
    ASSUME IInv, NEW n \in Logins, NEW w \in Workers, Start(w)
    PROVE  LoginInv(n)'
<1>1. /\ queue \in Seq(Tasks) /\ queue # <<>>
      /\ queue' = Tail(queue)
      /\ worker'[w] = queue[1]
      /\ \A v \in Workers \ {w} : worker'[v] = worker[v]
      /\ UNCHANGED <<rows, req, gone>>
  BY DEF Start, IInv, TypeInv, TypeOK, history
<1>2. /\ DOMAIN queue = 1 .. Len(queue) /\ Len(queue) \in Nat \ {0}
      /\ DOMAIN queue' = 1 .. Len(queue) - 1
      /\ \A i \in DOMAIN queue' : queue'[i] = queue[i + 1] /\ i + 1 \in DOMAIN queue /\ i \in Nat
  BY <1>1
<1>3. \A i \in DOMAIN queue' : Listed(n, i)' => Listed(n, i + 1) /\ i + 1 \in DOMAIN queue /\ i + 1 # 1
  BY <1>2 DEF Listed
<1>4. \A v \in Workers : WithThread(n, v)' => (WithThread(n, v) /\ v # w) \/ (v = w /\ Listed(n, 1))
  <2>1. WithThread(n, w)' => Listed(n, 1)
    BY <1>1 DEF WithThread, Listed
  <2>2. ASSUME NEW v \in Workers \ {w} PROVE WithThread(n, v)' => WithThread(n, v)
    BY <1>1 DEF WithThread
  <2> QED
    BY <2>1, <2>2
<1>5. 1 \in DOMAIN queue
  BY <1>2
<1>6. /\ \A r \in Requests : WithRequest(n, r)' <=> WithRequest(n, r)
      /\ HasRow(n)' <=> HasRow(n)
      /\ Restoring(n)' <=> Restoring(n)
      /\ n \in gone' <=> n \in gone
  BY <1>1 DEF WithRequest, HasRow, Restoring
<1>7. SavedOnce(n)
  BY DEF IInv, LoginInv
<1>8. SavedOnce(n)'
  <2>1. \A i, j \in DOMAIN queue' : Listed(n, i)' /\ Listed(n, j)' => i = j
    BY <1>2, <1>3, <1>7 DEF SavedOnce
  <2>2. \A i \in DOMAIN queue' : Listed(n, i)' => \A v \in Workers : ~WithThread(n, v)'
    BY <1>3, <1>4, <1>5, <1>7 DEF SavedOnce
  <2> QED
    BY <1>3, <1>4, <1>5, <1>6, <1>7, <2>1, <2>2 DEF SavedOnce
<1>9. Pending(n)' => Pending(n)
  BY <1>3, <1>4, <1>5, <1>6 DEF Pending
<1> QED
  BY <1>6, <1>8, <1>9 DEF IInv, LoginInv, Settled

(* From the thread to the table.                                           *)
LEMMA InsertKeeps ==
    ASSUME IInv, NEW n \in Logins, NEW w \in Workers, InsertRow(w)
    PROVE  LoginInv(n)'
<1>1. /\ \E x : x.login = worker[w].login /\ rows' = rows \cup {x}
      /\ worker'[w].login = 0
      /\ \A v \in Workers \ {w} : worker'[v] = worker[v]
      /\ UNCHANGED <<queue, req, gone>>
  <2>1. Row(worker[w].login, worker[w].sid, "executor").login = worker[w].login
    BY DEF Row
  <2> QED
    BY <2>1 DEF InsertRow, Then, NoTask, Task, IInv, TypeInv, TypeOK, history
<1>2. /\ \A r \in Requests : WithRequest(n, r)' <=> WithRequest(n, r)
      /\ \A i \in DOMAIN queue' : Listed(n, i)' => i \in DOMAIN queue /\ Listed(n, i)
      /\ Restoring(n)' <=> Restoring(n)
  BY <1>1 DEF WithRequest, Listed, Restoring
<1>3. \A v \in Workers : WithThread(n, v)' => WithThread(n, v) /\ v # w
  BY <1>1 DEF WithThread, Logins
<1>4. CASE worker[w].login # n
  <2>1. HasRow(n)' => HasRow(n)
    BY <1>1, <1>4 DEF HasRow
  <2> QED
    BY <1>1, <1>2, <1>3, <2>1, Undisturbed DEF IInv
<1>5. CASE worker[w].login = n
  <2>1. WithThread(n, w)
    BY <1>5 DEF WithThread
  <2>2. SavedOnce(n) /\ n \notin gone
    BY <2>1 DEF IInv, LoginInv, Settled, Pending
  <2>3. ~Pending(n)'
    BY <1>2, <1>3, <2>1, <2>2 DEF Pending, SavedOnce
  <2> QED
    BY <1>1, <2>2, <2>3 DEF LoginInv, SavedOnce, Settled, Pending
<1> QED
  BY <1>4, <1>5

(* What a commit ends has a row, so its save has been.                     *)
LEMMA CommitKeeps ==
    ASSUME IInv, NEW n \in Logins, NEW r \in Requests, Commit(r)
    PROVE  LoginInv(n)'
<1>1. /\ rows' = rows \ req[r].condemned
      /\ \A q \in Requests : req'[q] = IF q = r THEN IdleRequest ELSE req[q]
      /\ UNCHANGED <<queue, worker>>
  BY DEF Commit, End, IInv, TypeInv, TypeOK
<1>2. /\ \A q \in Requests : WithRequest(n, q)' => WithRequest(n, q)
      /\ \A i \in DOMAIN queue' : Listed(n, i)' => i \in DOMAIN queue /\ Listed(n, i)
      /\ \A w \in Workers : WithThread(n, w)' => WithThread(n, w)
      /\ HasRow(n)' => HasRow(n)
      /\ Restoring(n)' => Restoring(n)
  BY <1>1 DEF WithRequest, Listed, WithThread, HasRow, Restoring, IdleRequest, Request, RestoreSteps
<1>3. CASE n \in gone' \ gone
  <2>1. /\ HasRow(n)
        /\ \A x \in rows : x.login = n => x \in req[r].condemned
        /\ ~Restoring(n)
    BY <1>3 DEF Commit, HasRow, Restoring, At
  <2>2. ~Pending(n)
    BY <2>1 DEF IInv, LoginInv, Settled
  <2>3. ~Pending(n)' /\ ~HasRow(n)' /\ ~Restoring(n)'
    BY <1>1, <1>2, <2>1, <2>2 DEF Pending, HasRow
  <2> QED
    BY <2>3 DEF LoginInv, SavedOnce, Settled, Pending
<1>4. CASE n \notin gone' \ gone
  BY <1>2, <1>4, Undisturbed DEF IInv
<1> QED
  BY <1>3, <1>4

LEMMA NextInv == IInv /\ [Next]_vars => IInv'
<1> SUFFICES ASSUME IInv, [Next]_vars PROVE IInv'
  OBVIOUS
<1>1. TypeInv /\ TypeInv'
  BY NextTypes DEF IInv
<1> SUFFICES ASSUME NEW n \in Logins PROVE LoginInv(n)'
  BY <1>1 DEF IInv, Logins
<1> USE DEF WithRequest, Restoring, HasRow, Listed, WithThread, RestoreSteps
<1>2. LoginInv(n) /\ 0 # n
  BY DEF IInv, Logins
<1>3. ASSUME NEW r \in Requests, End(r)
      PROVE  (\A q \in Requests : WithRequest(n, q)' => WithRequest(n, q)) /\ (Restoring(n)' => Restoring(n))
  BY <1>1, <1>3 DEF End, IdleRequest, Request, TypeInv, TypeOK
<1>4. ASSUME NEW w \in Workers, NEW op, Then(w, op)
      PROVE  \A v \in Workers : WithThread(n, v)' => WithThread(n, v)
  <2>1. worker'[w].login \in {0, worker[w].login} /\ \A v \in Workers \ {w} : worker'[v] = worker[v]
    BY <1>1, <1>4 DEF Then, NoTask, Task, TypeInv, TypeOK, Tasks
  <2> QED
    BY <1>2, <2>1
<1> USE DEF history
<1>5. ASSUME NEW r \in Requests, Reply(r) PROVE LoginInv(n)'
  BY <1>2, <1>3, <1>5, Undisturbed DEF Reply
<1>6. ASSUME NEW r \in Requests, NEW s \in Sids, LoadContext(r, s) PROVE LoginInv(n)'
  <2>a. \E m, pc : pc \in {"loaded", "restore"} /\ req' = [req EXCEPT ![r] = Request(pc, m, s, FALSE)]
    BY <1>6 DEF LoadContext
  <2>1. \A q \in Requests : WithRequest(n, q)' => WithRequest(n, q)
    BY <1>1, <2>a DEF Request, TypeInv, TypeOK
  <2>2. Restoring(n)' => Restoring(n) \/ HasRow(n)
    <3>1. \E m, pc : /\ req' = [req EXCEPT ![r] = Request(pc, m, s, FALSE)]
                     /\ pc = "loaded" \/ (pc = "restore" /\ \E x \in rows : m = x.login)
      BY <1>6 DEF LoadContext, Found, Copies
    <3>2. PICK m, pc : /\ req' = [req EXCEPT ![r] = Request(pc, m, s, FALSE)]
                       /\ pc = "loaded" \/ (pc = "restore" /\ \E x \in rows : m = x.login)
      BY <3>1
    <3> QED
      BY <1>1, <3>2 DEF Request, TypeInv, TypeOK
  <2> QED
    BY <1>2, <1>6, <2>1, <2>2, Undisturbed DEF LoadContext
<1>7. ASSUME NEW r \in Requests, NEW q, req' = [req EXCEPT ![r] = q],
             req[r].pc \in RestoreSteps, q.login = req[r].login, q.pc # "login"
      PROVE  (\A p \in Requests : WithRequest(n, p)' => WithRequest(n, p)) /\ (Restoring(n)' => Restoring(n))
  BY <1>1, <1>7 DEF TypeInv, TypeOK
<1>21. ASSUME NEW r \in Requests, Restore(r) PROVE LoginInv(n)'
  <2>1. req[r].pc \in RestoreSteps
    BY <1>21 DEF Restore, OpenSession, SeekRow, ReadAttributes, StoreRow, At
  <2>2. \E q : req' = [req EXCEPT ![r] = q] /\ q.login = req[r].login /\ q.pc # "login"
    <3>1. CASE \E s \in Sids : OpenSession(r, s)
      <4>1. PICK s \in Sids : req' = [req EXCEPT ![r] = Request("opened", req[r].login, s, s \notin created)]
        BY <3>1 DEF OpenSession
      <4>2. PICK q : q = Request("opened", req[r].login, s, s \notin created)
        OBVIOUS
      <4>3. q.login = req[r].login /\ q.pc = "opened"
        BY <4>2 DEF Request
      <4> QED
        BY <4>1, <4>2, <4>3
    <3>2. ASSUME NEW pc \in {"read", "loaded", "find", "insert"}, Go(r, pc)
          PROVE  \E q : req' = [req EXCEPT ![r] = q] /\ q.login = req[r].login /\ q.pc # "login"
      <4>1. PICK q : q = [req[r] EXCEPT !.pc = pc]
        OBVIOUS
      <4>2. q.login = req[r].login /\ q.pc = pc
        BY <1>1, <4>1 DEF TypeInv, TypeOK, RequestStates
      <4>3. req' = [req EXCEPT ![r] = q]
        BY <1>1, <3>2, <4>1 DEF Go, TypeInv, TypeOK
      <4> QED
        BY <3>2, <4>2, <4>3
    <3>3. CASE ~\E s \in Sids : OpenSession(r, s)
      <4>1. \E pc \in {"read", "loaded", "find", "insert"} : Go(r, pc)
        BY <1>21, <3>3 DEF Restore, SeekRow, ReadAttributes, StoreRow
      <4> QED
        BY <3>2, <4>1
    <3> QED
      BY <3>1, <3>3
  <2>3. (\A p \in Requests : WithRequest(n, p)' => WithRequest(n, p)) /\ (Restoring(n)' => Restoring(n))
    BY <1>7, <2>1, <2>2
  <2>4. HasRow(n)' => HasRow(n) \/ Restoring(n)
    <3>1. CASE StoreRow(r)
      <4>1. Row(req[r].login, req[r].sid, r).login = req[r].login
        BY DEF Row
      <4> QED
        BY <2>1, <3>1, <4>1 DEF StoreRow
    <3>2. CASE ~StoreRow(r)
      BY <1>21, <3>2 DEF Restore, OpenSession, SeekRow, ReadAttributes
    <3> QED
      BY <3>1, <3>2
  <2>5. UNCHANGED <<queue, worker, gone>>
    BY <1>21 DEF Restore, OpenSession, SeekRow, ReadAttributes, StoreRow
  <2> QED
    BY <1>2, <2>3, <2>4, <2>5, Undisturbed
<1>22. ASSUME NEW r \in Requests, RestoreFails(r) PROVE LoginInv(n)'
  BY <1>2, <1>3, <1>22, Undisturbed DEF RestoreFails
<1>8. ASSUME NEW r \in Requests, Admit(r) PROVE LoginInv(n)'
  <2>1. /\ \A q \in Requests : WithRequest(n, q)' => WithRequest(n, q)
        /\ Restoring(n)' => Restoring(n)
    BY <1>1, <1>8 DEF Admit, Go, TypeInv, TypeOK, RequestStates
  <2> QED
    BY <1>2, <1>8, <2>1, Undisturbed DEF Admit
<1>9. ASSUME NEW r \in Requests, Invalidate(r) PROVE LoginInv(n)'
  BY <1>1, <1>2, <1>3, <1>9, DestroyKeeps, Undisturbed DEF Invalidate
<1>10. ASSUME NEW r \in Requests, Leave(r) PROVE LoginInv(n)'
  BY <1>2, <1>3, <1>10, Undisturbed DEF Leave
<1>11. ASSUME NEW r \in Requests, Logout(r) PROVE LoginInv(n)'
  <2>1. CASE req[r].sid \in live
    BY <1>1, <1>2, <1>3, <1>11, <2>1, DestroyKeeps, Undisturbed DEF Logout
  <2>2. CASE req[r].sid \notin live
    BY <1>2, <1>3, <1>11, <2>2, Undisturbed DEF Logout
  <2> QED
    BY <2>1, <2>2
<1>12. ASSUME NEW r \in Requests, NEW u, NEW keep, LogoutEverywhere(r, u, keep) PROVE LoginInv(n)'
  <2>1. /\ \A q \in Requests : WithRequest(n, q)' => WithRequest(n, q)
        /\ Restoring(n)' => Restoring(n)
    BY <1>1, <1>12 DEF LogoutEverywhere, TypeInv, TypeOK, RequestStates
  <2> QED
    BY <1>2, <1>12, <2>1, Undisturbed DEF LogoutEverywhere
<1>13. ASSUME NEW w \in Workers, ReadSession(w) PROVE LoginInv(n)'
  BY <1>2, <1>4, <1>13, Undisturbed DEF ReadSession
<1>14. ASSUME NEW w \in Workers, FindRow(w) \/ MergeFails(w) \/ DropException(w) PROVE LoginInv(n)'
  BY <1>2, <1>4, <1>14, Undisturbed DEF FindRow, MergeFails, DropException
<1>15. ASSUME NEW w \in Workers, UpdateRow(w) PROVE LoginInv(n)'
  BY <1>2, <1>4, <1>15, Undisturbed DEF UpdateRow, Updated
<1>16. ASSUME NEW w \in Workers, DeleteRows(w) PROVE LoginInv(n)'
  BY <1>2, <1>4, <1>16, Undisturbed DEF DeleteRows
<1>17. ASSUME NEW s \in Sids, FailedLogin(s) PROVE LoginInv(n)'
  BY <1>2, <1>17, Undisturbed DEF FailedLogin
<1>18. ASSUME NEW s \in Sids, Expire(s) PROVE LoginInv(n)'
  BY <1>1, <1>2, <1>18, DestroyKeeps, Undisturbed DEF Expire
<1>19. CASE Crash
  <2>1. /\ \A r \in Requests : ~WithRequest(n, r)'
        /\ \A i \in DOMAIN queue' : ~Listed(n, i)'
        /\ \A w \in Workers : ~WithThread(n, w)'
        /\ ~Restoring(n)'
    BY <1>2, <1>19 DEF Crash, IdleRequest, Request, NoTask, Task
  <2> QED
    BY <1>2, <1>19, <2>1, Undisturbed DEF Crash
<1>20. CASE UNCHANGED vars
  BY <1>2, <1>20, Undisturbed DEF vars
<1> QED
  BY <1>5, <1>6, <1>8, <1>9, <1>10, <1>11, <1>12, <1>13, <1>14, <1>15, <1>16, <1>17, <1>18, <1>19,
     <1>20, <1>21, <1>22, LoginKeeps, SubmitKeeps, StartKeeps, InsertKeeps, CommitKeeps
  DEF Next, Serve, Execute, CompletePasswordReset, ChangePassword

(* logoutEverywhere is final for what it deleted: whatever number of       *)
(* requests, logins, threads and crashes, no row comes back of a login all *)
(* of whose rows were deleted while no request was restoring it.           *)
THEOREM DeletedForGood == Spec => []GoneStaysGone
<1>1. IInv => GoneStaysGone
  BY DEF IInv, TypeInv, TypeOK, Rows, Logins, LoginInv, Settled, HasRow, GoneStaysGone
<1> QED
  BY <1>1, InitInv, NextInv, PTL DEF Spec
-----------------------------------------------------------------------------
(* Why a row outlives its session.  Only a thread, or a request, that has  *)
(* found the session valid stores a row, and then the session is valid, or *)
(* was destroyed since; a session that was destroyed never comes back.     *)
Storing ==
    \A r \in Requests : req[r].pc \in {"find", "insert"} => req[r].sid \in live \cup excused
TableInv ==
    /\ LeftoversExplained
    /\ \A w \in Workers : worker[w].op \in {"find", "insert"} => worker[w].sid \in live \cup excused
    /\ Storing
    /\ \A s \in Sids : Deleting(s) => s \in created \ live
    /\ \A i \in DOMAIN queue : queue[i].op \in {"save", "delete"}
    /\ rows \subseteq stored
    /\ \A x \in stored : x.sid \in created /\ x.login <= Len(logins)

\* without backups there is nothing to save and nothing to delete
Unused == /\ rows = {} /\ queue = <<>> /\ \A w \in Workers : worker[w] = NoTask
          /\ \A r \in Requests : req[r].pc \notin RestoreSteps
RowInv == TableInv /\ (~Backups => Unused)

LEMMA UnusedKept == ASSUME ~Backups, Unused, TypeInv, [Next]_vars PROVE Unused'
<1> USE DEF Unused, At, history
<1>1. ASSUME NEW r \in Requests, req' = [req EXCEPT ![r] = req'[r]], req'[r].pc \notin RestoreSteps,
             UNCHANGED <<rows, queue, worker>>
      PROVE  Unused'
  BY <1>1 DEF TypeInv, TypeOK
<1>2. ASSUME NEW r \in Requests, Serve(r) PROVE Unused'
  <2>1. req' = [req EXCEPT ![r] = req'[r]] /\ req'[r].pc \notin RestoreSteps
    <3>1. ASSUME NEW q, q.pc \notin RestoreSteps, req' = [req EXCEPT ![r] = q]
          PROVE  req' = [req EXCEPT ![r] = req'[r]] /\ req'[r].pc \notin RestoreSteps
      BY <3>1 DEF TypeInv, TypeOK
    <3>2. ASSUME NEW pc, pc \notin RestoreSteps, req' = [req EXCEPT ![r].pc = pc]
          PROVE  req' = [req EXCEPT ![r] = req'[r]] /\ req'[r].pc \notin RestoreSteps
      BY <3>2 DEF TypeInv, TypeOK, RequestStates
    <3>3. ASSUME NEW u \in Users, NEW s \in Sids, Login(r, u, s)
          PROVE  req' = [req EXCEPT ![r] = req'[r]] /\ req'[r].pc \notin RestoreSteps
      BY <3>1, <3>3 DEF Login, Request, RestoreSteps
    <3>4. CASE SubmitSave(r) \/ Admit(r)
      BY <3>2, <3>4 DEF SubmitSave, Admit, Go, RestoreSteps
    <3>5. CASE Reply(r) \/ Invalidate(r) \/ Leave(r) \/ Logout(r) \/ Commit(r)
      BY <3>1, <3>5 DEF Reply, Invalidate, Leave, Logout, Commit, End, IdleRequest, Request, RestoreSteps
    <3>6. ASSUME NEW s \in Sids, LoadContext(r, s)
          PROVE  req' = [req EXCEPT ![r] = req'[r]] /\ req'[r].pc \notin RestoreSteps
      BY <3>1, <3>6 DEF LoadContext, Request, RestoreSteps
    <3>7. ASSUME Restore(r) \/ RestoreFails(r) PROVE FALSE
      BY <3>7 DEF Restore, OpenSession, SeekRow, ReadAttributes, StoreRow, RestoreFails, RestoreSteps
    <3>8. ASSUME NEW u, NEW keep, LogoutEverywhere(r, u, keep)
          PROVE  req' = [req EXCEPT ![r] = req'[r]] /\ req'[r].pc \notin RestoreSteps
      BY <3>8 DEF LogoutEverywhere, TypeInv, TypeOK, RequestStates, RestoreSteps
    <3> QED
      BY <1>2, <3>3, <3>4, <3>5, <3>6, <3>7, <3>8 DEF Serve, CompletePasswordReset, ChangePassword
  <2>2. UNCHANGED <<rows, queue, worker>>
    <3>1. ~Restore(r) /\ ~RestoreFails(r)
      BY DEF Restore, OpenSession, SeekRow, ReadAttributes, StoreRow, RestoreFails, RestoreSteps
    <3> QED
      BY <1>2, <3>1 DEF Serve, Login, SubmitSave, Reply, LoadContext, Admit, Invalidate, Destroy, Leave,
                        Logout, CompletePasswordReset, ChangePassword, LogoutEverywhere, Commit
  <2> QED
    BY <1>1, <2>1, <2>2
<1>3. ASSUME NEW w \in Workers, Execute(w) PROVE FALSE
  BY <1>3 DEF Execute, Start, ReadSession, FindRow, InsertRow, MergeFails, DropException, UpdateRow,
              DeleteRows, Doing, NoTask, Task
<1>4. ASSUME NEW s \in Sids, FailedLogin(s) \/ Expire(s) PROVE Unused'
  BY <1>4 DEF FailedLogin, Expire, Destroy
<1>5. CASE Crash
  BY <1>5 DEF Crash, IdleRequest, Request, RestoreSteps
<1>6. CASE UNCHANGED vars
  BY <1>6 DEF vars
<1> QED
  BY <1>2, <1>3, <1>4, <1>5, <1>6 DEF Next

(* What waits to be deleted.                                               *)
LEMMA DeletingAppended ==
    ASSUME TypeInv, NEW t, queue' = Append(queue, t), worker' = worker
    PROVE  \A s : Deleting(s)' <=> Deleting(s) \/ t = Task("delete", 0, s)
<1>1. /\ DOMAIN queue = 1 .. Len(queue) /\ DOMAIN queue' = 1 .. Len(queue) + 1 /\ Len(queue) \in Nat
      /\ \A i \in DOMAIN queue : queue'[i] = queue[i]
      /\ queue'[Len(queue) + 1] = t
  BY DEF TypeInv, TypeOK
<1> QED
  BY <1>1 DEF Deleting

LEMMA DeletingStarted ==
    ASSUME TypeInv, NEW w \in Workers, Start(w)
    PROVE  \A s : Deleting(s)' <=> Deleting(s)
<1>1. /\ DOMAIN queue = 1 .. Len(queue) /\ Len(queue) \in Nat \ {0}
      /\ DOMAIN queue' = 1 .. Len(queue) - 1
      /\ \A i \in DOMAIN queue' : queue'[i] = queue[i + 1]
      /\ worker'[w] = queue[1] /\ worker[w] = NoTask
      /\ \A v \in Workers \ {w} : worker'[v] = worker[v]
  BY DEF Start, TypeInv, TypeOK
<1> SUFFICES ASSUME NEW s PROVE Deleting(s)' <=> Deleting(s)
  OBVIOUS
<1>2. ASSUME NEW i \in DOMAIN queue, queue[i] = Task("delete", 0, s) PROVE Deleting(s)'
  <2>1. CASE i = 1
    BY <1>1, <1>2, <2>1 DEF Deleting
  <2>2. CASE i # 1
    <3>1. i - 1 \in DOMAIN queue' /\ queue'[i - 1] = queue[i]
      BY <1>1, <2>2
    <3> QED
      BY <1>2, <3>1 DEF Deleting
  <2> QED
    BY <2>1, <2>2
<1>3. ASSUME NEW v \in Workers, worker[v] = Task("delete", 0, s) PROVE Deleting(s)'
  BY <1>1, <1>3 DEF Deleting, NoTask, Task
<1>4. ASSUME Deleting(s)' PROVE Deleting(s)
  <2>1. CASE \E i \in DOMAIN queue' : queue'[i] = Task("delete", 0, s)
    <3>1. PICK i \in DOMAIN queue' : queue'[i] = Task("delete", 0, s)
      BY <2>1
    <3>2. i + 1 \in DOMAIN queue /\ queue[i + 1] = Task("delete", 0, s)
      BY <1>1, <3>1
    <3> QED
      BY <3>2 DEF Deleting
  <2>2. CASE \E v \in Workers : worker'[v] = Task("delete", 0, s)
    <3>1. PICK v \in Workers : worker'[v] = Task("delete", 0, s)
      BY <2>2
    <3>2. 1 \in DOMAIN queue
      BY <1>1
    <3> QED
      BY <1>1, <3>1, <3>2 DEF Deleting
  <2> QED
    BY <1>4, <2>1, <2>2 DEF Deleting
<1> QED
  BY <1>2, <1>3, <1>4 DEF Deleting

LEMMA ThenDeleting ==
    ASSUME TypeInv, NEW w \in Workers, worker[w].op # "delete", queue' = queue,
           NEW op \in {"find", "insert", "update", "failed", "none"}, Then(w, op)
    PROVE  /\ \A s : Deleting(s)' <=> Deleting(s)
           /\ \A v \in Workers \ {w} : worker'[v] = worker[v]
           /\ worker'[w].op = op
           /\ op # "none" => worker'[w].sid = worker[w].sid
<1>1. /\ \A v \in Workers \ {w} : worker'[v] = worker[v]
      /\ worker'[w].op = op
      /\ op # "none" => worker'[w].sid = worker[w].sid
  BY DEF Then, NoTask, Task, TypeInv, TypeOK, Tasks
<1>2. \A s : worker[w] # Task("delete", 0, s) /\ worker'[w] # Task("delete", 0, s)
  BY <1>1 DEF Task
<1> QED
  BY <1>1, <1>2 DEF Deleting

(* Requests that do not go on to store their session.                      *)
LEMMA StoringKept ==
    ASSUME TypeInv, Storing, live \cup excused \subseteq live' \cup excused', NEW r \in Requests,
           \A q \in Requests \ {r} : req'[q] = req[q],
           \/ req'[r].pc \notin {"find", "insert"}
           \/ req'[r].pc \in {"find", "insert"} /\ req'[r].sid \in live' \cup excused'
    PROVE  Storing'
BY DEF Storing

(* Sessions come, with or without a login; none comes back.                *)
LEMMA TableKept ==
    ASSUME TypeInv, TableInv, Storing', live \subseteq live', (live' \ live) \cap created = {},
           created \subseteq created', Len(logins) <= Len(logins'), Len(logins') \in Nat,
           UNCHANGED <<rows, queue, worker, stored, excused>>
    PROVE  TableInv'
<1>1. \A s : Deleting(s)' <=> Deleting(s)
  BY DEF Deleting
<1>2. LeftoversExplained'
  BY <1>1 DEF TableInv, LeftoversExplained
<1>3. Len(logins) \in Nat /\ \A x \in stored : x.login \in Nat
  BY BoundsAssumption DEF TypeInv, TypeOK, Rows
<1> QED
  BY <1>1, <1>2, <1>3 DEF TableInv

(* A session ends: its rows are about to be deleted, and if it is being    *)
(* stored it is excused.                                                   *)
LEMMA DestroyTable ==
    ASSUME TypeInv, RowInv, NEW s \in live, Destroy(s), UNCHANGED <<rows, worker, created, stored, logins>>,
           \A r \in Requests : req'[r] = req[r] \/ req'[r] = IdleRequest
    PROVE  TableInv'
<1> USE DEF RowInv, TableInv
<1>0. s \in Sids /\ s \in created
  BY DEF TypeInv, TypeOK
<1>1. /\ live' = live \ {s} /\ excused \subseteq excused'
      /\ BeingStored(s) => s \in excused'
  BY DEF Destroy
<1>4. Storing'
  BY <1>1 DEF Storing, BeingStored, IdleRequest, Request
<1>2. CASE Backups
  <2>1. queue' = Append(queue, Task("delete", 0, s))
    BY <1>2 DEF Destroy
  <2>2. \A t : Deleting(t)' <=> Deleting(t) \/ t = s
    BY <2>1, DeletingAppended DEF Task
  <2>3. \A i \in DOMAIN queue' : queue'[i].op \in {"save", "delete"}
    BY <2>1 DEF TypeInv, TypeOK, Task
  <2>4. LeftoversExplained'
    BY <1>1, <2>2 DEF LeftoversExplained
  <2>5. \A w \in Workers : worker[w].op \in {"find", "insert"} => worker[w].sid \in live' \cup excused'
    BY <1>1 DEF BeingStored
  <2>6. \A t \in Sids : Deleting(t)' => t \in created' \ live'
    BY <1>0, <1>1, <2>2
  <2> QED
    BY <1>4, <2>3, <2>4, <2>5, <2>6
<1>3. CASE ~Backups
  <2>1. queue' = queue
    BY <1>3 DEF Destroy
  <2>2. \A t : Deleting(t)' <=> Deleting(t)
    BY <2>1 DEF Deleting
  <2>3. LeftoversExplained'
    BY <1>3 DEF LeftoversExplained, Unused
  <2>4. \A w \in Workers : worker[w].op \in {"find", "insert"} => worker[w].sid \in live' \cup excused'
    BY <1>1 DEF BeingStored
  <2>5. \A t \in Sids : Deleting(t)' => t \in created' \ live'
    BY <1>1, <2>2
  <2> QED
    BY <1>4, <2>1, <2>3, <2>4, <2>5
<1> QED
  BY <1>2, <1>3

LEMMA ExecutorTable ==
    ASSUME TypeInv, TypeInv', RowInv, NEW w \in Workers, Execute(w)
    PROVE  TableInv'
<1> USE DEF RowInv, TableInv, history
<1>1. UNCHANGED <<live, created, excused, logins, req>> /\ Storing'
  <2>1. UNCHANGED <<live, created, excused, logins, req>>
    BY DEF Execute, Start, ReadSession, FindRow, InsertRow, MergeFails, DropException, UpdateRow, DeleteRows
  <2> QED
    BY <2>1 DEF Storing
<1>2. CASE Start(w)
  <2>1. \A s : Deleting(s)' <=> Deleting(s)
    BY <1>2, DeletingStarted
  <2>2. /\ \A i \in DOMAIN queue' : queue'[i].op \in {"save", "delete"}
        /\ worker'[w].op \in {"save", "delete"}
        /\ \A v \in Workers \ {w} : worker'[v] = worker[v]
        /\ UNCHANGED <<rows, stored>>
    BY <1>2 DEF Start, TypeInv, TypeOK
  <2>3. LeftoversExplained'
    BY <1>1, <2>1, <2>2 DEF LeftoversExplained
  <2> QED
    BY <1>1, <2>1, <2>2, <2>3
<1>3. ASSUME NEW op \in {"find", "insert", "update", "failed", "none"}, worker[w].op # "delete", Then(w, op),
             op \in {"find", "insert"} => worker[w].sid \in live \cup excused,
             UNCHANGED <<rows, stored, queue>>
      PROVE  TableInv'
  <2>1. /\ \A s : Deleting(s)' <=> Deleting(s)
        /\ \A v \in Workers \ {w} : worker'[v] = worker[v]
        /\ worker'[w].op = op
        /\ op # "none" => worker'[w].sid = worker[w].sid
    BY <1>3, ThenDeleting
  <2>2. LeftoversExplained'
    BY <1>1, <1>3, <2>1 DEF LeftoversExplained
  <2> QED
    BY <1>1, <1>3, <2>1, <2>2
<1>4. CASE ReadSession(w)
  BY <1>3, <1>4 DEF ReadSession, Doing, Readable
<1>5. CASE FindRow(w)
  <2>1. \E op \in {"insert", "update", "none"} : Then(w, op)
    BY <1>5 DEF FindRow
  <2> QED
    BY <1>3, <1>5, <2>1 DEF FindRow, Doing
<1>9. CASE MergeFails(w) \/ DropException(w)
  <2>1. Then(w, "failed") \/ Then(w, "none")
    BY <1>9 DEF MergeFails, DropException
  <2> QED
    BY <1>3, <1>9, <2>1 DEF MergeFails, DropException, Doing
<1>6. CASE InsertRow(w)
  <2>1. worker[w].op = "insert" /\ worker[w].sid \in live \cup excused
    BY <1>6 DEF InsertRow, Doing
  <2>2. /\ \A s : Deleting(s)' <=> Deleting(s)
        /\ \A v \in Workers \ {w} : worker'[v] = worker[v]
        /\ worker'[w].op = "none"
    BY <1>6, <2>1, ThenDeleting DEF InsertRow
  <2>a. PICK y : y = Row(worker[w].login, worker[w].sid, "executor")
    OBVIOUS
  <2>b. y.login = worker[w].login /\ y.sid = worker[w].sid
    BY <2>a DEF Row
  <2>3. rows' = rows \cup {y} /\ stored' = stored \cup rows' /\ queue' = queue
    BY <1>6, <2>a DEF InsertRow
  <2>4. LeftoversExplained'
    BY <1>1, <2>1, <2>2, <2>3, <2>b DEF LeftoversExplained
  <2>5. \A x \in stored' : x.sid \in created' /\ x.login <= Len(logins')
    BY <1>1, <2>1, <2>3, <2>b DEF TypeInv, TypeOK, Numbered
  <2> QED
    BY <1>1, <2>2, <2>3, <2>4, <2>5
<1>7. CASE UpdateRow(w)
  BY <1>3, <1>7 DEF UpdateRow, Updated, Doing
<1>8. CASE DeleteRows(w)
  <2>1. worker[w].op = "delete" /\ rows' = rows \ Copies(worker[w].sid) /\ Then(w, "none")
        /\ UNCHANGED <<queue, stored>>
    BY <1>8 DEF DeleteRows, Deleted, Doing
  <2>2. /\ worker'[w] = NoTask
        /\ \A v \in Workers \ {w} : worker'[v] = worker[v]
    BY <2>1 DEF Then, TypeInv, TypeOK
  <2>3. \A s : Deleting(s) /\ s # worker[w].sid => Deleting(s)'
    BY <2>1, <2>2 DEF Deleting, Task
  <2>a. \A s : worker'[w] # Task("delete", 0, s)
    BY <2>2 DEF NoTask, Task
  <2>4. \A s : Deleting(s)' => Deleting(s)
    BY <2>1, <2>2, <2>a DEF Deleting
  <2>5. LeftoversExplained'
    BY <1>1, <2>1, <2>3 DEF LeftoversExplained, Copies
  <2> QED
    BY <1>1, <2>1, <2>2, <2>4, <2>5 DEF NoTask, Task
<1> QED
  BY <1>2, <1>4, <1>5, <1>6, <1>7, <1>8, <1>9 DEF Execute

(* What requests do that does not end their session.                       *)
LEMMA StoringOn ==
    ASSUME TypeInv, TableInv, NEW r \in Requests, Serve(r), UNCHANGED excused, live \subseteq live'
    PROVE  Storing'
<1> USE DEF history
<1>0. Storing /\ live \cup excused \subseteq live' \cup excused'
  BY DEF TableInv
<1>1. ASSUME NEW x, req' = [req EXCEPT ![r] = x], x.pc \notin {"find", "insert"} PROVE Storing'
  BY <1>0, <1>1, StoringKept DEF TypeInv, TypeOK
<1>2. ASSUME NEW pc, req' = [req EXCEPT ![r].pc = pc],
             pc \in {"find", "insert"} => req[r].sid \in live \cup excused
      PROVE  Storing'
  <2>1. req'[r].pc = pc /\ req'[r].sid = req[r].sid /\ \A q \in Requests \ {r} : req'[q] = req[q]
    BY <1>2 DEF TypeInv, TypeOK, RequestStates
  <2> QED
    BY <1>0, <1>2, <2>1, StoringKept
<1>3. ASSUME NEW u \in Users, NEW s \in Sids, Login(r, u, s) PROVE Storing'
  BY <1>1, <1>3 DEF Login, Request
<1>4. CASE SubmitSave(r) \/ Admit(r)
  BY <1>2, <1>4 DEF SubmitSave, Admit, Go
<1>5. CASE Reply(r) \/ Invalidate(r) \/ Leave(r) \/ Logout(r) \/ Commit(r) \/ RestoreFails(r)
  BY <1>1, <1>5 DEF Reply, Invalidate, Leave, Logout, Commit, RestoreFails, End, IdleRequest, Request
<1>6. ASSUME NEW s \in Sids, LoadContext(r, s) PROVE Storing'
  BY <1>1, <1>6 DEF LoadContext, Request
<1>7. ASSUME NEW s \in Sids, OpenSession(r, s) PROVE Storing'
  <2>1. PICK q : q = Request("opened", req[r].login, s, s \notin created)
    OBVIOUS
  <2>2. q.pc = "opened"
    BY <2>1 DEF Request
  <2>3. req' = [req EXCEPT ![r] = q]
    BY <1>7, <2>1 DEF OpenSession
  <2> QED
    BY <1>1, <2>2, <2>3
<1>8. CASE SeekRow(r, "opened", "read")
  BY <1>2, <1>8 DEF SeekRow, Go
<1>9. CASE ReadAttributes(r)
  BY <1>2, <1>9 DEF ReadAttributes, Readable, Go
<1>10. CASE SeekRow(r, "find", "insert")
  <2>1. req[r].sid \in live \cup excused
    BY <1>0, <1>10 DEF SeekRow, At, Storing
  <2> QED
    BY <1>2, <1>10, <2>1 DEF SeekRow, Go
<1>11. CASE StoreRow(r)
  BY <1>2, <1>11 DEF StoreRow, Go
<1>12. ASSUME NEW u, NEW keep, LogoutEverywhere(r, u, keep) PROVE Storing'
  <2>1. req'[r].pc = "commit" /\ \A q \in Requests \ {r} : req'[q] = req[q]
    BY <1>12 DEF LogoutEverywhere, TypeInv, TypeOK, RequestStates
  <2> QED
    BY <1>0, <2>1, StoringKept
<1> QED
  BY <1>3, <1>4, <1>5, <1>6, <1>7, <1>8, <1>9, <1>10, <1>11, <1>12
  DEF Serve, Restore, CompletePasswordReset, ChangePassword

LEMMA ServeTable ==
    ASSUME TypeInv, TypeInv', RowInv, NEW r \in Requests, Serve(r)
    PROVE  TableInv'
<1> USE DEF history
<1>0. Len(logins) \in Nat /\ Len(logins') \in Nat
  BY DEF TypeInv, TypeOK
<1>1. ASSUME NEW u \in Users, NEW s \in Sids, Login(r, u, s) PROVE TableInv'
  <2>1. Len(logins') = Len(logins) + 1
    BY <1>1 DEF Login, TypeInv, TypeOK
  <2>2. Storing'
    BY <1>1, StoringOn DEF Login, RowInv
  <2> QED
    BY <1>0, <1>1, <2>1, <2>2, TableKept DEF Login, RowInv
<1>2. CASE SubmitSave(r)
  <2>3. Storing'
    BY <1>2, StoringOn DEF SubmitSave, RowInv
  <2>1. CASE queue' = queue
    BY <1>0, <1>2, <2>1, <2>3, TableKept DEF SubmitSave, RowInv
  <2>2. CASE queue' = Append(queue, Task("save", req[r].login, req[r].sid))
    <3>1. UNCHANGED <<live, created, excused, rows, stored, worker, logins>>
      BY <1>2 DEF SubmitSave
    <3>2. \A s : Deleting(s)' <=> Deleting(s)
      BY <2>2, <3>1, DeletingAppended DEF Task
    <3>3. LeftoversExplained'
      BY <3>1, <3>2 DEF RowInv, TableInv, LeftoversExplained
    <3>4. \A i \in DOMAIN queue' : queue'[i].op \in {"save", "delete"}
      BY <2>2 DEF RowInv, TableInv, TypeInv, TypeOK, Task
    <3> QED
      BY <2>3, <3>1, <3>2, <3>3, <3>4 DEF RowInv, TableInv
  <2> QED
    BY <1>2, <2>1, <2>2 DEF SubmitSave
<1>3. CASE UNCHANGED <<live, logins, rows, queue, worker, created, stored, excused>>
  <2>1. Storing'
    BY <1>3, StoringOn DEF RowInv
  <2> QED
    BY <1>0, <1>3, <2>1, TableKept DEF RowInv
<1>4. ASSUME NEW s \in Sids, OpenSession(r, s) PROVE TableInv'
  <2>1. Storing'
    BY <1>4, StoringOn DEF OpenSession, RowInv
  <2>2. (live' \ live) \cap created = {}
    BY <1>4 DEF OpenSession
  <2> QED
    BY <1>0, <1>4, <2>1, <2>2, TableKept DEF OpenSession, RowInv
<1>9. CASE StoreRow(r)
  <2>1. UNCHANGED <<live, created, queue, worker, excused, logins>>
    BY <1>9 DEF StoreRow
  <2>2. Storing'
    BY <1>9, <2>1, StoringOn DEF RowInv
  <2>3. PICK y : y = Row(req[r].login, req[r].sid, r)
    OBVIOUS
  <2>4. y.login = req[r].login /\ y.sid = req[r].sid
    BY <2>3 DEF Row
  <2>5. rows' = rows \cup {y} /\ stored' = stored \cup rows'
    BY <1>9, <2>3 DEF StoreRow
  <2>6. y.sid \in live \cup excused /\ y.sid \in created /\ y.login <= Len(logins)
    BY <1>9, <2>4 DEF StoreRow, At, RowInv, TableInv, Storing, TypeInv, TypeOK, Numbered
  <2>7. \A t : Deleting(t)' <=> Deleting(t)
    BY <2>1 DEF Deleting
  <2>8. LeftoversExplained'
    BY <2>1, <2>5, <2>6, <2>7 DEF RowInv, TableInv, LeftoversExplained
  <2> QED
    BY <2>1, <2>2, <2>5, <2>6, <2>7, <2>8 DEF RowInv, TableInv
<1>10. End(r) => \A q \in Requests : req'[q] = req[q] \/ req'[q] = IdleRequest
  BY DEF End, TypeInv, TypeOK
<1>5. CASE Invalidate(r)
  BY <1>5, <1>10, DestroyTable DEF Invalidate
<1>6. CASE Logout(r)
  <2>1. CASE req[r].sid \in live
    BY <1>6, <1>10, <2>1, DestroyTable DEF Logout
  <2>2. CASE req[r].sid \notin live
    BY <1>3, <1>6, <2>2 DEF Logout
  <2> QED
    BY <2>1, <2>2
<1>7. CASE Commit(r)
  <2>1. UNCHANGED <<live, queue, worker, created, stored, excused, logins>> /\ rows' \subseteq rows
    BY <1>7 DEF Commit
  <2>2. \A t : Deleting(t)' <=> Deleting(t)
    BY <2>1 DEF Deleting
  <2>3. LeftoversExplained'
    BY <2>1, <2>2 DEF RowInv, TableInv, LeftoversExplained
  <2>4. Storing'
    BY <2>1, StoringOn DEF RowInv
  <2> QED
    BY <2>1, <2>2, <2>3, <2>4 DEF RowInv, TableInv
<1>8. CASE \/ Reply(r) \/ (\E s \in Sids : LoadContext(r, s)) \/ Admit(r) \/ Leave(r)
           \/ (\E u \in Users : CompletePasswordReset(r, u)) \/ ChangePassword(r)
           \/ SeekRow(r, "opened", "read") \/ ReadAttributes(r) \/ SeekRow(r, "find", "insert")
           \/ RestoreFails(r)
  <2>1. UNCHANGED <<live, logins, rows, queue, worker, created, stored, excused>>
    BY <1>8 DEF Reply, LoadContext, Admit, Leave, CompletePasswordReset, ChangePassword, LogoutEverywhere,
                SeekRow, ReadAttributes, RestoreFails
  <2> QED
    BY <1>3, <2>1
<1> QED
  BY <1>1, <1>2, <1>4, <1>5, <1>6, <1>7, <1>8, <1>9 DEF Serve, Restore

LEMMA NextRow == TypeInv /\ TypeInv' /\ RowInv /\ [Next]_vars => RowInv'
<1> SUFFICES ASSUME TypeInv, TypeInv', RowInv, [Next]_vars PROVE TableInv'
  BY UnusedKept, SettingsAssumption DEF RowInv, vars
<1> USE DEF history
<1>0. Len(logins) \in Nat
  BY DEF TypeInv, TypeOK
<1>1. ASSUME NEW s \in Sids, FailedLogin(s) PROVE TableInv'
  <2>1. Storing'
    BY <1>1 DEF FailedLogin, RowInv, TableInv, Storing
  <2> QED
    BY <1>0, <1>1, <2>1, TableKept DEF FailedLogin, RowInv
<1>2. ASSUME NEW s \in Sids, Expire(s) PROVE TableInv'
  BY <1>2, DestroyTable DEF Expire
<1>3. CASE Crash
  <2>1. /\ queue' = <<>> /\ \A w \in Workers : worker'[w] = NoTask
        /\ excused' = excused \cup created
        /\ UNCHANGED <<rows, created, stored, logins>>
        /\ live' \subseteq live
    BY <1>3 DEF Crash
  <2>2. \A s : ~Deleting(s)'
    BY <2>1 DEF Deleting, NoTask, Task
  <2>3. LeftoversExplained'
    BY <2>1 DEF RowInv, TableInv, LeftoversExplained
  <2>4. Storing'
    BY <1>3 DEF Crash, Storing, IdleRequest, Request
  <2> QED
    BY <2>1, <2>2, <2>3, <2>4 DEF RowInv, TableInv, NoTask, Task
<1>4. CASE UNCHANGED vars
  <2>1. Storing'
    BY <1>4 DEF vars, RowInv, TableInv, Storing
  <2> QED
    BY <1>0, <1>4, <2>1, TableKept DEF vars, RowInv
<1> QED
  BY <1>1, <1>2, <1>3, <1>4, ServeTable, ExecutorTable DEF Next

LEMMA InitRow == Init => RowInv
BY DEF Init, RowInv, TableInv, Storing, Unused, LeftoversExplained, Deleting, NoTask, Task, At, IdleRequest,
       Request, RestoreSteps

(* For any number of sessions, logins, threads, requests that restore      *)
(* sessions and crashes, a row outlives its session only until its         *)
(* deletion, or because the session ended while being stored, or in a      *)
(* crash.                                                                  *)
THEOREM LeftoversStayExplained == Spec => []LeftoversExplained
<1>1. Init => TypeInv /\ RowInv
  BY InitTypes, InitRow
<1>2. TypeInv /\ RowInv /\ [Next]_vars => (TypeInv /\ RowInv)'
  BY NextTypes, NextRow
<1>3. RowInv => LeftoversExplained
  BY DEF RowInv, TableInv
<1> QED
  BY <1>1, <1>2, <1>3, PTL DEF Spec

-----------------------------------------------------------------------------
(* Whose rows are deleted by whom: what a request is about to delete are   *)
(* rows of its user, and not of its own session.  The rows of a session    *)
(* there is go in no other way.                                            *)
CondemnedOwned(q) ==
    q.pc = "commit" => \A x \in q.condemned : x \in stored /\ Owner(x) = q.user /\ x.sid # q.sid
Requester(q) == CondemnedOwned(q) /\ (q.pc = "idle" => q.sid = NoSid)

WasStored(s) == \E x \in stored : x.sid = s
Cleared(s) == \E x \in stored : x.sid = s /\ <<Owner(x), s>> \in cleared
OwnerInv ==
    /\ \A r \in Requests : Requester(req[r])
    /\ \A s \in live : WasStored(s) /\ Copies(s) = {} => Cleared(s)

(* Who owns a row that has been stored never changes.                      *)
Extended ==
    /\ stored \subseteq stored' /\ cleared \subseteq cleared'
    /\ \A n \in 1 .. Len(logins) : logins'[n] = logins[n]

LEMMA OwnersStay ==
    ASSUME TypeInv, TableInv, Extended
    PROVE  /\ \A x \in stored : Owner(x)' = Owner(x)
           /\ \A s : Cleared(s) => Cleared(s)'
<1>1. \A x \in stored : x.login \in 1 .. Len(logins)
  BY BoundsAssumption DEF TypeInv, TypeOK, TableInv, Rows
<1>2. \A x \in stored : logins'[x.login] = logins[x.login]
  BY <1>1 DEF Extended
<1> QED
  BY <1>2 DEF Owner, Cleared, Extended

LEMMA StepExtends == TypeInv /\ [Next]_vars => Extended
<1> SUFFICES ASSUME TypeInv, [Next]_vars PROVE Extended
  OBVIOUS
<1> USE DEF Extended, history
<1>1. ASSUME NEW r \in Requests, NEW u \in Users, NEW s \in Sids, Login(r, u, s) PROVE Extended
  BY <1>1 DEF Login, TypeInv, TypeOK
<1>2. CASE UNCHANGED logins /\ stored \subseteq stored' /\ cleared \subseteq cleared'
  BY <1>2
<1>3. ASSUME NEW r \in Requests, Serve(r), ~\E u \in Users, s \in Sids : Login(r, u, s)
      PROVE  UNCHANGED logins /\ stored \subseteq stored' /\ cleared \subseteq cleared'
  BY <1>3 DEF Serve, SubmitSave, Reply, LoadContext, Restore, OpenSession, SeekRow, ReadAttributes,
              StoreRow, RestoreFails, Admit, Invalidate, Leave, Logout,
              CompletePasswordReset, ChangePassword, LogoutEverywhere, Commit
<1>4. ASSUME NEW w \in Workers, Execute(w)
      PROVE  UNCHANGED logins /\ stored \subseteq stored' /\ cleared \subseteq cleared'
  BY <1>4 DEF Execute, Start, ReadSession, FindRow, InsertRow, MergeFails, DropException, UpdateRow,
              DeleteRows
<1>5. ASSUME NEW s \in Sids, FailedLogin(s) \/ Expire(s)
      PROVE  UNCHANGED logins /\ stored \subseteq stored' /\ cleared \subseteq cleared'
  BY <1>5 DEF FailedLogin, Expire
<1>6. CASE Crash \/ UNCHANGED vars
  BY <1>6 DEF Crash, vars
<1> QED
  BY <1>1, <1>2, <1>3, <1>4, <1>5, <1>6 DEF Next

(* A session that keeps its rows, or gets them, needs no excuse.           *)
LEMMA LiveKept ==
    ASSUME TypeInv, TableInv, OwnerInv, Extended, NEW s \in live',
           \/ Copies(s)' # {}
           \/ ~WasStored(s)'
           \/ s \in live /\ Copies(s) = {} /\ WasStored(s)
           \/ Cleared(s)'
    PROVE  WasStored(s)' /\ Copies(s)' = {} => Cleared(s)'
BY OwnersStay DEF OwnerInv

LEMMA NothingStored ==
    ASSUME TypeInv, TableInv, OwnerInv, Extended, live' \cap created \subseteq live,
           UNCHANGED <<rows, stored>>,
           NEW s \in live'
    PROVE  WasStored(s)' /\ Copies(s)' = {} => Cleared(s)'
<1>1. Copies(s)' = Copies(s) /\ (WasStored(s)' <=> WasStored(s))
  BY DEF Copies, WasStored
<1>2. WasStored(s) => s \in live
  BY DEF WasStored, TableInv
<1> QED
  BY <1>1, <1>2, LiveKept

LEMMA RequesterKept ==
    ASSUME TypeInv, TableInv, OwnerInv, Extended, NEW r \in Requests,
           \/ req'[r] = req[r] \/ req'[r] = IdleRequest
           \/ req'[r].pc \notin {"idle", "commit"}
    PROVE  Requester(req[r])'
<1>1. CASE req'[r] = req[r]
  BY <1>1, OwnersStay DEF OwnerInv, Requester, CondemnedOwned, Extended
<1>2. CASE req'[r] = IdleRequest
  BY <1>2 DEF IdleRequest, Request, Requester, CondemnedOwned
<1>3. CASE req'[r].pc \notin {"idle", "commit"}
  BY <1>3 DEF Requester, CondemnedOwned
<1> QED
  BY <1>1, <1>2, <1>3

LEMMA LogoutRequester ==
    ASSUME TypeInv, TableInv, OwnerInv, Extended, NEW r \in Requests, NEW u,
           LogoutEverywhere(r, u, req[r].sid)
    PROVE  Requester(req[r])'
<1>1. /\ req'[r].pc = "commit" /\ req'[r].user = u /\ req'[r].sid = req[r].sid
      /\ req'[r].condemned = Condemned(u, req[r].sid)
  BY DEF LogoutEverywhere, TypeInv, TypeOK, RequestStates
<1>2. \A x \in Condemned(u, req[r].sid) : x \in stored /\ Owner(x) = u /\ x.sid # req[r].sid
  BY DEF Condemned, TableInv
<1> QED
  BY <1>1, <1>2, OwnersStay DEF Requester, CondemnedOwned, Extended

LEMMA ServeRequesters ==
    ASSUME TypeInv, TableInv, OwnerInv, Extended, NEW r \in Requests, Serve(r), NEW q \in Requests
    PROVE  Requester(req[q])'
<1> USE DEF history
<1>1. ASSUME NEW x, req' = [req EXCEPT ![r] = x], x = IdleRequest \/ x.pc \notin {"idle", "commit"}
      PROVE  Requester(req[q])'
  <2>1. req'[q] = IF q = r THEN x ELSE req[q]
    BY <1>1 DEF TypeInv, TypeOK
  <2> QED
    BY <1>1, <2>1, RequesterKept
<1>2. ASSUME NEW pc, pc \notin {"idle", "commit"}, req' = [req EXCEPT ![r].pc = pc]
      PROVE  Requester(req[q])'
  <2>1. (q = r => req'[q].pc = pc) /\ (q # r => req'[q] = req[q])
    BY <1>2 DEF TypeInv, TypeOK, RequestStates
  <2> QED
    BY <1>2, <2>1, RequesterKept
<1>3. ASSUME NEW u, LogoutEverywhere(r, u, req[r].sid) PROVE Requester(req[q])'
  <2>1. q # r => req'[q] = req[q]
    BY <1>3 DEF LogoutEverywhere, TypeInv, TypeOK
  <2> QED
    BY <1>3, <2>1, LogoutRequester, RequesterKept
<1>4. ASSUME NEW u \in Users, NEW s \in Sids, Login(r, u, s) PROVE Requester(req[q])'
  BY <1>1, <1>4 DEF Login, Request
<1>5. CASE SubmitSave(r) \/ Admit(r)
  <2>1. req' = [req EXCEPT ![r].pc = "reply"] \/ req' = [req EXCEPT ![r].pc = "inside"]
    BY <1>5 DEF SubmitSave, Admit, Go
  <2>2. "reply" \notin {"idle", "commit"} /\ "inside" \notin {"idle", "commit"}
    OBVIOUS
  <2> QED
    BY <1>2, <2>1, <2>2
<1>6. CASE Reply(r) \/ Invalidate(r) \/ Leave(r) \/ Logout(r) \/ Commit(r)
  BY <1>1, <1>6 DEF Reply, Invalidate, Leave, Logout, Commit, End
<1>7. ASSUME NEW s \in Sids, LoadContext(r, s) PROVE Requester(req[q])'
  BY <1>1, <1>7 DEF LoadContext, Request
<1>8. CASE Restore(r) \/ RestoreFails(r)
  <2>1. CASE \E s \in Sids : OpenSession(r, s)
    BY <1>1, <2>1 DEF OpenSession, Request
  <2>2. CASE \/ SeekRow(r, "opened", "read") \/ ReadAttributes(r) \/ SeekRow(r, "find", "insert")
             \/ StoreRow(r)
    <3>1. \E pc : pc \notin {"idle", "commit"} /\ req' = [req EXCEPT ![r].pc = pc]
      <4>1. \E pc \in {"read", "loaded", "find", "insert"} : Go(r, pc)
        BY <2>2 DEF SeekRow, ReadAttributes, StoreRow
      <4> QED
        BY <4>1 DEF Go
    <3> QED
      BY <1>2, <3>1
  <2>3. CASE RestoreFails(r)
    BY <1>1, <2>3 DEF RestoreFails, End
  <2> QED
    BY <1>8, <2>1, <2>2, <2>3 DEF Restore
<1>9. ASSUME NEW u \in Users, CompletePasswordReset(r, u) PROVE Requester(req[q])'
  BY <1>3, <1>9 DEF CompletePasswordReset, At, OwnerInv, Requester
<1>10. CASE ChangePassword(r)
  BY <1>3, <1>10 DEF ChangePassword
<1> QED
  BY <1>4, <1>5, <1>6, <1>7, <1>8, <1>9, <1>10 DEF Serve

(* What a commit deletes of a session there is, it deletes for its user.   *)
LEMMA CommitLive ==
    ASSUME TypeInv, TableInv, OwnerInv, Extended, NEW r \in Requests, Commit(r), NEW s \in live'
    PROVE  WasStored(s)' /\ Copies(s)' = {} => Cleared(s)'
<1>1. /\ rows' = rows \ req[r].condemned /\ UNCHANGED <<live, stored, logins>>
      /\ cleared' = cleared \cup
            {<<req[r].user, x.sid>> : x \in {y \in rows \cap req[r].condemned : y.sid # req[r].sid}}
      /\ CondemnedOwned(req[r]) /\ req[r].pc = "commit"
  BY DEF Commit, At, OwnerInv, Requester
<1>2. CASE \E x \in Copies(s) : x \in req[r].condemned
  <2>1. PICK x \in rows : x.sid = s /\ x \in req[r].condemned
    BY <1>2 DEF Copies
  <2>2. x \in stored /\ Owner(x) = req[r].user /\ x.sid # req[r].sid
    BY <1>1, <2>1 DEF CondemnedOwned
  <2>3. <<Owner(x), s>> \in cleared'
    BY <1>1, <2>1, <2>2
  <2> QED
    BY <1>1, <2>1, <2>2, <2>3 DEF Cleared, Owner
<1>3. CASE \A x \in Copies(s) : x \notin req[r].condemned
  <2>1. Copies(s)' = Copies(s) /\ (WasStored(s)' <=> WasStored(s))
    BY <1>1, <1>3 DEF Copies, WasStored
  <2> QED
    BY <1>1, <2>1, LiveKept
<1> QED
  BY <1>2, <1>3

(* A row that is stored needs no excuse for its session, and concerns no   *)
(* other one.                                                              *)
LEMMA StoredLive ==
    ASSUME TypeInv, TableInv, OwnerInv, Extended, NEW y, rows' = rows \cup {y}, stored' = stored \cup rows',
           live' = live, NEW s \in live'
    PROVE  WasStored(s)' /\ Copies(s)' = {} => Cleared(s)'
<1>1. CASE s = y.sid
  <2>1. y \in Copies(s)'
    BY <1>1 DEF Copies
  <2> QED
    BY <2>1
<1>2. CASE s # y.sid
  <2>1. Copies(s)' = Copies(s)
    BY <1>2 DEF Copies
  <2>2. WasStored(s)' => WasStored(s)
    BY <1>2 DEF WasStored, TableInv
  <2> QED
    BY <2>1, <2>2, LiveKept
<1> QED
  BY <1>1, <1>2

LEMMA ExecutorLive ==
    ASSUME TypeInv, TableInv, OwnerInv, Extended, NEW w \in Workers, Execute(w), NEW s \in live'
    PROVE  WasStored(s)' /\ Copies(s)' = {} => Cleared(s)'
<1>0. live' = live /\ s \in Sids
  BY DEF Execute, Start, ReadSession, FindRow, InsertRow, MergeFails, DropException, UpdateRow, DeleteRows,
         TypeInv, TypeOK
<1>1. CASE Start(w) \/ ReadSession(w) \/ FindRow(w) \/ MergeFails(w) \/ DropException(w) \/ UpdateRow(w)
  <2>1. UNCHANGED <<rows, stored>>
    BY <1>1 DEF Start, ReadSession, FindRow, MergeFails, DropException, UpdateRow, Updated, history
  <2> QED
    BY <1>0, <2>1, NothingStored
<1>2. CASE InsertRow(w)
  BY <1>0, <1>2, StoredLive DEF InsertRow
<1>3. CASE DeleteRows(w)
  <2>1. worker[w].op = "delete" /\ rows' = rows \ Copies(worker[w].sid) /\ UNCHANGED stored
    BY <1>3 DEF DeleteRows, Doing, Deleted, history
  <2>2. worker[w] = Task("delete", 0, worker[w].sid) /\ worker[w].sid \in Sids
    <3>1. worker[w] \in [op : {"delete"}, login : {0}, sid : Sids]
      BY <2>1 DEF TypeInv, TypeOK, Tasks, NoTask, Task
    <3> QED
      BY <3>1 DEF Task
  <2>3. s # worker[w].sid
    BY <1>0, <2>2 DEF TableInv, Deleting
  <2>4. Copies(s)' = Copies(s) /\ (WasStored(s)' <=> WasStored(s))
    BY <2>1, <2>3 DEF Copies, WasStored
  <2> QED
    BY <1>0, <2>4, LiveKept
<1> QED
  BY <1>1, <1>2, <1>3 DEF Execute

LEMMA NextOwner ==
    TypeInv /\ TypeInv' /\ RowInv /\ OwnerInv /\ [Next]_vars => OwnerInv'
<1> SUFFICES ASSUME TypeInv, TypeInv', RowInv, OwnerInv, [Next]_vars PROVE OwnerInv'
  OBVIOUS
<1> USE DEF history
<1>0. TableInv /\ Extended
  BY StepExtends DEF RowInv
<1>1. ASSUME NEW q \in Requests PROVE Requester(req[q])'
  <2>1. CASE \E r \in Requests : Serve(r)
    BY <1>0, <2>1, ServeRequesters
  <2>2. CASE \/ \E w \in Workers : Execute(w)
             \/ \E s \in Sids : FailedLogin(s) \/ Expire(s)
             \/ UNCHANGED vars
    <3>1. req' = req
      BY <2>2 DEF Execute, Start, ReadSession, FindRow, InsertRow, MergeFails, DropException, UpdateRow,
                  DeleteRows, FailedLogin, Expire, vars
    <3> QED
      BY <1>0, <3>1, RequesterKept
  <2>3. CASE Crash
    BY <1>0, <2>3, RequesterKept DEF Crash
  <2> QED
    BY <2>1, <2>2, <2>3 DEF Next
<1>2. ASSUME NEW s \in live' PROVE WasStored(s)' /\ Copies(s)' = {} => Cleared(s)'
  <2>1. ASSUME NEW r \in Requests, Serve(r) PROVE WasStored(s)' /\ Copies(s)' = {} => Cleared(s)'
    <3>1. CASE Commit(r)
      BY <1>0, <3>1, CommitLive
    <3>2. CASE StoreRow(r)
      BY <1>0, <3>2, StoredLive DEF StoreRow
    <3>3. CASE (\E u \in Users, t \in Sids : Login(r, u, t)) \/ \E t \in Sids : OpenSession(r, t)
      <4>1. live' \cap created \subseteq live /\ UNCHANGED <<rows, stored>>
        BY <3>3 DEF Login, OpenSession
      <4> QED
        BY <1>0, <4>1, NothingStored
    <3>4. CASE \/ SubmitSave(r) \/ Reply(r) \/ (\E t \in Sids : LoadContext(r, t)) \/ Admit(r)
               \/ Invalidate(r) \/ Leave(r) \/ Logout(r)
               \/ (\E u \in Users : CompletePasswordReset(r, u)) \/ ChangePassword(r)
               \/ SeekRow(r, "opened", "read") \/ ReadAttributes(r) \/ SeekRow(r, "find", "insert")
               \/ RestoreFails(r)
      <4>1. live' \subseteq live /\ UNCHANGED <<rows, stored>>
        BY <3>4 DEF SubmitSave, Reply, LoadContext, Admit, Invalidate, Destroy, Leave, Logout,
                    CompletePasswordReset, ChangePassword, LogoutEverywhere, SeekRow, ReadAttributes,
                    RestoreFails
      <4> QED
        BY <1>0, <4>1, NothingStored
    <3> QED
      BY <2>1, <3>1, <3>2, <3>3, <3>4 DEF Serve, Restore
  <2>2. ASSUME NEW w \in Workers, Execute(w) PROVE WasStored(s)' /\ Copies(s)' = {} => Cleared(s)'
    BY <1>0, <2>2, ExecutorLive
  <2>3. CASE (\E t \in Sids : FailedLogin(t) \/ Expire(t)) \/ Crash \/ UNCHANGED vars
    <3>1. live' \cap created \subseteq live /\ UNCHANGED <<rows, stored>>
      BY <2>3 DEF FailedLogin, Expire, Destroy, Crash, vars
    <3> QED
      BY <1>0, <3>1, NothingStored
  <2> QED
    BY <2>1, <2>2, <2>3 DEF Next
<1> QED
  BY <1>1, <1>2 DEF OwnerInv

LEMMA InitOwner == Init => OwnerInv
BY DEF Init, OwnerInv, Requester, CondemnedOwned, IdleRequest, Request, At

(* A request whose session ends before it is let in has met no row of it.  *)
LEMMA TurnedAway ==
    ASSUME TypeInv, RowInv, OwnerInv, [Next]_vars, NEW r \in Requests,
           At(r, "loaded"), Moves(r), crashes' = crashes, req[r].sid \in live \ live',
           \E x \in stored : x.sid = req[r].sid
    PROVE  \E x \in stored : x.sid = req[r].sid /\ <<Owner(x), x.sid>> \in cleared
<1> USE DEF history
<1>1. Invalidate(r)
  <2>1. ASSUME NEW q \in Requests \ {r}, Serve(q) PROVE FALSE
    <3>1. req'[r] = req[r]
      BY <2>1 DEF Serve, Login, SubmitSave, Reply, LoadContext, Restore, OpenSession, SeekRow,
                  ReadAttributes, StoreRow, RestoreFails, Admit, Invalidate, Leave, Logout,
                  CompletePasswordReset, ChangePassword, LogoutEverywhere, Commit, Go, End, TypeInv, TypeOK
    <3> QED
      BY <3>1 DEF Moves
  <2>2. ~\/ \E w \in Workers : Execute(w)
         \/ \E s \in Sids : FailedLogin(s) \/ Expire(s)
         \/ UNCHANGED vars
    BY DEF Execute, Start, ReadSession, FindRow, InsertRow, MergeFails, DropException, UpdateRow,
           DeleteRows, FailedLogin, Expire, vars, Moves
  <2>3. ~Crash
    BY DEF Crash, TypeInv, TypeOK
  <2>4. Serve(r)
    BY <2>1, <2>2, <2>3 DEF Next
  <2>5. ~Leave(r) /\ ~Admit(r)
    BY DEF Leave, Admit
  <2> QED
    BY <2>4, <2>5 DEF Serve, At, Login, SubmitSave, Reply, LoadContext, Restore, OpenSession, SeekRow,
                      ReadAttributes, StoreRow, RestoreFails, RestoreSteps, Logout,
                      CompletePasswordReset, ChangePassword, Commit
<1>2. Copies(req[r].sid) = {}
  BY <1>1 DEF Invalidate
<1> QED
  BY <1>2 DEF OwnerInv, WasStored, Cleared

(* Whoever is turned away with a session that had been stored has reset or *)
(* changed the password elsewhere: no other user, no thread of the         *)
(* executor and no restored session is the cause.                          *)
THEOREM OnlyOwnersEnd == Spec => OnlyOwnersEndSessions
<1>1. Init => TypeInv /\ RowInv /\ OwnerInv
  BY InitTypes, InitRow, InitOwner
<1>2. TypeInv /\ RowInv /\ OwnerInv /\ [Next]_vars => (TypeInv /\ RowInv /\ OwnerInv)'
  BY NextTypes, NextRow, NextOwner
<1>3. TypeInv /\ RowInv /\ OwnerInv /\ [Next]_vars =>
        [\A r \in Requests :
           /\ At(r, "loaded") /\ Moves(r) /\ crashes' = crashes
           /\ req[r].sid \in live \ live'
           /\ \E x \in stored : x.sid = req[r].sid
           => \E x \in stored : x.sid = req[r].sid /\ <<Owner(x), x.sid>> \in cleared]_vars
  BY TurnedAway
<1> QED
  BY <1>1, <1>2, <1>3, PTL DEF Spec, OnlyOwnersEndSessions
==============================================================================
