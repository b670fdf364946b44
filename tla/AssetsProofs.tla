---------------------------- MODULE AssetsProofs ----------------------------
(***************************************************************************)
(* What Assets keeps, for any number of images, requests, pool threads,    *)
(* failures and restarts.                                                  *)
(***************************************************************************)
EXTENDS Assets, TLAPS

UploadPcs == {"read", "commit", "enqueue"}
DeletePcs == {"merge", "eraseStd", "eraseThumb"}
WorkSteps == {"std", "thumb", "complete", "prevStd", "prevThumb"}

RequestType ==
    [pc : {"idle"} \cup UploadPcs \cup DeletePcs, place : Places \cup {NoPlace}, guid : MaybeGuid,
     snap : [Places -> MaybeGuid], seen : [Guids -> RowStates]]
WorkerType == [step : {"idle"} \cup WorkSteps, guid : MaybeGuid]

(* What a request on its way and a thread at work hold.                    *)
Held(q) ==
    /\ q.pc = "idle" <=> q.guid = NoGuid
    /\ q.pc # "idle" => q.place \in Places
    /\ q.pc \in DeletePcs => q.place \in UserFields /\ q.guid = q.snap[q.place]
Works(k) == k.step = "idle" <=> k.guid = NoGuid

DataTyped ==
    /\ refs \in [Places -> MaybeGuid]
    /\ asset \in [Guids -> RowStates]
    /\ imported \subseteq Guids /\ dropped \subseteq Guids /\ revived \subseteq Guids
    /\ store \subseteq Guids \X Parts
    /\ temp \subseteq Guids
    /\ prevOf \in [Guids -> MaybeGuid]
    /\ queue \in Seq(Guids)
    /\ target \in [Guids -> Places \cup {NoPlace}]
    /\ failures \in 0 .. MaxFailures /\ restarts \in 0 .. MaxRestarts

WorkersTyped == worker \in [Workers -> WorkerType] /\ \A w \in Workers : Works(worker[w])

RequestsTyped ==
    /\ req \in [Requests -> RequestType] /\ \A r \in Requests : Held(req[r])
    /\ \A r \in Requests : req[r].pc \in UploadPcs => target[req[r].guid] = req[r].place

Typed == DataTyped /\ WorkersTyped /\ RequestsTyped

------------------------------------------------------------------------------
(* Types.                                                                  *)

LEMMA TypedEnough == Typed => TypeOK
<1> SUFFICES ASSUME Typed PROVE TypeOK
  OBVIOUS
<1>1. {"idle"} \cup WorkSteps = {"idle", "std", "thumb", "complete", "prevStd", "prevThumb"}
  BY DEF WorkSteps
<1>2. {"idle"} \cup UploadPcs \cup DeletePcs =
          {"idle", "read", "commit", "enqueue", "merge", "eraseStd", "eraseThumb"}
  BY DEF UploadPcs, DeletePcs
<1>3. /\ worker \in [Workers -> [step : {"idle"} \cup WorkSteps, guid : MaybeGuid]]
      /\ req \in [Requests -> [pc : {"idle"} \cup UploadPcs \cup DeletePcs,
                    place : Places \cup {NoPlace}, guid : MaybeGuid,
                    snap : [Places -> MaybeGuid], seen : [Guids -> RowStates]]]
  BY DEF Typed, WorkersTyped, RequestsTyped, WorkerType, RequestType
<1>4. /\ \A w \in Workers : Step(w, "idle") <=> worker[w].guid = NoGuid
      /\ \A r \in Requests : Busy(r, "idle") <=> req[r].guid = NoGuid
  BY DEF Typed, WorkersTyped, RequestsTyped, Held, Works, Step, Busy
<1> QED
  BY <1>1, <1>2, <1>3, <1>4 DEF Typed, DataTyped, TypeOK

LEMMA IdleHeld == IdleRequest \in RequestType /\ Held(IdleRequest)
BY GuidsAssumption
   DEF IdleRequest, RequestType, Held, NoRefs, NoRows, MaybeGuid, RowStates, UploadPcs, DeletePcs

LEMMA IdleWorks == IdleWorker \in WorkerType /\ Works(IdleWorker)
BY GuidsAssumption DEF IdleWorker, WorkerType, Works, MaybeGuid, WorkSteps

LEMMA InitTyped == Init => Typed
<1> SUFFICES ASSUME Init PROVE Typed
  OBVIOUS
<1>1. DataTyped
  BY BoundsAssumption DEF Init, DataTyped, NoRefs, NoRows, MaybeGuid, RowStates
<1>2. WorkersTyped
  BY IdleWorks DEF Init, WorkersTyped
<1>3. RequestsTyped
  <2>1. \A r \in Requests : req[r] = IdleRequest
    BY DEF Init
  <2>2. IdleRequest.pc \notin UploadPcs
    BY DEF IdleRequest, UploadPcs
  <2> QED
    BY <2>1, <2>2, IdleHeld DEF Init, RequestsTyped
<1> QED
  BY <1>1, <1>2, <1>3 DEF Typed

(* The target of a request that is on its way stays.                       *)
LEMMA TargetsStay ==
    ASSUME RequestsTyped, \A g \in Guids : target[g] # NoPlace => target'[g] = target[g]
    PROVE  /\ \A s \in Requests : req[s].pc \in UploadPcs => target'[req[s].guid] = req[s].place
           /\ req' = req => RequestsTyped'
<1>1. ASSUME NEW s \in Requests, req[s].pc \in UploadPcs
      PROVE  target'[req[s].guid] = req[s].place
  <2>1. req[s] \in RequestType /\ Held(req[s])
    BY DEF RequestsTyped
  <2>2. req[s].guid \in Guids /\ req[s].place \in Places /\ target[req[s].guid] = req[s].place
    BY <1>1, <2>1 DEF RequestsTyped, RequestType, Held, UploadPcs, MaybeGuid
  <2> QED
    BY <2>2, PlacesAssumption DEF Places
<1> QED
  BY <1>1 DEF RequestsTyped

(* A request gets a new record, and targets that are set stay.             *)
LEMMA RequestSet ==
    ASSUME RequestsTyped, NEW r \in Requests, NEW q \in RequestType, Held(q),
           req' = [req EXCEPT ![r] = q],
           q.pc \in UploadPcs => target'[q.guid] = q.place,
           \A g \in Guids : target[g] # NoPlace => target'[g] = target[g]
    PROVE  RequestsTyped'
<1>1. /\ req' \in [Requests -> RequestType]
      /\ req'[r] = q
      /\ \A s \in Requests \ {r} : req'[s] = req[s]
  BY DEF RequestsTyped
<1>2. ASSUME NEW s \in Requests, req'[s].pc \in UploadPcs PROVE target'[req'[s].guid] = req'[s].place
  BY <1>1, <1>2, TargetsStay
<1> QED
  BY <1>1, <1>2 DEF RequestsTyped

LEMMA SnapTyped ==
    ASSUME DataTyped, NEW p \in Places
    PROVE  /\ Snap(p) \in [Places -> MaybeGuid] /\ Seen(p) \in [Guids -> RowStates]
           /\ Snap(p)[p] = refs[p]
BY DEF DataTyped, Snap, Seen, RowOf, MaybeGuid, RowStates, Places

(* A request that begins or goes on.                                       *)
LEMMA BeginTyped == ASSUME Typed, NEW r \in Requests, Begin(r) PROVE Typed'
<1>1. ASSUME NEW g \in Guids, NEW p \in Places, Upload(r, p, g) PROVE Typed'
  <2> DEFINE q == [IdleRequest EXCEPT !.pc = "read", !.place = p, !.guid = g]
  <2>1. q \in RequestType /\ Held(q) /\ q.pc = "read" /\ q.place = p /\ q.guid = g
    BY IdleHeld, GuidsAssumption DEF IdleRequest, RequestType, Held, MaybeGuid, UploadPcs, DeletePcs
  <2> HIDE DEF q
  <2>2. req' = [req EXCEPT ![r] = q] /\ target' = [target EXCEPT ![g] = p] /\ target[g] = NoPlace
    BY <1>1 DEF Upload, q
  <2>3. target'[g] = p /\ \A h \in Guids : target[h] # NoPlace => target'[h] = target[h]
    BY <2>2 DEF Typed, DataTyped
  <2>4. RequestsTyped'
    BY <2>1, <2>2, <2>3, RequestSet DEF Typed
  <2> QED
    BY <1>1, <2>4 DEF Upload, Typed, DataTyped, WorkersTyped, db, bounds
<1>2. ASSUME NEW g \in Guids, NEW p \in Streamables, Import(r, p, g) PROVE Typed'
  <2>1. DataTyped'
    BY <1>2 DEF Import, Typed, DataTyped, Places, MaybeGuid, RowStates, bounds
  <2>2. \A h \in Guids : target[h] # NoPlace => target'[h] = target[h]
    BY <1>2 DEF Import, Typed, DataTyped
  <2>3. RequestsTyped'
    BY <1>2, <2>2, TargetsStay DEF Import, Typed
  <2> QED
    BY <1>2, <2>1, <2>3 DEF Import, Typed, WorkersTyped
<1>3. ASSUME NEW p \in UserFields, LoadUser(r, p) PROVE Typed'
  <2> DEFINE q == [pc |-> "merge", place |-> p, guid |-> refs[p], snap |-> Snap(p), seen |-> Seen(p)]
  <2>1. q \in RequestType /\ Held(q) /\ q.pc \notin UploadPcs
    BY <1>3, SnapTyped DEF LoadUser, Typed, DataTyped, RequestType, Held, UploadPcs, DeletePcs, Places
  <2> HIDE DEF q
  <2>2. req' = [req EXCEPT ![r] = q] /\ target' = target
    BY <1>3 DEF LoadUser, q, history
  <2>3. RequestsTyped'
    BY <2>1, <2>2, RequestSet DEF Typed
  <2> QED
    BY <1>3, <2>3 DEF LoadUser, Typed, DataTyped, WorkersTyped, db, history, bounds
<1> QED
  BY <1>1, <1>2, <1>3 DEF Begin

(* What is known of the record of a request.                               *)
LEMMA RequestKnown ==
    ASSUME RequestsTyped, NEW r \in Requests
    PROVE  /\ req[r] \in RequestType /\ Held(req[r])
           /\ ~Busy(r, "idle") => req[r].guid \in Guids /\ req[r].place \in Places
           /\ req[r].pc \in UploadPcs => target[req[r].guid] = req[r].place
           /\ req[r].pc \in DeletePcs => req[r].place \in UserFields /\ req[r].guid = req[r].snap[req[r].place]
           /\ req[r].snap \in [Places -> MaybeGuid] /\ req[r].seen \in [Guids -> RowStates]
BY DEF RequestsTyped, Held, RequestType, Busy, MaybeGuid

LEMMA EndedTyped ==
    ASSUME RequestsTyped, NEW r \in Requests, req' = Idle(r), target' = target
    PROVE  RequestsTyped'
<1>1. IdleRequest.pc \notin UploadPcs
  BY DEF IdleRequest, UploadPcs
<1> QED
  BY <1>1, IdleHeld, RequestSet DEF Idle

LEMMA MovedTyped ==
    ASSUME RequestsTyped, NEW r \in Requests, NEW pc, target' = target,
           req' = [req EXCEPT ![r].pc = pc],
           \/ req[r].pc \in UploadPcs /\ pc \in UploadPcs
           \/ req[r].pc \in DeletePcs /\ pc \in DeletePcs
    PROVE  RequestsTyped'
<1> DEFINE q == [req[r] EXCEPT !.pc = pc]
<1>1. req[r] \in RequestType /\ Held(req[r])
  BY DEF RequestsTyped
<1>2. /\ q.pc = pc /\ q.place = req[r].place /\ q.guid = req[r].guid /\ q.snap = req[r].snap
      /\ q \in RequestType
  BY <1>1 DEF RequestType
<1>3. Held(q) /\ (q.pc \in UploadPcs => target[q.guid] = q.place)
  BY <1>1, <1>2 DEF Held, RequestsTyped, UploadPcs, DeletePcs
<1>4. req' = [req EXCEPT ![r] = q]
  OBVIOUS
<1> HIDE DEF q
<1> QED
  BY <1>2, <1>3, <1>4, RequestSet

LEMMA ProceedTyped == ASSUME Typed, NEW r \in Requests, Proceed(r) PROVE Typed'
<1> DEFINE g == req[r].guid
           p == req[r].place
<1>1. ~Busy(r, "idle") => g \in Guids /\ p \in Places
  BY RequestKnown DEF Typed
<1>2. CASE ReadRow(r)
  <2> DEFINE q == [req[r] EXCEPT !.pc = "commit", !.snap = Snap(p), !.seen = Seen(p)]
  <2>1. Busy(r, "read") /\ g \in Guids /\ p \in Places /\ target[g] = p
    BY <1>1, <1>2, RequestKnown DEF ReadRow, Busy, UploadPcs, Typed
  <2>2. Snap(p) \in [Places -> MaybeGuid] /\ Seen(p) \in [Guids -> RowStates]
    BY <2>1, SnapTyped DEF Typed
  <2>3. req[r] \in RequestType /\ Held(req[r])
    BY RequestKnown DEF Typed
  <2>4. q \in RequestType /\ q.pc = "commit" /\ q.guid = g /\ q.place = p
    BY <2>2, <2>3 DEF RequestType, UploadPcs
  <2>5. Held(q)
    BY <2>1, <2>3, <2>4 DEF Held, Busy, UploadPcs, DeletePcs
  <2>6. req' = [req EXCEPT ![r] = q] /\ target' = target
    BY <1>2 DEF ReadRow, history
  <2> HIDE DEF q
  <2>7. RequestsTyped'
    BY <2>1, <2>4, <2>5, <2>6, RequestSet DEF Typed
  <2>8. prevOf' \in [Guids -> MaybeGuid]
    BY <1>2, <2>1 DEF ReadRow, Mapped, Typed, DataTyped
  <2> QED
    BY <1>2, <2>7, <2>8 DEF ReadRow, Typed, DataTyped, WorkersTyped, db, history, bounds
<1>3. CASE RejectEdit(r) \/ CommitFails(r) \/ MergeFails(r)
  <2>1. RequestsTyped'
    BY <1>3, EndedTyped DEF RejectEdit, CommitFails, MergeFails, Typed, history
  <2> QED
    BY <1>3, <2>1 DEF RejectEdit, CommitFails, MergeFails, Typed, DataTyped, WorkersTyped, db, history, bounds
<1>4. CASE Commit(r)
  <2>1. Busy(r, "commit") /\ g \in Guids /\ p \in Places
    BY <1>1, <1>4 DEF Commit, Busy
  <2>2. RequestsTyped'
    BY <1>4, MovedTyped DEF Commit, Busy, UploadPcs, Typed
  <2>3. req[r].snap \in [Places -> MaybeGuid]
    BY RequestKnown DEF Typed
  <2>4. refs' \in [Places -> MaybeGuid]
    BY <1>4, <2>1, <2>3 DEF Commit, WriteRow, Typed, DataTyped, MaybeGuid
  <2>5. Returned(p, req[r].snap) \subseteq Guids
    BY <2>1, <2>3 DEF Returned, RowOf, Places, MaybeGuid
  <2>6. asset' \in [Guids -> RowStates]
    BY <1>4 DEF Commit, Typed, DataTyped, RowStates
  <2>7. req[r].snap[p] \in MaybeGuid
    BY <2>1, <2>3
  <2>8. dropped' \subseteq Guids
    BY <1>4, <2>7 DEF Commit, Typed, DataTyped, MaybeGuid
  <2>9. revived' \subseteq Guids
    BY <1>4, <2>5 DEF Commit, Typed, DataTyped
  <2> QED
    BY <1>4, <2>2, <2>4, <2>6, <2>8, <2>9 DEF Commit, Typed, DataTyped, WorkersTyped, bounds
<1>5. CASE Enqueue(r)
  <2>1. Busy(r, "enqueue") /\ g \in Guids /\ p \in Places
    BY <1>1, <1>5 DEF Enqueue, Busy
  <2>2. RequestsTyped'
    BY <1>5, EndedTyped DEF Enqueue, Typed, history
  <2>3. req[r].snap[p] \in MaybeGuid
    BY <2>1, RequestKnown DEF Typed
  <2>4. prevOf' \in [Guids -> MaybeGuid] /\ queue' \in Seq(Guids)
    BY <1>5, <2>1, <2>3 DEF Enqueue, Mapped, Submitted, Typed, DataTyped
  <2> QED
    BY <1>5, <2>2, <2>4 DEF Enqueue, Typed, DataTyped, WorkersTyped, db, history, bounds
<1>6. CASE Merge(r)
  <2> DEFINE columns == [req[r].snap EXCEPT ![p] = NoGuid]
             kept == {columns[q] : q \in UserFields}
             orphans == {refs[q] : q \in UserFields} \ (kept \cup {NoGuid})
  <2>1. Busy(r, "merge") /\ g \in Guids /\ p \in UserFields
    BY <1>1, <1>6, RequestKnown DEF Merge, Busy, DeletePcs, Typed
  <2>2. RequestsTyped'
    BY <1>6, MovedTyped DEF Merge, Busy, DeletePcs, Typed
  <2>3. req[r].snap \in [Places -> MaybeGuid] /\ req[r].seen \in [Guids -> RowStates]
    BY RequestKnown DEF Typed
  <2>4. columns \in [Places -> MaybeGuid]
    BY <2>3 DEF MaybeGuid
  <2>5. orphans \subseteq Guids
    BY DEF Typed, DataTyped, Places, MaybeGuid
  <2>6. Returned(p, columns) \subseteq Guids
    BY <2>1, <2>4 DEF Returned, RowOf, Places, MaybeGuid
  <2>7. /\ refs' = WriteRow(p, columns)
        /\ asset' = [h \in Guids |-> CASE h \in orphans -> "none"
                                       [] h \in kept /\ asset[h] = "none" -> req[r].seen[h]
                                       [] OTHER -> asset[h]]
        /\ dropped' = dropped \cup {h \in orphans : h # g \/ asset[h] = "PROCESSING"}
        /\ revived' = revived \cup Returned(p, columns)
    BY <1>6 DEF Merge
  <2> HIDE DEF columns, orphans, kept
  <2>8. refs' \in [Places -> MaybeGuid]
    BY <2>4, <2>7 DEF WriteRow, Typed, DataTyped
  <2>9. asset' \in [Guids -> RowStates]
    BY <2>3, <2>7 DEF Typed, DataTyped, RowStates
  <2>10. dropped' \subseteq Guids /\ revived' \subseteq Guids
    BY <2>5, <2>6, <2>7 DEF Typed, DataTyped
  <2> QED
    BY <1>6, <2>2, <2>8, <2>9, <2>10 DEF Merge, Typed, DataTyped, WorkersTyped, bounds
<1>7. CASE EraseStd(r)
  <2>1. RequestsTyped'
    BY <1>7, MovedTyped DEF EraseStd, Busy, DeletePcs, Typed, history
  <2> QED
    BY <1>7, <2>1 DEF EraseStd, Typed, DataTyped, WorkersTyped, db, history, bounds
<1>8. CASE EraseThumb(r) \/ EraseFails(r)
  <2>1. RequestsTyped'
    BY <1>8, EndedTyped DEF EraseThumb, EraseFails, Typed, history
  <2>2. failures' \in 0 .. MaxFailures /\ store' \subseteq store
    BY <1>8, BoundsAssumption DEF EraseThumb, EraseFails, Typed, DataTyped, bounds
  <2> QED
    BY <1>8, <2>1, <2>2 DEF EraseThumb, EraseFails, Typed, DataTyped, WorkersTyped, db, history, bounds
<1> QED
  BY <1>2, <1>3, <1>4, <1>5, <1>6, <1>7, <1>8 DEF Proceed

LEMMA WorkerSet ==
    ASSUME WorkersTyped, NEW w \in Workers, NEW k, k \in WorkerType, Works(k),
           worker' = [worker EXCEPT ![w] = k]
    PROVE  /\ WorkersTyped'
           /\ worker'[w] = k
           /\ \A v \in Workers \ {w} : worker'[v] = worker[v]
BY DEF WorkersTyped

LEMMA WorkerMoves ==
    ASSUME WorkersTyped, NEW w \in Workers, ~Step(w, "idle"), NEW step \in WorkSteps,
           worker' = Moved(w, step)
    PROVE  /\ WorkersTyped'
           /\ worker'[w].step = step /\ worker'[w].guid = worker[w].guid
           /\ \A v \in Workers \ {w} : worker'[v] = worker[v]
<1> DEFINE k == [worker[w] EXCEPT !.step = step]
<1>1. worker[w] \in WorkerType /\ Works(worker[w]) /\ worker' = [worker EXCEPT ![w] = k]
  BY DEF WorkersTyped, Moved
<1>2. k \in WorkerType /\ k.step = step /\ k.guid = worker[w].guid
  BY <1>1 DEF WorkerType
<1>3. Works(k)
  BY <1>1, <1>2 DEF Works, WorkSteps, Step
<1> HIDE DEF k
<1> QED
  BY <1>1, <1>2, <1>3, WorkerSet

LEMMA WorkerEnds ==
    ASSUME WorkersTyped, NEW w \in Workers, worker' = Free(w)
    PROVE  /\ WorkersTyped'
           /\ worker'[w] = IdleWorker
           /\ \A v \in Workers \ {w} : worker'[v] = worker[v]
BY WorkerSet, IdleWorks DEF Free

LEMMA WorkerKnown ==
    ASSUME WorkersTyped, NEW w \in Workers
    PROVE  /\ worker[w] \in WorkerType /\ Works(worker[w])
           /\ ~Step(w, "idle") => worker[w].guid \in Guids
BY DEF WorkersTyped, WorkerType, Works, Step, MaybeGuid

LEMMA ProcessTyped == ASSUME Typed, NEW w \in Workers, Process(w) PROVE Typed'
<1> DEFINE g == worker[w].guid
<1>0. ~Step(w, "idle") => g \in Guids
  BY WorkerKnown DEF Typed
<1>1. req' = req /\ target' = target
  BY DEF Process, Generate, GenerateFails, UploadStd, UploadThumb, UploadFails, Complete,
         ErasePreviousStd, ErasePreviousThumb, ErasePreviousFails, history
<1>2. RequestsTyped'
  BY <1>1, TargetsStay DEF Typed
<1>3. CASE Generate(w)
  <2> DEFINE k == [step |-> "std", guid |-> Head(queue)]
  <2>1. Head(queue) \in Guids /\ Tail(queue) \in Seq(Guids)
    BY <1>3 DEF Generate, Typed, DataTyped
  <2>2. k \in WorkerType /\ Works(k)
    BY <2>1, GuidsAssumption DEF WorkerType, Works, WorkSteps, MaybeGuid
  <2>3. worker' = [worker EXCEPT ![w] = k]
    BY <1>3 DEF Generate
  <2> HIDE DEF k
  <2>4. WorkersTyped'
    BY <2>2, <2>3, WorkerSet DEF Typed
  <2> QED
    BY <1>2, <1>3, <2>1, <2>4 DEF Generate, Typed, DataTyped, db, history, bounds
<1>4. CASE GenerateFails(w)
  <2>1. failures' \in 0 .. MaxFailures /\ Tail(queue) \in Seq(Guids)
    BY <1>4, BoundsAssumption DEF GenerateFails, Typed, DataTyped
  <2> QED
    BY <1>2, <1>4, <2>1 DEF GenerateFails, Typed, DataTyped, WorkersTyped, db, history
<1>5. CASE UploadStd(w) \/ UploadThumb(w)
  <2>1. g \in Guids /\ ~Step(w, "idle")
    BY <1>0, <1>5 DEF UploadStd, UploadThumb, Step
  <2>2. WorkersTyped'
    BY <1>5, <2>1, WorkerMoves DEF UploadStd, UploadThumb, WorkSteps, Typed
  <2>3. store' \subseteq Guids \X Parts /\ temp' \subseteq Guids
    BY <1>5, <2>1 DEF UploadStd, UploadThumb, Typed, DataTyped, Parts
  <2> QED
    BY <1>2, <1>5, <2>2, <2>3 DEF UploadStd, UploadThumb, Typed, DataTyped, db, history, bounds
<1>6. CASE UploadFails(w)
  <2>1. g \in Guids
    BY <1>0, <1>6 DEF UploadFails, Step
  <2>2. store' \subseteq Guids \X Parts /\ temp' \subseteq Guids
    BY <1>6, <2>1 DEF UploadFails, Typed, DataTyped, Parts
  <2>3. failures' \in 0 .. MaxFailures /\ WorkersTyped'
    BY <1>6, WorkerEnds, BoundsAssumption DEF UploadFails, Typed, DataTyped
  <2> QED
    BY <1>2, <1>6, <2>2, <2>3 DEF UploadFails, Typed, DataTyped, db, history
<1>7. CASE Complete(w)
  <2>1. WorkersTyped'
    <3>1. CASE asset[g] = "none"
      BY <1>7, <3>1, WorkerEnds DEF Complete, Typed
    <3>2. CASE asset[g] # "none"
      BY <1>7, <3>2, WorkerMoves DEF Complete, Step, WorkSteps, Typed
    <3> QED
      BY <3>1, <3>2
  <2>2. asset' \in [Guids -> RowStates]
    BY <1>7 DEF Complete, Typed, DataTyped, RowStates
  <2> QED
    BY <1>2, <1>7, <2>1, <2>2 DEF Complete, Typed, DataTyped, history, bounds
<1>8. CASE ErasePreviousStd(w)
  <2>1. WorkersTyped'
    <3>1. CASE Previous(w) = NoGuid
      BY <1>8, <3>1, WorkerEnds DEF ErasePreviousStd, Typed
    <3>2. CASE Previous(w) # NoGuid
      BY <1>8, <3>2, WorkerMoves DEF ErasePreviousStd, Step, WorkSteps, Typed
    <3> QED
      BY <3>1, <3>2
  <2> QED
    BY <1>2, <1>8, <2>1 DEF ErasePreviousStd, Typed, DataTyped, db, history, bounds
<1>9. CASE ErasePreviousThumb(w)
  <2>1. WorkersTyped'
    BY <1>9, WorkerEnds DEF ErasePreviousThumb, Typed
  <2>2. prevOf' \in [Guids -> MaybeGuid]
    BY <1>9 DEF ErasePreviousThumb, Typed, DataTyped, MaybeGuid
  <2> QED
    BY <1>2, <1>9, <2>1, <2>2 DEF ErasePreviousThumb, Typed, DataTyped, db, history, bounds
<1>10. CASE ErasePreviousFails(w)
  <2>1. WorkersTyped' /\ failures' \in 0 .. MaxFailures
    BY <1>10, WorkerEnds, BoundsAssumption DEF ErasePreviousFails, Typed, DataTyped
  <2> QED
    BY <1>2, <1>10, <2>1 DEF ErasePreviousFails, Typed, DataTyped, db, history
<1> QED
  BY <1>3, <1>4, <1>5, <1>6, <1>7, <1>8, <1>9, <1>10 DEF Process

LEMMA RestartTyped == Typed /\ Restart => Typed'
<1> SUFFICES ASSUME Typed, Restart PROVE Typed'
  OBVIOUS
<1>1. DataTyped'
  BY BoundsAssumption DEF Restart, Typed, DataTyped, MaybeGuid, db, history
<1>2. WorkersTyped'
  BY IdleWorks DEF Restart, WorkersTyped
<1>3. RequestsTyped'
  <2>1. IdleRequest.pc \notin UploadPcs
    BY DEF IdleRequest, UploadPcs
  <2> QED
    BY <2>1, IdleHeld DEF Restart, RequestsTyped
<1> QED
  BY <1>1, <1>2, <1>3 DEF Typed

LEMMA NextTyped == Typed /\ [Next]_vars => Typed'
<1> SUFFICES ASSUME Typed, [Next]_vars PROVE Typed'
  OBVIOUS
<1>1. CASE UNCHANGED vars
  BY <1>1 DEF vars, Typed, DataTyped, WorkersTyped, RequestsTyped
<1>2. CASE Next
  BY <1>2, BeginTyped, ProceedTyped, ProcessTyped, RestartTyped DEF Next
<1> QED
  BY <1>1, <1>2

(* Types, of what requests and pool threads hold too.                      *)
THEOREM AlwaysTyped == Spec => []Typed
BY InitTyped, NextTyped, PTL DEF Spec

(* The tables, the pool and the requests hold what they may.               *)
THEOREM TypeCorrect == Spec => []TypeOK
BY AlwaysTyped, TypedEnough, PTL

------------------------------------------------------------------------------
(* Each image is in one place.                                             *)

(* An image on its way is with one request, or once in the queue, or with  *)
(* one thread, and its file is there until it has been uploaded.           *)
Uploading(r) == req[r].pc \in UploadPcs

Alone ==
    /\ \A r, s \in Requests : Uploading(r) /\ Uploading(s) /\ req[r].guid = req[s].guid => r = s
    /\ \A r \in Requests : Uploading(r) => req[r].guid \notin Queued /\ req[r].guid \in temp
    /\ \A r \in Requests, w \in Workers : Uploading(r) => worker[w].guid # req[r].guid
    /\ \A i, j \in DOMAIN queue : queue[i] = queue[j] => i = j
    /\ Queued \subseteq temp /\ \A g \in Queued : target[g] # NoPlace
    /\ \A v, w \in Workers : worker[v].guid = worker[w].guid /\ worker[v].guid # NoGuid => v = w
    /\ \A w \in Workers : worker[w].guid \notin Queued
    /\ \A w \in Workers : worker[w].guid # NoGuid => target[worker[w].guid] # NoPlace
    /\ \A w \in Workers : worker[w].step \in {"std", "thumb"} => worker[w].guid \in temp

TargetsKept == \A g \in Guids : target[g] # NoPlace => target'[g] = target[g]

LEMMA Appended ==
    ASSUME NEW g \in Guids, queue \in Seq(Guids), queue' = Append(queue, g)
    PROVE  /\ Queued' = Queued \cup {g}
           /\ g \notin Queued /\ (\A i, j \in DOMAIN queue : queue[i] = queue[j] => i = j) =>
                 \A i, j \in DOMAIN queue' : queue'[i] = queue'[j] => i = j
<1>1. /\ DOMAIN queue = 1 .. Len(queue) /\ DOMAIN queue' = 1 .. Len(queue) + 1
      /\ \A i \in 1 .. Len(queue) + 1 : queue'[i] = IF i = Len(queue) + 1 THEN g ELSE queue[i]
      /\ Len(queue) \in Nat
  OBVIOUS
<1>2. Queued' = Queued \cup {g}
  BY <1>1 DEF Queued
<1>3. ASSUME g \notin Queued, \A i, j \in DOMAIN queue : queue[i] = queue[j] => i = j,
             NEW i \in DOMAIN queue', NEW j \in DOMAIN queue', queue'[i] = queue'[j]
      PROVE  i = j
  BY <1>1, <1>3 DEF Queued
<1> QED
  BY <1>2, <1>3

LEMMA Taken ==
    ASSUME queue \in Seq(Guids), queue # <<>>, queue' = Tail(queue),
           \A i, j \in DOMAIN queue : queue[i] = queue[j] => i = j
    PROVE  /\ Queued' = Queued \ {Head(queue)} /\ Head(queue) \in Queued
           /\ \A i, j \in DOMAIN queue' : queue'[i] = queue'[j] => i = j
<1>1. /\ DOMAIN queue = 1 .. Len(queue) /\ DOMAIN queue' = 1 .. Len(queue) - 1
      /\ \A i \in 1 .. Len(queue) - 1 : queue'[i] = queue[i + 1]
      /\ Len(queue) \in Nat \ {0} /\ Head(queue) = queue[1]
  OBVIOUS
<1>2. ASSUME NEW i \in DOMAIN queue', NEW j \in DOMAIN queue', queue'[i] = queue'[j] PROVE i = j
  BY <1>1, <1>2
<1>3. ASSUME NEW i \in DOMAIN queue' PROVE queue'[i] \in Queued \ {Head(queue)}
  <2>1. i + 1 \in DOMAIN queue /\ 1 \in DOMAIN queue /\ i + 1 # 1
    BY <1>1
  <2> QED
    BY <1>1, <2>1 DEF Queued
<1>4. ASSUME NEW i \in DOMAIN queue, queue[i] # Head(queue) PROVE queue[i] \in Queued'
  <2>1. i - 1 \in DOMAIN queue' /\ queue'[i - 1] = queue[i]
    BY <1>1, <1>4
  <2> QED
    BY <2>1 DEF Queued
<1>5. Head(queue) \in Queued
  BY <1>1 DEF Queued
<1> QED
  BY <1>2, <1>3, <1>4, <1>5 DEF Queued

LEMMA InitAlone == Init => Alone
BY DEF Init, Alone, Uploading, UploadPcs, IdleRequest, IdleWorker, Queued

(* No request takes an image, and no thread does.                          *)
LEMMA QuietRequestsKeepAlone ==
    ASSUME Typed, Alone, TargetsKept, UNCHANGED <<queue, worker, temp>>,
           \A s \in Requests : Uploading(s)' => Uploading(s) /\ req'[s].guid = req[s].guid
    PROVE  Alone'
<1>1. Queued' = Queued /\ Queued \subseteq Guids
  BY DEF Queued, Typed, DataTyped
<1>2. \A w \in Workers : worker[w].guid # NoGuid => worker[w].guid \in Guids
  BY WorkerKnown DEF Typed, WorkerType, MaybeGuid
<1>3. \A g \in Guids : target[g] # NoPlace => target'[g] # NoPlace
  BY DEF TargetsKept
<1> QED
  BY <1>1, <1>2, <1>3 DEF Alone

LEMMA QuietWorkersKeepAlone ==
    ASSUME Typed, Alone, UNCHANGED <<queue, req, target>>,
           NEW w \in Workers, ~Step(w, "idle"),
           \A v \in Workers \ {w} : worker'[v] = worker[v],
           worker'[w].guid \in {worker[w].guid, NoGuid},
           worker'[w].step \in {"std", "thumb"} => temp' = temp /\ worker[w].step \in {"std", "thumb"}
                                                    /\ worker'[w].guid = worker[w].guid,
           temp' \in {temp, temp \ {worker[w].guid}}
    PROVE  Alone'
<1>1. Queued' = Queued /\ Queued \subseteq Guids
  BY DEF Queued, Typed, DataTyped
<1>2. worker[w].guid \in Guids /\ worker[w].guid # NoGuid
  BY WorkerKnown, GuidsAssumption DEF Typed
<1>3. \A r \in Requests : Uploading(r)' <=> Uploading(r)
  BY DEF Uploading
<1>4. \A r \in Requests : Uploading(r) => req[r].guid \in Guids
  BY RequestKnown DEF Typed, Uploading, Busy, UploadPcs
<1>5. \A r \in Requests : Uploading(r)' => req'[r].guid \notin Queued' /\ req'[r].guid \in temp'
  BY <1>1, <1>3 DEF Alone
<1>6. \A r \in Requests, v \in Workers : Uploading(r)' => worker'[v].guid # req'[r].guid
  <2> TAKE r \in Requests, v \in Workers
  <2> HAVE Uploading(r)'
  <2>1. Uploading(r) /\ req'[r].guid = req[r].guid /\ req[r].guid # NoGuid
    BY <1>3, <1>4, GuidsAssumption
  <2> QED
    BY <2>1 DEF Alone
<1>7. Queued' \subseteq temp'
  BY <1>1 DEF Alone
<1>8. \A v, u \in Workers : worker'[v].guid = worker'[u].guid /\ worker'[v].guid # NoGuid => v = u
  BY DEF Alone
<1>9. \A v \in Workers : worker'[v].guid \notin Queued'
  BY <1>1, GuidsAssumption DEF Alone
<1>10. \A v \in Workers : worker'[v].guid # NoGuid => target'[worker'[v].guid] # NoPlace
  BY DEF Alone
<1>11. \A v \in Workers : worker'[v].step \in {"std", "thumb"} => worker'[v].guid \in temp'
  <2> TAKE v \in Workers
  <2> HAVE worker'[v].step \in {"std", "thumb"}
  <2>1. CASE v = w
    BY <2>1 DEF Alone
  <2>2. CASE v # w
    <3>1. worker'[v] = worker[v] /\ worker[v].guid \in temp /\ worker[v].guid # NoGuid
      BY <2>2, WorkerKnown DEF Alone, Typed, Works
    <3>2. worker[v].guid # worker[w].guid
      BY <2>2, <3>1 DEF Alone
    <3> QED
      BY <3>1, <3>2
  <2> QED
    BY <2>1, <2>2
<1> QED
  BY <1>1, <1>3, <1>5, <1>6, <1>7, <1>8, <1>9, <1>10, <1>11 DEF Alone

LEMMA UploadKeepsAlone ==
    ASSUME Typed, Alone, NEW r \in Requests, NEW p \in Places, NEW g \in Guids, Upload(r, p, g)
    PROVE  Alone'
<1>1. /\ target[g] = NoPlace /\ target' = [target EXCEPT ![g] = p]
      /\ temp' = temp \cup {g} /\ queue' = queue /\ worker' = worker
      /\ \A s \in Requests \ {r} : req'[s] = req[s]
      /\ req'[r].guid = g /\ req'[r].pc = "read"
  BY DEF Upload, Typed, RequestsTyped, RequestType, IdleRequest
<1>2. Queued' = Queued /\ Queued \subseteq Guids /\ g \notin Queued
  BY <1>1 DEF Queued, Alone, Typed, DataTyped
<1>3. \A h \in Guids : target[h] # NoPlace => target'[h] = target[h] /\ h # g
  BY <1>1 DEF Typed, DataTyped
<1>4. \A w \in Workers : worker[w].guid # NoGuid => worker[w].guid \in Guids \ {g}
  BY <1>3, WorkerKnown DEF Typed, WorkerType, MaybeGuid, Alone
<1>5. \A s \in Requests : Uploading(s) => req[s].guid \in Guids /\ req[s].guid # g
  BY <1>1, <1>3, RequestKnown, PlacesAssumption DEF Typed, Uploading, Busy, UploadPcs, Places
<1>6. \A s \in Requests : Uploading(s)' => s = r \/ (Uploading(s) /\ req'[s].guid = req[s].guid)
  BY <1>1 DEF Uploading
<1>7. \A s, u \in Requests : Uploading(s)' /\ Uploading(u)' /\ req'[s].guid = req'[u].guid => s = u
  BY <1>1, <1>5, <1>6 DEF Alone
<1>8. \A s \in Requests : Uploading(s)' => req'[s].guid \notin Queued' /\ req'[s].guid \in temp'
  BY <1>1, <1>2, <1>6 DEF Alone
<1>9. \A s \in Requests, w \in Workers : Uploading(s)' => worker'[w].guid # req'[s].guid
  <2> TAKE s \in Requests, w \in Workers
  <2> HAVE Uploading(s)'
  <2>1. CASE s = r
    BY <1>1, <1>4, <2>1, GuidsAssumption
  <2>2. CASE s # r
    BY <1>1, <1>6, <2>2 DEF Alone
  <2> QED
    BY <2>1, <2>2
<1>10. /\ \A i, j \in DOMAIN queue' : queue'[i] = queue'[j] => i = j
       /\ Queued' \subseteq temp' /\ \A h \in Queued' : target'[h] # NoPlace
  BY <1>1, <1>2, <1>3 DEF Alone
<1>11. /\ \A v, w \in Workers : worker'[v].guid = worker'[w].guid /\ worker'[v].guid # NoGuid => v = w
       /\ \A w \in Workers : worker'[w].guid \notin Queued'
       /\ \A w \in Workers : worker'[w].guid # NoGuid => target'[worker'[w].guid] # NoPlace
       /\ \A w \in Workers : worker'[w].step \in {"std", "thumb"} => worker'[w].guid \in temp'
  BY <1>1, <1>2, <1>3, <1>4 DEF Alone
<1> QED
  BY <1>7, <1>8, <1>9, <1>10, <1>11 DEF Alone

LEMMA EnqueueKeepsAlone ==
    ASSUME Typed, Alone, NEW r \in Requests, Enqueue(r)
    PROVE  Alone'
<1>1. PICK g : g = req[r].guid
  OBVIOUS
<1>2. /\ Uploading(r) /\ g \in Guids /\ target[g] = req[r].place /\ req[r].place \in Places
      /\ queue' = Append(queue, g) /\ target' = target /\ temp' = temp /\ worker' = worker
      /\ \A s \in Requests \ {r} : req'[s] = req[s]
      /\ ~Uploading(r)'
  BY <1>1, RequestKnown
     DEF Enqueue, Submitted, Uploading, UploadPcs, Busy, Typed, RequestsTyped, Idle, IdleRequest, history
<1>3. Queued' = Queued \cup {g} /\ \A i, j \in DOMAIN queue' : queue'[i] = queue'[j] => i = j
  BY <1>1, <1>2, Appended DEF Typed, DataTyped, Alone
<1>4. \A s \in Requests : Uploading(s)' => s # r /\ Uploading(s) /\ req'[s].guid = req[s].guid
  BY <1>2 DEF Uploading
<1>5. \A s, u \in Requests : Uploading(s)' /\ Uploading(u)' /\ req'[s].guid = req'[u].guid => s = u
  BY <1>4 DEF Alone
<1>6. \A s \in Requests : Uploading(s)' => req'[s].guid \notin Queued' /\ req'[s].guid \in temp'
  BY <1>1, <1>2, <1>3, <1>4 DEF Alone
<1>7. \A s \in Requests, w \in Workers : Uploading(s)' => worker'[w].guid # req'[s].guid
  BY <1>2, <1>4 DEF Alone
<1>8. Queued' \subseteq temp' /\ \A h \in Queued' : target'[h] # NoPlace
  BY <1>1, <1>2, <1>3, PlacesAssumption DEF Alone, Places
<1>9. \A w \in Workers : worker'[w].guid \notin Queued'
  BY <1>1, <1>2, <1>3 DEF Alone
<1> QED
  BY <1>2, <1>3, <1>5, <1>6, <1>7, <1>8, <1>9 DEF Alone

LEMMA TakingKeepsAlone ==
    ASSUME Typed, Alone, NEW w \in Workers, Generate(w) \/ GenerateFails(w)
    PROVE  Alone'
<1>1. PICK g : g = Head(queue)
  OBVIOUS
<1>2. /\ queue # <<>> /\ queue' = Tail(queue)
      /\ target' = target /\ temp' = temp /\ req' = req
      /\ Step(w, "idle")
  BY DEF Generate, GenerateFails, history
<1>3. /\ Queued' = Queued \ {g} /\ g \in Queued
      /\ \A i, j \in DOMAIN queue' : queue'[i] = queue'[j] => i = j
  BY <1>1, <1>2, Taken DEF Typed, DataTyped, Alone
<1>4. /\ worker[w].guid = NoGuid /\ g \in Guids
      /\ \A v \in Workers \ {w} : worker'[v] = worker[v]
      /\ worker'[w].guid \in {g, NoGuid}
  <2>1. worker' = worker \/ worker' = [worker EXCEPT ![w] = [step |-> "std", guid |-> g]]
    BY <1>1 DEF Generate, GenerateFails
  <2> QED
    BY <1>2, <1>3, <2>1, WorkerKnown DEF Typed, WorkersTyped, Works, Step, DataTyped, Queued
<1>5. \A s \in Requests : Uploading(s)' <=> Uploading(s)
  BY <1>2 DEF Uploading
<1>6. \A s \in Requests : Uploading(s) => req[s].guid \in Guids
  BY RequestKnown DEF Typed, Uploading, Busy, UploadPcs
<1>7. \A s \in Requests : Uploading(s)' => req'[s].guid \notin Queued' /\ req'[s].guid \in temp'
  BY <1>2, <1>3, <1>5 DEF Alone
<1>8. \A s \in Requests, v \in Workers : Uploading(s)' => worker'[v].guid # req'[s].guid
  BY <1>2, <1>3, <1>4, <1>5, <1>6, GuidsAssumption DEF Alone
<1>9. Queued' \subseteq temp' /\ \A h \in Queued' : target'[h] # NoPlace
  BY <1>2, <1>3 DEF Alone
<1>10. \A v, u \in Workers : worker'[v].guid = worker'[u].guid /\ worker'[v].guid # NoGuid => v = u
  BY <1>3, <1>4 DEF Alone
<1>11. \A v \in Workers : worker'[v].guid \notin Queued'
  BY <1>3, <1>4, GuidsAssumption DEF Alone, Queued, Typed, DataTyped
<1>12. \A v \in Workers : worker'[v].guid # NoGuid => target'[worker'[v].guid] # NoPlace
  BY <1>2, <1>3, <1>4 DEF Alone
<1>13. \A v \in Workers : worker'[v].step \in {"std", "thumb"} => worker'[v].guid \in temp'
  <2>1. worker' = worker \/ worker'[w].guid = g
    BY <1>1, <1>2 DEF Generate, GenerateFails, Typed, WorkersTyped
  <2> QED
    BY <1>2, <1>3, <1>4, <2>1 DEF Alone
<1> QED
  BY <1>2, <1>3, <1>5, <1>7, <1>8, <1>9, <1>10, <1>11, <1>12, <1>13 DEF Alone

(* The steps of a thread at work.                                          *)
Working(w) ==
    \/ UploadStd(w) \/ UploadThumb(w) \/ UploadFails(w) \/ Complete(w)
    \/ ErasePreviousStd(w) \/ ErasePreviousThumb(w) \/ ErasePreviousFails(w)

LEMMA WorkingMoves ==
    ASSUME Typed, NEW w \in Workers, Working(w)
    PROVE  /\ ~Step(w, "idle") /\ worker[w].guid \in Guids
           /\ \A v \in Workers \ {w} : worker'[v] = worker[v]
           /\ \/ worker'[w] = IdleWorker
              \/ /\ worker'[w].guid = worker[w].guid
                 /\ <<worker[w].step, worker'[w].step>> \in
                        {<<"std", "thumb">>, <<"thumb", "complete">>, <<"complete", "prevStd">>,
                         <<"prevStd", "prevThumb">>}
<1>1. ~Step(w, "idle")
  BY DEF Working, UploadStd, UploadThumb, UploadFails, Complete, ErasePreviousStd, ErasePreviousThumb,
         ErasePreviousFails, Step
<1>2. CASE worker' = Free(w)
  BY <1>1, <1>2, WorkerKnown, WorkerEnds DEF Typed
<1>3. ASSUME NEW step \in WorkSteps, worker' = Moved(w, step)
      PROVE  /\ \A v \in Workers \ {w} : worker'[v] = worker[v]
             /\ worker'[w].guid = worker[w].guid /\ worker'[w].step = step
  BY <1>1, <1>3, WorkerMoves DEF Typed
<1>4. \/ worker' = Free(w)
      \/ Step(w, "std") /\ worker' = Moved(w, "thumb")
      \/ Step(w, "thumb") /\ worker' = Moved(w, "complete")
      \/ Step(w, "complete") /\ worker' = Moved(w, "prevStd")
      \/ Step(w, "prevStd") /\ worker' = Moved(w, "prevThumb")
  BY DEF Working, UploadStd, UploadThumb, UploadFails, Complete, ErasePreviousStd, ErasePreviousThumb,
         ErasePreviousFails
<1>5. {"thumb", "complete", "prevStd", "prevThumb"} \subseteq WorkSteps
  BY DEF WorkSteps
<1> QED
  BY <1>1, <1>2, <1>3, <1>4, <1>5, WorkerKnown DEF Typed, Step

LEMMA WorkingKeepsAlone ==
    ASSUME Typed, Alone, NEW w \in Workers, Working(w)
    PROVE  Alone'
<1>1. UNCHANGED <<queue, req, target>> /\ temp' \in {temp, temp \ {worker[w].guid}}
  BY DEF Working, UploadStd, UploadThumb, UploadFails, Complete, ErasePreviousStd, ErasePreviousThumb,
         ErasePreviousFails, history
<1>2. worker'[w].step \in {"std", "thumb"} =>
          temp' = temp /\ worker[w].step \in {"std", "thumb"} /\ worker'[w].guid = worker[w].guid
  <2> SUFFICES ASSUME worker'[w].step \in {"std", "thumb"}
               PROVE  temp' = temp /\ worker[w].step \in {"std", "thumb"} /\ worker'[w].guid = worker[w].guid
    OBVIOUS
  <2>1. worker'[w].step = "thumb" /\ worker[w].step = "std" /\ worker'[w].guid = worker[w].guid
    BY WorkingMoves DEF IdleWorker
  <2>2. ~UploadThumb(w)
    BY <2>1 DEF UploadThumb, Step
  <2>3. ~UploadFails(w)
    BY <2>1, WorkerEnds DEF UploadFails, IdleWorker, Typed
  <2> QED
    BY <2>1, <2>2, <2>3
       DEF Working, UploadStd, Complete, ErasePreviousStd, ErasePreviousThumb, ErasePreviousFails
<1>3. worker'[w].guid \in {worker[w].guid, NoGuid}
  BY WorkingMoves DEF IdleWorker
<1> QED
  BY <1>1, <1>2, <1>3, WorkingMoves, QuietWorkersKeepAlone

(* The steps of a request but the first and the last of an upload.         *)
Quiet(r) ==
    \/ \E g \in Guids, p \in Streamables : Import(r, p, g)
    \/ \E p \in UserFields : LoadUser(r, p)
    \/ ReadRow(r) \/ RejectEdit(r) \/ Commit(r) \/ CommitFails(r)
    \/ Merge(r) \/ MergeFails(r) \/ EraseStd(r) \/ EraseThumb(r) \/ EraseFails(r)

LEMMA QuietMoves ==
    ASSUME Typed, NEW r \in Requests, Quiet(r)
    PROVE  /\ UNCHANGED <<queue, worker, temp>> /\ TargetsKept
           /\ \A s \in Requests \ {r} : req'[s] = req[s]
           /\ \/ req' = req
              \/ req'[r] = IdleRequest
              \/ /\ req'[r].guid = req[r].guid /\ req'[r].place = req[r].place
                 /\ <<req[r].pc, req'[r].pc>> \in
                        {<<"read", "commit">>, <<"commit", "enqueue">>, <<"merge", "eraseStd">>,
                         <<"eraseStd", "eraseThumb">>}
                 /\ ReadRow(r) \/ (req'[r].snap = req[r].snap /\ req'[r].seen = req[r].seen)
              \/ \E p \in UserFields : LoadUser(r, p) /\ req'[r].pc = "merge"
<1>1. /\ DOMAIN req = Requests
      /\ req[r] = [pc |-> req[r].pc, place |-> req[r].place, guid |-> req[r].guid,
                   snap |-> req[r].snap, seen |-> req[r].seen]
  BY DEF Typed, RequestsTyped, RequestType
<1>2. UNCHANGED <<queue, worker, temp>>
  BY DEF Quiet, Import, LoadUser, ReadRow, RejectEdit, Commit, CommitFails, Merge, MergeFails, EraseStd,
         EraseThumb, EraseFails
<1>3. TargetsKept
  <2>1. CASE \E g \in Guids, p \in Streamables : Import(r, p, g)
    BY <2>1 DEF Import, TargetsKept, Typed, DataTyped
  <2>2. CASE target' = target
    BY <2>2 DEF TargetsKept
  <2> QED
    BY <2>1, <2>2 DEF Quiet, LoadUser, ReadRow, RejectEdit, Commit, CommitFails, Merge, MergeFails, EraseStd,
         EraseThumb, EraseFails, history
<1>4. CASE \E g \in Guids, p \in Streamables : Import(r, p, g)
  BY <1>2, <1>3, <1>4 DEF Import
<1>5. CASE \E p \in UserFields : LoadUser(r, p)
  <2>1. PICK p \in UserFields : LoadUser(r, p)
    BY <1>5
  <2>2. req'[r].pc = "merge" /\ \A s \in Requests \ {r} : req'[s] = req[s]
    BY <1>1, <2>1 DEF LoadUser
  <2> QED
    BY <1>2, <1>3, <2>1, <2>2
<1>6. CASE ReadRow(r)
  BY <1>1, <1>2, <1>3, <1>6 DEF ReadRow, Busy
<1>7. CASE Commit(r) \/ Merge(r) \/ EraseStd(r)
  <2>1. \/ req' = [req EXCEPT ![r].pc = "enqueue"] /\ req[r].pc = "commit"
        \/ req' = [req EXCEPT ![r].pc = "eraseStd"] /\ req[r].pc = "merge"
        \/ req' = [req EXCEPT ![r].pc = "eraseThumb"] /\ req[r].pc = "eraseStd"
    BY <1>7 DEF Commit, Merge, EraseStd, Busy
  <2> QED
    BY <1>1, <1>2, <1>3, <2>1
<1>8. CASE RejectEdit(r) \/ CommitFails(r) \/ MergeFails(r) \/ EraseThumb(r) \/ EraseFails(r)
  BY <1>1, <1>2, <1>3, <1>8 DEF RejectEdit, CommitFails, MergeFails, EraseThumb, EraseFails, Idle
<1> QED
  BY <1>4, <1>5, <1>6, <1>7, <1>8 DEF Quiet

LEMMA QuietKeepsAlone ==
    ASSUME Typed, Alone, NEW r \in Requests, Quiet(r)
    PROVE  Alone'
<1>1. \A s \in Requests : Uploading(s)' => Uploading(s) /\ req'[s].guid = req[s].guid
  BY QuietMoves DEF Uploading, UploadPcs, IdleRequest
<1> QED
  BY <1>1, QuietMoves, QuietRequestsKeepAlone

LEMMA RestartKeepsAlone == Typed /\ Alone /\ Restart => Alone'
<1> SUFFICES ASSUME Typed, Alone, Restart PROVE Alone'
  OBVIOUS
<1>1. /\ \A r \in Requests : ~Uploading(r)'
      /\ \A w \in Workers : worker'[w].guid = NoGuid /\ worker'[w].step = "idle"
      /\ queue' = <<>> /\ Queued' = {}
  BY DEF Restart, Uploading, UploadPcs, IdleRequest, IdleWorker, Queued
<1> QED
  BY <1>1, GuidsAssumption DEF Alone

(* Each step is of one of these kinds.                                     *)
LEMMA Kinds ==
    ASSUME [Next]_vars
    PROVE  \/ UNCHANGED vars \/ Restart
           \/ \E r \in Requests : \E g \in Guids, p \in Places : Upload(r, p, g)
           \/ \E r \in Requests : Enqueue(r) \/ Quiet(r)
           \/ \E w \in Workers : Generate(w) \/ GenerateFails(w) \/ Working(w)
BY DEF Next, Begin, Proceed, Process, Quiet, Working

LEMMA NextAlone == Typed /\ Alone /\ [Next]_vars => Alone'
<1> SUFFICES ASSUME Typed, Alone, [Next]_vars PROVE Alone'
  OBVIOUS
<1>1. CASE UNCHANGED vars
  BY <1>1 DEF vars, Alone, Uploading, Queued
<1> QED
  BY <1>1, Kinds, RestartKeepsAlone, UploadKeepsAlone, EnqueueKeepsAlone, QuietKeepsAlone, TakingKeepsAlone,
     WorkingKeepsAlone

(* The file of an image is there until both its images are stored.         *)
THEOREM InputStaysAvailable == Spec => []InputAvailable
<1>1. Alone => InputAvailable
  BY DEF Alone, InputAvailable
<1> QED
  BY <1>1, AlwaysTyped, InitAlone, NextAlone, PTL DEF Spec

------------------------------------------------------------------------------
(* Each image is shown where it was uploaded to.                           *)

(* Nothing is known of an image before the commit that shows it.           *)
Fresh(g) ==
    /\ asset[g] = "none" /\ g \notin imported
    /\ \A n \in Guids : prevOf[n] # g
    /\ \A r \in Requests, q \in Places : req[r].snap[q] # g
    /\ \A part \in Parts : <<g, part>> \notin store

Placed ==
    /\ \A p \in Places : refs[p] # NoGuid => target[refs[p]] = p /\ asset[refs[p]] # "none"
    /\ \A r \in Requests, q \in Places :
          LET g == req[r].snap[q] IN g # NoGuid => target[g] = q /\ req[r].seen[g] # "none"
    /\ \A r \in Requests : req[r].pc \in {"read", "commit"} => Fresh(req[r].guid)
    /\ \A g \in Guids : target[g] = NoPlace => Fresh(g)

ShownPlaced == \A p \in Places : refs[p] # NoGuid => target[refs[p]] = p /\ asset[refs[p]] # "none"
SnapPlaced(q) == \A k \in Places : q.snap[k] # NoGuid => target[q.snap[k]] = k /\ q.seen[q.snap[k]] # "none"

LEMMA PlacedParts ==
    Placed <=> /\ ShownPlaced /\ \A r \in Requests : SnapPlaced(req[r])
               /\ \A r \in Requests : req[r].pc \in {"read", "commit"} => Fresh(req[r].guid)
               /\ \A g \in Guids : target[g] = NoPlace => Fresh(g)
BY DEF Placed, ShownPlaced, SnapPlaced

LEMMA InitPlaced == Init => Placed
<1> SUFFICES ASSUME Init PROVE Placed
  OBVIOUS
<1>1. \A r \in Requests : req[r] = IdleRequest /\ IdleRequest.snap = NoRefs /\ IdleRequest.pc = "idle"
  BY DEF Init, IdleRequest
<1>2. \A g \in Guids : Fresh(g)
  BY <1>1, GuidsAssumption DEF Init, Fresh, NoRows, NoRefs
<1> QED
  BY <1>1, <1>2 DEF Init, Placed, NoRefs

(* What a row shows has a row of its own, before and after it is read.     *)
LEMMA SnapOfShown ==
    ASSUME Typed, ShownPlaced, NEW p \in Places, NEW q, q.snap = Snap(p), q.seen = Seen(p)
    PROVE  SnapPlaced(q)
<1> SUFFICES ASSUME NEW k \in Places, Snap(p)[k] # NoGuid
             PROVE  target[Snap(p)[k]] = k /\ Seen(p)[Snap(p)[k]] # "none"
  BY DEF SnapPlaced
<1>1. k \in RowOf(p) /\ Snap(p)[k] = refs[k] /\ refs[k] \in Guids
  BY DEF Snap, Typed, DataTyped, MaybeGuid
<1> QED
  BY <1>1 DEF Seen, ShownPlaced

(* A guid nobody uses, or one whose request has not committed, stays so    *)
(* unless the step is about it.                                            *)
LEMMA StaysFresh ==
    ASSUME Typed, NEW g \in Guids, Fresh(g), asset'[g] = "none", g \notin imported',
           \A n \in Guids : prevOf'[n] \in {prevOf[n], NoGuid} \/ prevOf'[n] # g,
           \A r \in Requests : req'[r].snap = req[r].snap \/ \A q \in Places : req'[r].snap[q] # g,
           \A part \in Parts : <<g, part>> \in store' => <<g, part>> \in store
    PROVE  Fresh(g)'
BY GuidsAssumption DEF Fresh

LEMMA FreshGuid ==
    ASSUME Typed, Placed, NEW g \in Guids, Fresh(g)
    PROVE  \A p \in Places : refs[p] # g
BY GuidsAssumption DEF Placed, Fresh

(* Steps that change no column and no request's copy of one.               *)
LEMMA UnwrittenKeepsPlaced ==
    ASSUME Typed, Alone, Placed, UNCHANGED <<refs, imported, target>>,
           \A g \in Guids : asset'[g] = "none" <=> asset[g] = "none",
           \A n \in Guids : \/ prevOf'[n] \in {prevOf[n], NoGuid}
                            \/ \E r \in Requests, p \in Places : prevOf'[n] = req[r].snap[p],
           \A r \in Requests :
               \/ req'[r] = IdleRequest
               \/ /\ req'[r].snap = req[r].snap /\ req'[r].seen = req[r].seen
                  /\ req'[r].pc \in {"read", "commit"} =>
                        req[r].pc \in {"read", "commit"} /\ req'[r].guid = req[r].guid,
           \A x \in store' \ store : \E w \in Workers : worker[w].guid = x[1]
    PROVE  Placed'
<1>0. /\ IdleRequest.pc = "idle" /\ IdleRequest.snap = NoRefs
      /\ \A q \in Places : NoRefs[q] = NoGuid
  BY DEF IdleRequest, NoRefs
<1>1. ShownPlaced'
  BY DEF Placed, ShownPlaced, Typed, DataTyped, MaybeGuid
<1>2. ASSUME NEW r \in Requests PROVE SnapPlaced(req[r])'
  BY <1>0 DEF Placed, SnapPlaced
<1>3. ASSUME NEW g \in Guids, Fresh(g),
             target[g] = NoPlace \/ \E r \in Requests : req[r].pc \in {"read", "commit"} /\ req[r].guid = g
      PROVE  Fresh(g)'
  <2>1. \A w \in Workers : worker[w].guid # g
    BY <1>3, GuidsAssumption DEF Alone, Uploading, UploadPcs
  <2>2. \A part \in Parts : <<g, part>> \in store' => <<g, part>> \in store
    <3> TAKE part \in Parts
    <3>1. <<g, part>>[1] = g
      OBVIOUS
    <3> QED
      BY <2>1, <3>1
  <2>3. \A n \in Guids : prevOf'[n] # g
    BY <1>3, GuidsAssumption DEF Fresh
  <2>4. \A r \in Requests, q \in Places : req'[r].snap[q] # g
    BY <1>0, <1>3, GuidsAssumption DEF Fresh
  <2> QED
    BY <1>3, <2>2, <2>3, <2>4 DEF Fresh
<1>4. \A g \in Guids : target'[g] = NoPlace => Fresh(g)'
  BY <1>3 DEF Placed
<1>5. ASSUME NEW r \in Requests, req'[r].pc \in {"read", "commit"} PROVE Fresh(req[r].guid)'
  <2>1. PICK g : g = req'[r].guid
    OBVIOUS
  <2>2. req[r].pc \in {"read", "commit"} /\ g = req[r].guid
    BY <1>0, <1>5, <2>1
  <2>3. g \in Guids /\ Fresh(g)
    BY <2>2, RequestKnown DEF Placed, Busy, Typed
  <2>4. Fresh(g)'
    BY <1>3, <2>2, <2>3
  <2> QED
    BY <2>1, <2>4 DEF Fresh
<1> QED
  BY <1>1, <1>2, <1>4, <1>5 DEF Placed, ShownPlaced, SnapPlaced

(* The images whose commit has not come.                                   *)
Pending(g) ==
    \/ target[g] = NoPlace
    \/ \E r \in Requests : req[r].pc \in {"read", "commit"} /\ req[r].guid = g

LEMMA PendingFresh == ASSUME Placed, NEW g \in Guids, Pending(g) PROVE Fresh(g)
BY DEF Placed, Pending

LEMMA PlacedKept ==
    ASSUME Typed', ShownPlaced', \A r \in Requests : SnapPlaced(req[r])',
           \A g \in Guids : Pending(g)' => Fresh(g)'
    PROVE  Placed'
<1>1. ASSUME NEW r \in Requests, req'[r].pc \in {"read", "commit"} PROVE Fresh(req[r].guid)'
  <2>1. PICK g : g = req'[r].guid
    OBVIOUS
  <2>2. g \in Guids
    BY <1>1, <2>1 DEF Typed, RequestsTyped, RequestType, Held, MaybeGuid
  <2>3. Fresh(g)'
    BY <1>1, <2>1, <2>2 DEF Pending
  <2> QED
    BY <2>1, <2>3 DEF Fresh
<1> QED
  BY <1>1 DEF Placed, ShownPlaced, SnapPlaced, Pending

LEMMA PendingShrinks ==
    ASSUME Typed, TargetsKept, NEW g \in Guids, Pending(g)',
           \A r \in Requests : req'[r].pc \in {"read", "commit"} =>
               req[r].pc \in {"read", "commit"} /\ req'[r].guid = req[r].guid
    PROVE  Pending(g)
BY DEF Pending, TargetsKept

LEMMA QuietPending ==
    ASSUME Typed, NEW r \in Requests, Quiet(r), NEW g \in Guids, Pending(g)'
    PROVE  Pending(g)
<1>1. ASSUME NEW s \in Requests, req'[s].pc \in {"read", "commit"}
      PROVE  req[s].pc \in {"read", "commit"} /\ req'[s].guid = req[s].guid
  <2>1. CASE s = r
    BY <1>1, <2>1, QuietMoves DEF IdleRequest
  <2>2. CASE s # r
    BY <1>1, <2>2, QuietMoves
  <2> QED
    BY <2>1, <2>2
<1> QED
  BY <1>1, QuietMoves, PendingShrinks

LEMMA UploadKeepsPlaced ==
    ASSUME Typed, Typed', Placed, NEW r \in Requests, NEW p \in Places, NEW g \in Guids, Upload(r, p, g)
    PROVE  Placed'
<1>1. /\ target[g] = NoPlace /\ target' = [target EXCEPT ![g] = p]
      /\ UNCHANGED <<refs, asset, imported, store, prevOf>>
      /\ \A s \in Requests \ {r} : req'[s] = req[s]
      /\ req'[r].guid = g /\ req'[r].pc = "read" /\ req'[r].snap = NoRefs
  BY DEF Upload, Typed, RequestsTyped, RequestType, IdleRequest, db
<1>2. Fresh(g) /\ \A q \in Places : refs[q] # g
  BY <1>1, FreshGuid DEF Placed
<1>3. \A h \in Guids \ {g} : target'[h] = target[h]
  BY <1>1 DEF Typed, DataTyped
<1>4. ShownPlaced'
  BY <1>1, <1>2, <1>3 DEF ShownPlaced, Placed, Typed, DataTyped, MaybeGuid
<1>5. ASSUME NEW s \in Requests PROVE SnapPlaced(req[s])'
  <2>1. CASE s = r
    BY <1>1, <2>1 DEF SnapPlaced, NoRefs
  <2>2. CASE s # r
    <3>1. req'[s] = req[s] /\ req[s].snap \in [Places -> MaybeGuid]
      BY <1>1, <2>2, RequestKnown DEF Typed
    <3> QED
      BY <1>2, <1>3, <3>1 DEF SnapPlaced, Placed, Fresh, MaybeGuid
  <2> QED
    BY <2>1, <2>2
<1>6. ASSUME NEW h \in Guids, Pending(h)' PROVE Fresh(h)'
  <2>1. Pending(h)
    BY <1>1, <1>3, <1>6 DEF Pending
  <2>2. Fresh(h)
    BY <2>1, PendingFresh
  <2>3. \A s \in Requests, q \in Places : req'[s].snap[q] # h
    BY <1>1, <2>2, GuidsAssumption DEF Fresh, NoRefs
  <2> QED
    BY <1>1, <2>2, <2>3 DEF Fresh
<1> QED
  BY <1>4, <1>5, <1>6, PlacedKept

LEMMA ImportKeepsPlaced ==
    ASSUME Typed, Typed', Placed, NEW r \in Requests, NEW p \in Streamables, NEW g \in Guids, Import(r, p, g)
    PROVE  Placed'
<1>1. /\ target[g] = NoPlace /\ target' = [target EXCEPT ![g] = p]
      /\ refs' = [refs EXCEPT ![p] = g] /\ asset' = [asset EXCEPT ![g] = "COMPLETED"]
      /\ imported' = imported \cup {g}
      /\ UNCHANGED <<store, prevOf, req>>
  BY DEF Import
<1>2. Fresh(g) /\ \A q \in Places : refs[q] # g
  BY <1>1, FreshGuid DEF Placed
<1>3. \A h \in Guids \ {g} : target'[h] = target[h] /\ asset'[h] = asset[h]
  BY <1>1 DEF Typed, DataTyped
<1>4. target'[g] = p /\ asset'[g] = "COMPLETED"
  BY <1>1 DEF Typed, DataTyped
<1>5. \A q \in Places : refs'[q] = IF q = p THEN g ELSE refs[q]
  BY <1>1 DEF Typed, DataTyped
<1>6. ShownPlaced'
  BY <1>2, <1>3, <1>4, <1>5 DEF ShownPlaced, Placed, Typed, DataTyped, MaybeGuid
<1>7. ASSUME NEW s \in Requests PROVE SnapPlaced(req[s])'
  <2>1. req[s].snap \in [Places -> MaybeGuid]
    BY RequestKnown DEF Typed
  <2> QED
    BY <1>1, <1>2, <1>3, <2>1 DEF SnapPlaced, Placed, Fresh, MaybeGuid
<1>8. ASSUME NEW h \in Guids, Pending(h)' PROVE Fresh(h)'
  <2>1. h # g
    <3>1. \A s \in Requests : req[s].pc \in {"read", "commit"} => req[s].guid # g
      BY <1>1, RequestKnown, PlacesAssumption DEF Typed, UploadPcs, Busy, Places
    <3> QED
      BY <1>1, <1>4, <1>8, <3>1, PlacesAssumption DEF Pending, Places
  <2>2. Pending(h)
    BY <1>1, <1>3, <1>8, <2>1 DEF Pending
  <2>3. Fresh(h)
    BY <2>2, PendingFresh
  <2> QED
    BY <1>1, <1>3, <2>1, <2>3 DEF Fresh
<1> QED
  BY <1>6, <1>7, <1>8, PlacedKept


(* A request reads the row it will write.                                  *)
LEMMA ReadingKeepsPlaced ==
    ASSUME Typed, Typed', Placed, NEW r \in Requests, Quiet(r),
           ReadRow(r) \/ \E p \in UserFields : LoadUser(r, p)
    PROVE  Placed'
<1>1. PICK p \in Places : req'[r].snap = Snap(p) /\ req'[r].seen = Seen(p)
                          /\ \A n \in Guids : prevOf'[n] = prevOf[n] \/ prevOf'[n] = refs[p]
  <2>1. CASE ReadRow(r)
    <3>1. Busy(r, "read") /\ req[r].guid \in Guids /\ req[r].place \in Places
      BY <2>1, RequestKnown DEF ReadRow, Busy, Typed
    <3> QED
      BY <2>1, <3>1 DEF ReadRow, Mapped, Typed, DataTyped, RequestsTyped, RequestType
  <2>2. ASSUME NEW p \in UserFields, LoadUser(r, p)
        PROVE  /\ p \in Places /\ req'[r].snap = Snap(p) /\ req'[r].seen = Seen(p)
               /\ prevOf' = prevOf
    BY <2>2 DEF LoadUser, Places, Typed, RequestsTyped
  <2> QED
    BY <2>1, <2>2
<1>2. /\ UNCHANGED <<refs, asset, imported, store, target>>
      /\ \A s \in Requests \ {r} : req'[s] = req[s]
  BY QuietMoves DEF ReadRow, LoadUser, db, history
<1>3. ShownPlaced'
  BY <1>2 DEF ShownPlaced, Placed
<1>4. ASSUME NEW s \in Requests PROVE SnapPlaced(req[s])'
  <2>1. CASE s = r
    <3>1. SnapPlaced(req'[r])
      BY <1>1, PlacedParts, SnapOfShown
    <3> QED
      BY <1>2, <2>1, <3>1 DEF SnapPlaced
  <2>2. CASE s # r
    BY <1>2, <2>2 DEF SnapPlaced, Placed
  <2> QED
    BY <2>1, <2>2
<1>5. ASSUME NEW h \in Guids, Pending(h)' PROVE Fresh(h)'
  <2>1. Fresh(h) /\ \A q \in Places : refs[q] # h
    BY <1>5, QuietPending, PendingFresh, FreshGuid
  <2>2. \A n \in Guids : prevOf'[n] # h
    BY <1>1, <2>1 DEF Fresh
  <2>3. \A s \in Requests, q \in Places : req'[s].snap[q] # h
    BY <1>1, <1>2, <2>1, GuidsAssumption DEF Fresh, Snap
  <2> QED
    BY <1>2, <2>1, <2>2, <2>3 DEF Fresh
<1> QED
  BY <1>3, <1>4, <1>5, PlacedKept

(* A request writes the row: its image, where it was to be, and the        *)
(* columns it has read.                                                    *)
LEMMA CommitKeepsPlaced ==
    ASSUME Typed, Typed', Alone, Placed, NEW r \in Requests, Commit(r)
    PROVE  Placed'
<1> DEFINE p == req[r].place
           g == req[r].guid
           old == req[r].snap[p]
<1>1. /\ Busy(r, "commit") /\ ForeignKeysHold(r)
      /\ refs' = WriteRow(p, [req[r].snap EXCEPT ![p] = g])
      /\ asset' = [h \in Guids |-> CASE h = g -> "PROCESSING" [] h = old -> "none" [] OTHER -> asset[h]]
      /\ UNCHANGED <<imported, store, prevOf, target>>
      /\ req' = [req EXCEPT ![r].pc = "enqueue"]
  BY DEF Commit, CommitOK
<1>2. /\ p \in Places /\ g \in Guids /\ target[g] = p
      /\ req[r].snap \in [Places -> MaybeGuid]
      /\ Fresh(g)
  BY <1>1, RequestKnown DEF Busy, UploadPcs, Typed, Placed
<1>3. /\ \A q \in Places : refs'[q] = IF q = p THEN g ELSE IF q \in RowOf(p) THEN req[r].snap[q] ELSE refs[q]
      /\ p \in RowOf(p) /\ RowOf(p) \subseteq Places
  BY <1>1, <1>2 DEF WriteRow, RowOf, Places
<1>4. old # NoGuid => target[old] = p
  BY <1>2 DEF Placed
<1>5. asset'[g] = "PROCESSING" /\ \A h \in Guids \ {g} : asset'[h] = IF h = old THEN "none" ELSE asset[h]
  <2>1. g # old
    BY <1>2 DEF Fresh
  <2> QED
    BY <1>1, <1>2, <2>1
<1>6. \A s \in Requests : /\ req'[s].snap = req[s].snap /\ req'[s].seen = req[s].seen /\ req'[s].guid = req[s].guid
                          /\ req'[s].pc = IF s = r THEN "enqueue" ELSE req[s].pc
  BY <1>1 DEF Typed, RequestsTyped, RequestType
<1>7. \A h \in Guids : Pending(h)' => h # g /\ Pending(h)
  <2>1. \A s \in Requests \ {r} : req[s].pc \in {"read", "commit"} => req[s].guid # g
    BY <1>1 DEF Alone, Uploading, UploadPcs, Busy
  <2>2. \A h \in Guids : Pending(h)' => h # g
    BY <1>1, <1>2, <1>6, <2>1, PlacesAssumption DEF Pending, Places
  <2>3. \A h \in Guids : Pending(h)' => Pending(h)
    BY <1>1, <1>6 DEF Pending
  <2> QED
    BY <2>2, <2>3
<1> HIDE DEF p, g, old
<1>8. ShownPlaced'
  <2> SUFFICES ASSUME NEW q \in Places, refs'[q] # NoGuid
               PROVE  target'[refs'[q]] = q /\ asset'[refs'[q]] # "none"
    BY DEF ShownPlaced
  <2>1. CASE q = p
    BY <1>1, <1>2, <1>3, <1>5, <2>1
  <2>2. CASE q # p /\ q \in RowOf(p)
    <3>1. PICK h : h = req[r].snap[q]
      OBVIOUS
    <3>2. refs'[q] = h /\ h \in Guids /\ target[h] = q
      BY <1>2, <1>3, <2>2, <3>1 DEF Placed, MaybeGuid
    <3>3. asset[h] # "none"
      BY <1>1, <2>2, <3>1, <3>2 DEF ForeignKeysHold, p, MaybeGuid
    <3> QED
      BY <1>1, <1>4, <1>5, <2>2, <3>2, <3>3
  <2>3. CASE q \notin RowOf(p)
    <3>1. PICK h : h = refs[q]
      OBVIOUS
    <3>2. refs'[q] = h /\ h \in Guids /\ target[h] = q /\ asset[h] # "none" /\ q # p
      BY <1>3, <2>3, <3>1 DEF Placed, MaybeGuid, Typed, DataTyped
    <3> QED
      BY <1>1, <1>4, <1>5, <3>2
  <2> QED
    BY <2>1, <2>2, <2>3
<1>9. ASSUME NEW s \in Requests PROVE SnapPlaced(req[s])'
  BY <1>1, <1>6 DEF SnapPlaced, Placed
<1>10. ASSUME NEW h \in Guids, Pending(h)' PROVE Fresh(h)'
  <2>1. h # g /\ Fresh(h)
    BY <1>7, <1>10, PendingFresh
  <2>2. asset'[h] = "none"
    BY <1>5, <2>1 DEF Fresh
  <2> QED
    BY <1>1, <1>6, <2>1, <2>2 DEF Fresh
<1> QED
  BY <1>8, <1>9, <1>10, PlacedKept

(* The columns and the rows after a merge.                                 *)
LEMMA MergeWrites ==
    ASSUME Typed, Placed, NEW r \in Requests, Merge(r)
    PROVE  /\ Busy(r, "merge") /\ req[r].place \in UserFields
           /\ req[r].guid = req[r].snap[req[r].place]
           /\ \A q \in Places : refs'[q] = IF q = req[r].place THEN NoGuid
                                           ELSE IF q \in UserFields THEN req[r].snap[q] ELSE refs[q]
           /\ \A h \in Guids :
                 \/ asset'[h] = asset[h]
                 \/ /\ asset'[h] = "none" /\ \E q \in UserFields : refs[q] = h
                    /\ \A q \in UserFields : refs'[q] # h
                 \/ /\ asset[h] = "none" /\ \E q \in UserFields : refs'[q] = h
           /\ \A h \in Guids : (\E q \in UserFields : refs'[q] = h) => asset'[h] # "none"
<1> DEFINE p == req[r].place
           columns == [req[r].snap EXCEPT ![p] = NoGuid]
           kept == {columns[q] : q \in UserFields}
           orphans == {refs[q] : q \in UserFields} \ (kept \cup {NoGuid})
<1>1. /\ Busy(r, "merge") /\ refs' = WriteRow(p, columns)
      /\ asset' = [h \in Guids |-> CASE h \in orphans -> "none"
                                     [] h \in kept /\ asset[h] = "none" -> req[r].seen[h]
                                     [] OTHER -> asset[h]]
  BY DEF Merge
<1>2. /\ p \in UserFields /\ req[r].guid = req[r].snap[p] /\ req[r].snap \in [Places -> MaybeGuid]
  BY <1>1, RequestKnown DEF Busy, DeletePcs, Typed
<1>3. /\ \A q \in Places : columns[q] = IF q = p THEN NoGuid ELSE req[r].snap[q]
      /\ UserFields \subseteq Places
  BY <1>2 DEF Places
<1>4. \A q \in Places : refs'[q] = IF q = p THEN NoGuid ELSE IF q \in UserFields THEN req[r].snap[q] ELSE refs[q]
  BY <1>1, <1>2, <1>3 DEF WriteRow, RowOf
<1>5. \A h \in Guids : h \in kept <=> \E q \in UserFields : refs'[q] = h
  BY <1>2, <1>3, <1>4, GuidsAssumption
<1>6. \A h \in Guids : h \in kept => req[r].seen[h] # "none"
  BY <1>3, GuidsAssumption DEF Placed
<1> HIDE DEF columns, kept
<1>7. \A h \in Guids : h \in orphans => h \notin kept /\ \E q \in UserFields : refs[q] = h
  OBVIOUS
<1>8. ASSUME NEW h \in Guids
      PROVE  asset'[h] = IF h \in orphans THEN "none"
                         ELSE IF h \in kept /\ asset[h] = "none" THEN req[r].seen[h] ELSE asset[h]
  BY <1>1
<1> HIDE DEF orphans
<1>9. \A h \in Guids :
         \/ asset'[h] = asset[h]
         \/ /\ asset'[h] = "none" /\ \E q \in UserFields : refs[q] = h
            /\ \A q \in UserFields : refs'[q] # h
         \/ /\ asset[h] = "none" /\ \E q \in UserFields : refs'[q] = h
  BY <1>5, <1>7, <1>8
<1>10. \A h \in Guids : h \in kept => asset'[h] # "none"
  BY <1>6, <1>7, <1>8
<1> QED
  BY <1>1, <1>2, <1>4, <1>5, <1>9, <1>10


LEMMA MergeKeepsPlaced ==
    ASSUME Typed, Typed', Placed, NEW r \in Requests, Merge(r), Quiet(r)
    PROVE  Placed'
<1>1. /\ UNCHANGED <<imported, store, prevOf, target>> /\ req' = [req EXCEPT ![r].pc = "eraseStd"]
  BY DEF Merge
<1>2. \A s \in Requests : req'[s].snap = req[s].snap /\ req'[s].seen = req[s].seen
  BY <1>1 DEF Typed, RequestsTyped, RequestType
<1>3. UserFields \subseteq Places /\ req[r].snap \in [Places -> MaybeGuid]
  BY RequestKnown DEF Typed, Places
<1>4. ASSUME NEW q \in Places, refs'[q] # NoGuid
      PROVE  target'[refs'[q]] = q /\ asset'[refs'[q]] # "none"
  <2>1. PICK h : h = refs'[q]
    OBVIOUS
  <2>2. h \in Guids
    BY <1>4, <2>1 DEF Typed, DataTyped, MaybeGuid
  <2>3. target[h] = q
    BY <1>3, <1>4, <2>1, MergeWrites DEF Placed
  <2>4. asset'[h] # "none"
    <3>1. CASE q \in UserFields
      BY <2>1, <2>2, <3>1, MergeWrites
    <3>2. CASE q \notin UserFields
      <4>1. refs[q] = h /\ asset[h] # "none"
        BY <1>4, <2>1, <3>2, MergeWrites DEF Placed
      <4>2. \A k \in UserFields : refs[k] # h
        BY <1>3, <2>2, <2>3, <3>2, GuidsAssumption DEF Placed
      <4> QED
        BY <2>2, <4>1, <4>2, MergeWrites
    <3> QED
      BY <3>1, <3>2
  <2> QED
    BY <1>1, <2>1, <2>3, <2>4
<1>5. ASSUME NEW h \in Guids, Pending(h)' PROVE Fresh(h)'
  <2>1. Fresh(h) /\ \A q \in Places : refs[q] # h
    BY <1>5, QuietPending, PendingFresh, FreshGuid
  <2>2. \A q \in UserFields : refs'[q] # h
    BY <1>3, <2>1, MergeWrites, GuidsAssumption DEF Fresh
  <2>3. asset'[h] = "none"
    BY <2>1, <2>2, MergeWrites DEF Fresh
  <2> QED
    BY <1>1, <1>2, <2>1, <2>3 DEF Fresh
<1>6. ASSUME NEW s \in Requests PROVE SnapPlaced(req[s])'
  BY <1>1, <1>2 DEF SnapPlaced, Placed
<1> QED
  BY <1>4, <1>5, <1>6, PlacedKept DEF ShownPlaced

LEMMA EnqueueKeepsPlaced ==
    ASSUME Typed, Alone, Placed, NEW r \in Requests, Enqueue(r)
    PROVE  Placed'
<1>1. /\ UNCHANGED <<refs, asset, imported, target, store>> /\ req' = Idle(r)
      /\ \A n \in Guids : \/ prevOf'[n] = prevOf[n]
                          \/ prevOf'[n] = req[r].snap[req[r].place]
      /\ req[r].place \in Places
  BY RequestKnown DEF Enqueue, Mapped, Busy, db, history, Typed, DataTyped
<1>2. \A s \in Requests : req'[s] = IdleRequest \/ req'[s] = req[s]
  BY <1>1 DEF Idle, Typed, RequestsTyped
<1> QED
  BY <1>1, <1>2, UnwrittenKeepsPlaced

(* The other steps of a request.                                           *)
LEMMA OtherQuietKeepsPlaced ==
    ASSUME Typed, Alone, Placed, NEW r \in Requests, Quiet(r),
           RejectEdit(r) \/ CommitFails(r) \/ MergeFails(r) \/ EraseStd(r) \/ EraseThumb(r) \/ EraseFails(r)
    PROVE  Placed'
<1>1. UNCHANGED <<refs, asset, imported, target, prevOf>> /\ store' \subseteq store /\ ~Busy(r, "idle")
  BY DEF RejectEdit, CommitFails, MergeFails, EraseStd, EraseThumb, EraseFails, Busy, db, history
<1>2. \/ req' = Idle(r) \/ req' = [req EXCEPT ![r].pc = "eraseThumb"]
  BY DEF RejectEdit, CommitFails, MergeFails, EraseStd, EraseThumb, EraseFails
<1>3. ASSUME NEW s \in Requests
      PROVE  \/ req'[s] = IdleRequest
             \/ /\ req'[s].snap = req[s].snap /\ req'[s].seen = req[s].seen
                /\ req'[s].pc \in {"read", "commit"} =>
                      req[s].pc \in {"read", "commit"} /\ req'[s].guid = req[s].guid
  BY <1>2 DEF Idle, Typed, RequestsTyped, RequestType
<1> QED
  BY <1>1, <1>3, UnwrittenKeepsPlaced

(* What the pool changes outside itself.                                   *)
LEMMA WorkersWrite ==
    ASSUME Typed, NEW w \in Workers, Generate(w) \/ GenerateFails(w) \/ Working(w)
    PROVE  /\ UNCHANGED <<refs, imported, target, req, dropped, revived>>
           /\ \A g \in Guids : asset'[g] = "none" <=> asset[g] = "none"
           /\ \A n \in Guids : prevOf'[n] \in {prevOf[n], NoGuid}
           /\ store' \subseteq store \cup {<<worker[w].guid, part>> : part \in {"std", "thumb"}}
<1>1. UNCHANGED <<refs, imported, target, req, dropped, revived>>
  BY DEF Generate, GenerateFails, Working, UploadStd, UploadThumb, UploadFails, Complete, ErasePreviousStd,
         ErasePreviousThumb, ErasePreviousFails, db, history
<1>2. \A g \in Guids : asset'[g] = "none" <=> asset[g] = "none"
  <2>1. CASE Complete(w)
    BY <2>1 DEF Complete, Typed, DataTyped
  <2>2. CASE asset' = asset
    BY <2>2
  <2> QED
    BY <2>1, <2>2 DEF Generate, GenerateFails, Working, UploadStd, UploadThumb, UploadFails, ErasePreviousStd,
         ErasePreviousThumb, ErasePreviousFails, db
<1>3. \A n \in Guids : prevOf'[n] \in {prevOf[n], NoGuid}
  <2>1. CASE ErasePreviousThumb(w)
    BY <2>1 DEF ErasePreviousThumb, Typed, DataTyped
  <2>2. CASE prevOf' = prevOf
    BY <2>2
  <2> QED
    BY <2>1, <2>2 DEF Generate, GenerateFails, Working, UploadStd, UploadThumb, UploadFails, ErasePreviousStd,
         Complete, ErasePreviousFails
<1>4. store' \subseteq store \cup {<<worker[w].guid, part>> : part \in {"std", "thumb"}}
  BY DEF Generate, GenerateFails, Working, UploadStd, UploadThumb, UploadFails, Complete, ErasePreviousStd,
         ErasePreviousThumb, ErasePreviousFails
<1> QED
  BY <1>1, <1>2, <1>3, <1>4

LEMMA WorkersKeepPlaced ==
    ASSUME Typed, Alone, Placed, NEW w \in Workers, Generate(w) \/ GenerateFails(w) \/ Working(w)
    PROVE  Placed'
<1>1. \A x \in store' \ store : \E v \in Workers : worker[v].guid = x[1]
  BY WorkersWrite
<1> QED
  BY <1>1, WorkersWrite, UnwrittenKeepsPlaced

LEMMA RestartKeepsPlaced == Typed /\ Alone /\ Placed /\ Restart => Placed'
<1> SUFFICES ASSUME Typed, Alone, Placed, Restart PROVE Placed'
  OBVIOUS
<1>1. /\ UNCHANGED <<refs, imported, target, asset, store>>
      /\ \A n \in Guids : prevOf'[n] = NoGuid
      /\ \A r \in Requests : req'[r] = IdleRequest
  BY DEF Restart, db, history
<1> QED
  BY <1>1, UnwrittenKeepsPlaced

LEMMA NextPlaced == Typed /\ Typed' /\ Alone /\ Placed /\ [Next]_vars => Placed'
<1> SUFFICES ASSUME Typed, Typed', Alone, Placed, [Next]_vars PROVE Placed'
  OBVIOUS
<1>1. CASE UNCHANGED vars
  BY <1>1 DEF vars, Placed, Fresh
<1>2. ASSUME NEW r \in Requests, Quiet(r) PROVE Placed'
  BY <1>2, ImportKeepsPlaced, ReadingKeepsPlaced, CommitKeepsPlaced, MergeKeepsPlaced, OtherQuietKeepsPlaced
     DEF Quiet
<1> QED
  BY <1>1, <1>2, Kinds, RestartKeepsPlaced, UploadKeepsPlaced, EnqueueKeepsPlaced, WorkersKeepPlaced

LEMMA AlwaysPlaced == Spec => [](Typed /\ Alone /\ Placed)
BY InitTyped, NextTyped, InitAlone, NextAlone, InitPlaced, NextPlaced, PTL DEF Spec


------------------------------------------------------------------------------
(* Each row uploaded for a graffiti is the one it shows.                   *)

(* A graffiti that shows nothing yet has one image on its way, whose       *)
(* request is the only one that may find the column empty.                 *)
FirstImage ==
    /\ \A p \in Streamables : refs[p] = NoGuid =>
          \A g, h \in Guids : target[g] = p /\ target[h] = p => g = h
    /\ \A r \in Requests :
          LET p == req[r].place
          IN  Busy(r, "commit") /\ p \in Streamables /\ req[r].snap[p] = NoGuid => refs[p] = NoGuid

LEMMA InitRows == Init => GraffitiRowsShown /\ FirstImage
<1> SUFFICES ASSUME Init PROVE GraffitiRowsShown /\ FirstImage
  OBVIOUS
<1>1. \A g \in Guids : asset[g] = "none" /\ target[g] \notin Streamables
  BY PlacesAssumption DEF Init, NoRows
<1>2. \A r \in Requests : ~Busy(r, "commit")
  BY DEF Init, Busy, IdleRequest
<1> QED
  BY <1>1, <1>2 DEF GraffitiRowsShown, FirstImage

LEMMA UnwrittenKeepsRows ==
    ASSUME GraffitiRowsShown, FirstImage, UNCHANGED <<refs, target>>,
           \A g \in Guids : asset'[g] = "none" <=> asset[g] = "none",
           \A s \in Requests : Busy(s, "commit")' =>
               \/ Busy(s, "commit") /\ req'[s].place = req[s].place /\ req'[s].snap = req[s].snap
               \/ req'[s].snap[req'[s].place] = refs[req'[s].place]
    PROVE  GraffitiRowsShown' /\ FirstImage'
<1>1. GraffitiRowsShown'
  BY DEF GraffitiRowsShown
<1>2. ASSUME NEW r \in Requests, NEW p, p = req'[r].place, Busy(r, "commit")', p \in Streamables,
             req'[r].snap[p] = NoGuid
      PROVE  refs'[p] = NoGuid
  BY <1>2 DEF FirstImage
<1> QED
  BY <1>1, <1>2 DEF FirstImage

LEMMA UploadKeepsRows ==
    ASSUME Typed, Placed, GraffitiRowsShown, FirstImage,
           NEW r \in Requests, NEW p \in Places, NEW g \in Guids, Upload(r, p, g)
    PROVE  GraffitiRowsShown' /\ FirstImage'
<1>1. /\ target[g] = NoPlace /\ target' = [target EXCEPT ![g] = p]
      /\ UNCHANGED <<refs, asset>>
      /\ p \in UserFields \/ Unborn(p) \/ refs[p] # NoGuid
      /\ \A s \in Requests \ {r} : req'[s] = req[s]
      /\ req'[r].pc = "read"
  BY DEF Upload, Typed, RequestsTyped, IdleRequest, db
<1>2. target'[g] = p /\ asset[g] = "none" /\ \A h \in Guids \ {g} : target'[h] = target[h]
  BY <1>1 DEF Typed, DataTyped, Placed, Fresh
<1>3. GraffitiRowsShown'
  BY <1>1, <1>2 DEF GraffitiRowsShown
<1>4. ASSUME NEW k \in Streamables, refs'[k] = NoGuid, NEW h \in Guids, NEW i \in Guids,
             target'[h] = k, target'[i] = k
      PROVE  h = i
  <2>1. CASE k = p
    BY <1>1, <1>2, <1>4, <2>1, PlacesAssumption DEF Unborn
  <2>2. CASE k # p
    BY <1>1, <1>2, <1>4, <2>2 DEF FirstImage
  <2> QED
    BY <2>1, <2>2
<1>5. ASSUME NEW s \in Requests, NEW k, k = req'[s].place, Busy(s, "commit")', k \in Streamables,
             req'[s].snap[k] = NoGuid
      PROVE  refs'[k] = NoGuid
  <2>1. s # r
    BY <1>1, <1>5 DEF Busy
  <2> QED
    BY <1>1, <1>5, <2>1 DEF FirstImage, Busy
<1> QED
  BY <1>3, <1>4, <1>5 DEF FirstImage

LEMMA ImportKeepsRows ==
    ASSUME Typed, Placed, GraffitiRowsShown, FirstImage,
           NEW r \in Requests, NEW p \in Streamables, NEW g \in Guids, Import(r, p, g)
    PROVE  GraffitiRowsShown' /\ FirstImage'
<1>1. /\ target[g] = NoPlace /\ \A h \in Guids : target[h] # p
      /\ refs' = [refs EXCEPT ![p] = g] /\ asset' = [asset EXCEPT ![g] = "COMPLETED"]
      /\ target' = [target EXCEPT ![g] = p]
      /\ req' = req
  BY DEF Import, Unborn
<1>2. /\ target'[g] = p
      /\ \A h \in Guids \ {g} : target'[h] = target[h] /\ asset'[h] = asset[h]
      /\ p \in Places /\ refs'[p] = g /\ \A q \in Places \ {p} : refs'[q] = refs[q]
  BY <1>1 DEF Typed, DataTyped, Places
<1>3. GraffitiRowsShown'
  BY <1>1, <1>2 DEF GraffitiRowsShown, Places
<1>4. ASSUME NEW k \in Streamables, refs'[k] = NoGuid, NEW h \in Guids, NEW i \in Guids,
             target'[h] = k, target'[i] = k
      PROVE  h = i
  <2>1. k # p
    BY <1>2, <1>4, GuidsAssumption
  <2> QED
    BY <1>2, <1>4, <2>1 DEF FirstImage, Places
<1>5. ASSUME NEW s \in Requests, NEW k, k = req'[s].place, Busy(s, "commit")', k \in Streamables,
             req'[s].snap[k] = NoGuid
      PROVE  refs'[k] = NoGuid
  <2>1. Busy(s, "commit") /\ k = req[s].place /\ req[s].snap[k] = NoGuid
    BY <1>1, <1>5 DEF Busy
  <2>2. k # p
    BY <1>1, <2>1, RequestKnown DEF Busy, UploadPcs, Typed
  <2> QED
    BY <1>2, <1>5, <2>1, <2>2 DEF FirstImage, Places
<1> QED
  BY <1>3, <1>4, <1>5 DEF FirstImage

(* The version of the replaced row makes the second of two edits fail.     *)
LEMMA CommitKeepsRows ==
    ASSUME Typed, Alone, Placed, GraffitiRowsShown, FirstImage, NEW r \in Requests, Commit(r)
    PROVE  GraffitiRowsShown' /\ FirstImage'
<1> DEFINE p == req[r].place
           g == req[r].guid
           old == req[r].snap[p]
<1>1. /\ Busy(r, "commit") /\ VersionUnchanged(r)
      /\ refs' = WriteRow(p, [req[r].snap EXCEPT ![p] = g])
      /\ asset' = [h \in Guids |-> CASE h = g -> "PROCESSING" [] h = old -> "none" [] OTHER -> asset[h]]
      /\ target' = target
      /\ req' = [req EXCEPT ![r].pc = "enqueue"]
  BY DEF Commit, CommitOK
<1>2. /\ p \in Places /\ g \in Guids /\ target[g] = p
      /\ req[r].snap \in [Places -> MaybeGuid]
      /\ old # NoGuid => target[old] = p /\ asset[old] # "none"
  <2>1. /\ p \in Places /\ g \in Guids /\ target[g] = p /\ req[r].snap \in [Places -> MaybeGuid]
    BY <1>1, RequestKnown DEF Busy, UploadPcs, Typed
  <2> QED
    BY <1>1, <2>1 DEF VersionUnchanged, Placed
<1>3. g # old
  BY <1>1, <1>2 DEF Placed, Fresh, Busy
<1>4. \A h \in Guids \ {g} : asset'[h] = IF h = old THEN "none" ELSE asset[h]
  BY <1>1, <1>3
<1>5. /\ refs'[p] = g
      /\ \A q \in Streamables \ {p} : refs'[q] = refs[q]
  BY <1>1, <1>2, PlacesAssumption DEF WriteRow, RowOf, Places
<1>6. \A s \in Requests : /\ req'[s].snap = req[s].snap /\ req'[s].place = req[s].place
                          /\ req'[s].pc = IF s = r THEN "enqueue" ELSE req[s].pc
  BY <1>1 DEF Typed, RequestsTyped, RequestType
<1> HIDE DEF p, g, old
<1>7. ASSUME p \in Streamables PROVE old = refs[p] /\ (refs[p] = NoGuid => \A h \in Guids \ {g} : target[h] # p)
  <2>1. CASE old = NoGuid
    BY <1>1, <1>2, <1>7, <2>1 DEF FirstImage, p, g, old
  <2>2. CASE old # NoGuid
    <3>1. old \in Guids
      BY <1>2, <2>2 DEF MaybeGuid, old
    <3> QED
      BY <1>2, <1>7, <2>2, <3>1 DEF GraffitiRowsShown
  <2> QED
    BY <2>1, <2>2
<1>8. ASSUME NEW h \in Guids, asset'[h] # "none", target'[h] \in Streamables
      PROVE  refs'[target'[h]] = h
  <2>1. CASE h = g
    BY <1>1, <1>2, <1>5, <2>1
  <2>2. CASE h # g
    <3>1. h # old /\ asset[h] # "none" /\ refs[target[h]] = h
      BY <1>1, <1>4, <1>8, <2>2 DEF GraffitiRowsShown
    <3>2. target[h] # p
      BY <1>1, <1>7, <1>8, <3>1
    <3> QED
      BY <1>1, <1>5, <1>8, <3>1, <3>2
  <2> QED
    BY <2>1, <2>2
<1>9. ASSUME NEW k \in Streamables, refs'[k] = NoGuid, NEW h \in Guids, NEW i \in Guids,
             target'[h] = k, target'[i] = k
      PROVE  h = i
  <2>1. k # p
    BY <1>2, <1>5, <1>9, GuidsAssumption
  <2> QED
    BY <1>1, <1>5, <1>9, <2>1 DEF FirstImage
<1>10. ASSUME NEW s \in Requests, NEW k, k = req'[s].place, Busy(s, "commit")', k \in Streamables,
              req'[s].snap[k] = NoGuid
       PROVE  refs'[k] = NoGuid
  <2>1. s # r /\ Busy(s, "commit") /\ k = req[s].place /\ req[s].snap[k] = NoGuid
    BY <1>6, <1>10 DEF Busy
  <2>2. refs[k] = NoGuid
    BY <1>10, <2>1 DEF FirstImage
  <2>3. req[s].guid \in Guids /\ target[req[s].guid] = k /\ req[s].guid # g
    BY <1>1, <2>1, RequestKnown DEF Busy, UploadPcs, Typed, Alone, Uploading, g
  <2>4. k # p
    BY <1>2, <1>10, <2>2, <2>3 DEF FirstImage
  <2> QED
    BY <1>5, <1>10, <2>2, <2>4
<1> QED
  BY <1>8, <1>9, <1>10 DEF GraffitiRowsShown, FirstImage

LEMMA MergeKeepsRows ==
    ASSUME Typed, Placed, GraffitiRowsShown, FirstImage, NEW r \in Requests, Merge(r)
    PROVE  GraffitiRowsShown' /\ FirstImage'
<1>1. target' = target /\ req' = [req EXCEPT ![r].pc = "eraseStd"]
  BY DEF Merge
<1>2. \A s \in Requests : /\ req'[s].snap = req[s].snap /\ req'[s].place = req[s].place
                          /\ req'[s].pc = IF s = r THEN "eraseStd" ELSE req[s].pc
  BY <1>1 DEF Typed, RequestsTyped, RequestType
<1>3. \A q \in Streamables : refs'[q] = refs[q]
  BY MergeWrites, PlacesAssumption DEF Places
<1>4. ASSUME NEW h \in Guids, asset'[h] # "none", target'[h] \in Streamables
      PROVE  refs'[target'[h]] = h
  <2>1. ASSUME NEW q \in UserFields, refs'[q] = h PROVE FALSE
    <3>1. q \in Places /\ req[r].snap[q] = h
      BY <2>1, MergeWrites, GuidsAssumption DEF Places
    <3>2. target[h] = q
      BY <3>1, GuidsAssumption DEF Placed
    <3> QED
      BY <1>1, <1>4, <3>2, PlacesAssumption
  <2>2. asset[h] # "none"
    BY <1>4, <2>1, MergeWrites
  <2> QED
    BY <1>1, <1>3, <1>4, <2>2 DEF GraffitiRowsShown
<1>5. ASSUME NEW s \in Requests, NEW k, k = req'[s].place, Busy(s, "commit")', k \in Streamables,
             req'[s].snap[k] = NoGuid
      PROVE  refs'[k] = NoGuid
  <2>1. Busy(s, "commit") /\ k = req[s].place /\ req[s].snap[k] = NoGuid
    BY <1>2, <1>5 DEF Busy
  <2> QED
    BY <1>3, <1>5, <2>1 DEF FirstImage
<1> QED
  BY <1>1, <1>3, <1>4, <1>5 DEF GraffitiRowsShown, FirstImage


LEMMA NextRows ==
    Typed /\ Alone /\ Placed /\ GraffitiRowsShown /\ FirstImage /\ [Next]_vars =>
        GraffitiRowsShown' /\ FirstImage'
<1> SUFFICES ASSUME Typed, Alone, Placed, GraffitiRowsShown, FirstImage, [Next]_vars
             PROVE  GraffitiRowsShown' /\ FirstImage'
  OBVIOUS
<1>1. CASE UNCHANGED vars
  BY <1>1 DEF vars, GraffitiRowsShown, FirstImage, Busy
<1>2. ASSUME NEW r \in Requests, Quiet(r) PROVE GraffitiRowsShown' /\ FirstImage'
  <2>1. CASE ReadRow(r)
    <3>1. Busy(r, "read") /\ req[r].place \in Places
      BY <2>1, RequestKnown DEF ReadRow, Busy, Typed
    <3>2. UNCHANGED <<refs, asset, target>> /\ req'[r].snap[req'[r].place] = refs[req'[r].place]
      BY <2>1, <3>1, SnapTyped DEF ReadRow, db, history, Typed, RequestsTyped, RequestType
    <3> QED
      BY <1>2, <3>2, QuietMoves, UnwrittenKeepsRows DEF Busy
  <2>2. CASE \E p \in UserFields : LoadUser(r, p)
    <3>1. UNCHANGED <<refs, asset, target>> /\ req'[r].pc = "merge"
      BY <2>2 DEF LoadUser, db, history, Typed, RequestsTyped
    <3> QED
      BY <1>2, <3>1, QuietMoves, UnwrittenKeepsRows DEF Busy
  <2>3. CASE RejectEdit(r) \/ CommitFails(r) \/ MergeFails(r) \/ EraseStd(r) \/ EraseThumb(r) \/ EraseFails(r)
    <3>1. UNCHANGED <<refs, asset, target>> /\ (req' = Idle(r) \/ req' = [req EXCEPT ![r].pc = "eraseThumb"])
      BY <2>3 DEF RejectEdit, CommitFails, MergeFails, EraseStd, EraseThumb, EraseFails, db, history
    <3>2. ~Busy(r, "commit")'
      BY <3>1 DEF Busy, Idle, IdleRequest, Typed, RequestsTyped, RequestType
    <3> QED
      BY <1>2, <3>1, <3>2, QuietMoves, UnwrittenKeepsRows DEF Busy
  <2> QED
    BY <1>2, <2>1, <2>2, <2>3, ImportKeepsRows, CommitKeepsRows, MergeKeepsRows DEF Quiet
<1>3. ASSUME NEW r \in Requests, Enqueue(r) PROVE GraffitiRowsShown' /\ FirstImage'
  <2>1. UNCHANGED <<refs, asset, target>>
    BY <1>3 DEF Enqueue, db, history
  <2>2. \A s \in Requests : Busy(s, "commit")' => req'[s] = req[s]
    BY <1>3 DEF Enqueue, Busy, Idle, IdleRequest, Typed, RequestsTyped
  <2> QED
    BY <2>1, <2>2, UnwrittenKeepsRows DEF Busy
<1>4. ASSUME NEW w \in Workers, Generate(w) \/ GenerateFails(w) \/ Working(w)
      PROVE  GraffitiRowsShown' /\ FirstImage'
  <2>1. UNCHANGED <<refs, target, req>> /\ \A g \in Guids : asset'[g] = "none" <=> asset[g] = "none"
    BY <1>4, WorkersWrite
  <2> QED
    BY <2>1, UnwrittenKeepsRows DEF Busy
<1>5. ASSUME Restart PROVE GraffitiRowsShown' /\ FirstImage'
  <2>1. UNCHANGED <<refs, asset, target>> /\ \A s \in Requests : ~Busy(s, "commit")'
    BY <1>5 DEF Restart, Busy, IdleRequest, db, history
  <2> QED
    BY <2>1, UnwrittenKeepsRows
<1> QED
  BY <1>1, <1>2, <1>3, <1>4, <1>5, Kinds, UploadKeepsRows

(* However edits of a graffiti overlap, one row is left: the version of    *)
(* the replaced asset makes all but one of them fail.                      *)
THEOREM GraffitiRowsStayShown == Spec => []GraffitiRowsShown
<1>1. Spec => [](GraffitiRowsShown /\ FirstImage)
  BY AlwaysPlaced, InitRows, NextRows, PTL DEF Spec
<1> QED
  BY <1>1, PTL


------------------------------------------------------------------------------
(* A finished image has its objects.                                       *)

(* The images of ImagesStored (and the imported ones).                     *)
Lasting == Shown \ revived
Stored(g, part) == <<g, part>> \in store

(* What a thread has stored of the image it works on.                      *)
WorkStored(k) ==
    k.guid \in Lasting =>
        /\ k.step # "std" => Stored(k.guid, "std")
        /\ k.step \notin {"std", "thumb"} => Stored(k.guid, "thumb")

(* What a request has erased, is about to erase or has recorded for a job  *)
(* to erase is no such image, and neither is what a job erases.            *)
ErasesHidden(q) ==
    /\ q.pc \in {"eraseStd", "eraseThumb"} => q.guid \notin Lasting
    /\ q.pc = "read" => prevOf[q.guid] = NoGuid
    /\ q.pc \in {"commit", "enqueue"} => prevOf[q.guid] \in {NoGuid, q.snap[q.place]}
    /\ q.pc = "enqueue" => q.snap[q.place] \notin Lasting

Hidden ==
    /\ \A r \in Requests : ErasesHidden(req[r])
    /\ \A n \in Queued : prevOf[n] \notin Lasting
    /\ \A w \in Workers : worker[w].guid # NoGuid => prevOf[worker[w].guid] \notin Lasting
    /\ \A g \in Guids : target[g] = NoPlace => prevOf[g] = NoGuid

StoredInv == ImagesStored /\ \A w \in Workers : WorkStored(worker[w])

\* the only images that come to be shown for good are those of a commit
OnlyFreshShown == \A x \in Lasting' : x \in Lasting \/ (x \in Guids /\ Fresh(x))

LEMMA LastingGuids == Typed => Lasting \subseteq Guids /\ NoGuid \notin Lasting
BY GuidsAssumption DEF Typed, DataTyped, Lasting, Shown, MaybeGuid

LEMMA InitStored == Init => Hidden /\ StoredInv
<1> SUFFICES ASSUME Init PROVE Hidden /\ StoredInv
  OBVIOUS
<1>1. Lasting = {} /\ Shown = {} /\ Queued = {}
  BY DEF Init, Lasting, Shown, NoRefs, Queued
<1>2. \A r \in Requests : req[r].pc = "idle"
  BY DEF Init, IdleRequest
<1>3. \A w \in Workers : worker[w].guid = NoGuid
  BY DEF Init, IdleWorker
<1> QED
  BY <1>1, <1>2, <1>3 DEF Init, Hidden, StoredInv, ImagesStored, WorkStored, ErasesHidden

LEMMA HiddenKept ==
    ASSUME Typed, Alone, Placed, Hidden, OnlyFreshShown, TargetsKept, NoGuid \notin Lasting',
           \A s \in Requests : req'[s] = req[s] \/ ErasesHidden(req[s])',
           \A n \in Guids : \/ prevOf'[n] \in {prevOf[n], NoGuid}
                            \/ \E r \in Requests : Uploading(r) /\ req[r].guid = n /\ req'[r] # req[r],
           \A n \in Queued' : n \in Queued \/ prevOf'[n] \notin Lasting',
           \A w \in Workers : worker'[w].guid \in Queued \cup {worker[w].guid, NoGuid}
    PROVE  Hidden'
<1>1. Queued \subseteq Guids
  BY DEF Queued, Typed, DataTyped
<1>2. \A n \in Guids : (\A r \in Requests : Uploading(r) /\ req'[r] # req[r] => req[r].guid # n) =>
                          prevOf'[n] \in {prevOf[n], NoGuid}
  OBVIOUS
<1>3. ASSUME NEW n \in Guids, prevOf'[n] \in {prevOf[n], NoGuid}, prevOf[n] \notin Lasting
      PROVE  prevOf'[n] \notin Lasting'
  BY <1>3 DEF OnlyFreshShown, Fresh
<1>4. ASSUME NEW n \in Queued PROVE prevOf'[n] \notin Lasting'
  <2>1. \A r \in Requests : Uploading(r) => req[r].guid # n
    BY DEF Alone
  <2> QED
    BY <1>1, <1>2, <1>3, <2>1 DEF Hidden
<1>5. ASSUME NEW w \in Workers, worker'[w].guid # NoGuid PROVE prevOf'[worker'[w].guid] \notin Lasting'
  <2>1. CASE worker'[w].guid \in Queued
    BY <1>4, <2>1
  <2>2. CASE worker'[w].guid = worker[w].guid
    <3>1. worker[w].guid \in Guids /\ \A r \in Requests : Uploading(r) => req[r].guid # worker[w].guid
      BY <1>5, <2>2, WorkerKnown DEF Alone, Typed, Works, Step
    <3> QED
      BY <1>2, <1>3, <1>5, <2>2, <3>1 DEF Hidden
  <2> QED
    BY <1>5, <2>1, <2>2
<1>6. ASSUME NEW g \in Guids, target'[g] = NoPlace PROVE prevOf'[g] = NoGuid
  <2>1. target[g] = NoPlace
    BY <1>6 DEF TargetsKept
  <2>2. \A r \in Requests : Uploading(r) => req[r].guid # g
    BY <2>1, RequestKnown, PlacesAssumption DEF Uploading, UploadPcs, Busy, Typed, Places
  <2> QED
    BY <1>2, <2>1, <2>2 DEF Hidden
<1>7. ASSUME NEW s \in Requests, req'[s] = req[s] PROVE ErasesHidden(req[s])'
  <2>1. ErasesHidden(req[s])
    BY DEF Hidden
  <2>2. req[s].pc \in {"eraseStd", "eraseThumb"} => req'[s].guid \notin Lasting'
    <3>1. req[s].pc \in {"eraseStd", "eraseThumb"} =>
              req[s].place \in Places /\ req[s].guid = req[s].snap[req[s].place]
      BY RequestKnown DEF DeletePcs, Typed, Places
    <3> QED
      BY <1>7, <2>1, <3>1 DEF ErasesHidden, OnlyFreshShown, Fresh
  <2>3. Uploading(s) => req[s].guid \in Guids /\ req[s].place \in Places
                        /\ prevOf'[req[s].guid] \in {prevOf[req[s].guid], NoGuid}
    <3>1. \A r \in Requests : Uploading(s) /\ Uploading(r) /\ req'[r] # req[r] => req[r].guid # req[s].guid
      BY <1>7 DEF Alone
    <3> QED
      BY <1>2, <3>1, RequestKnown DEF Uploading, UploadPcs, Busy, Typed
  <2>4. req[s].pc = "enqueue" => req[s].snap[req[s].place] \notin Lasting'
    BY <2>1, <2>3 DEF ErasesHidden, OnlyFreshShown, Fresh, Uploading, UploadPcs
  <2> QED
    BY <1>7, <2>1, <2>2, <2>3, <2>4 DEF ErasesHidden, Uploading, UploadPcs
<1> QED
  BY <1>4, <1>5, <1>6, <1>7 DEF Hidden

LEMMA StoredKept ==
    ASSUME Typed, StoredInv, OnlyFreshShown, imported \subseteq imported', revived \subseteq revived',
           \A x \in Lasting \cap Lasting' :
               /\ \A part \in Parts : Stored(x, part) => Stored(x, part)'
               /\ asset'[x] \in {asset[x], "none"} \/ \A part \in Parts : Stored(x, part)',
           \A x \in Guids : Fresh(x) /\ x \in Lasting' =>
               /\ asset'[x] # "COMPLETED" \/ x \in imported'
               /\ \A w \in Workers : worker[w].guid # x,
           \A w \in Workers : worker'[w] = worker[w] \/ WorkStored(worker[w])'
    PROVE  StoredInv'
<1>1. Parts = {"std", "thumb"}
  BY DEF Parts
<1>2. ASSUME NEW w \in Workers, worker'[w] = worker[w] PROVE WorkStored(worker[w])'
  <2> DEFINE x == worker[w].guid
  <2>1. CASE x \notin Lasting'
    BY <1>2, <2>1 DEF WorkStored
  <2>2. CASE x \in Lasting'
    <3>1. x \in Lasting
      BY <2>2 DEF OnlyFreshShown
    <3>2. WorkStored(worker[w])
      BY DEF StoredInv
    <3> QED
      BY <1>1, <1>2, <2>2, <3>1, <3>2 DEF WorkStored
  <2> QED
    BY <2>1, <2>2
<1>3. ASSUME NEW x \in Lasting', x \notin imported', asset'[x] = "COMPLETED"
      PROVE  \A part \in Parts : Stored(x, part)'
  <2>1. x \in Lasting
    BY <1>3 DEF OnlyFreshShown
  <2>2. CASE asset'[x] = asset[x]
    <3>1. x \in Shown \ (imported \cup revived)
      BY <1>3, <2>1 DEF Lasting
    <3>2. {x} \X Parts \subseteq store
      BY <1>3, <2>2, <3>1 DEF StoredInv, ImagesStored
    <3> QED
      BY <1>3, <2>1, <3>2 DEF Stored
  <2>3. CASE asset'[x] # asset[x]
    BY <1>3, <2>1, <2>3
  <2> QED
    BY <2>2, <2>3
<1>4. ImagesStored'
  BY <1>3 DEF ImagesStored, Lasting, Stored
<1> QED
  BY <1>2, <1>4 DEF StoredInv


LEMMA NothingShown ==
    ASSUME Typed, UNCHANGED <<refs, revived>>
    PROVE  Lasting' = Lasting /\ OnlyFreshShown /\ NoGuid \notin Lasting'
<1>1. Lasting' = Lasting
  BY DEF Lasting, Shown
<1> QED
  BY <1>1, LastingGuids DEF OnlyFreshShown

(* Steps of requests that write no row, and what they say of themselves.   *)
LEMMA UnwrittenKeepsStored ==
    ASSUME Typed, Alone, Placed, Hidden, StoredInv, TargetsKept,
           UNCHANGED <<refs, asset, imported, revived, queue, worker>>, NEW r \in Requests,
           \A s \in Requests \ {r} : req'[s] = req[s],
           ErasesHidden(req[r])',
           \A n \in Guids : prevOf'[n] = prevOf[n] \/ (Uploading(r) /\ req[r].guid = n /\ req'[r] # req[r]),
           \A x \in Lasting : \A part \in Parts : Stored(x, part) => Stored(x, part)'
    PROVE  Hidden' /\ StoredInv'
<1>1. Lasting' = Lasting /\ OnlyFreshShown /\ NoGuid \notin Lasting'
  BY NothingShown
<1>2. Queued' = Queued
  BY DEF Queued
<1>3. Hidden'
  BY <1>1, <1>2, HiddenKept
<1>4. \A x \in Guids : Fresh(x) => x \notin Lasting'
  BY <1>1, FreshGuid, GuidsAssumption DEF Lasting, Shown
<1>5. StoredInv'
  BY <1>1, <1>4, StoredKept
<1> QED
  BY <1>3, <1>5

LEMMA UploadKeepsStored ==
    ASSUME Typed, Alone, Placed, Hidden, StoredInv,
           NEW r \in Requests, NEW p \in Places, NEW g \in Guids, Upload(r, p, g)
    PROVE  Hidden' /\ StoredInv'
<1>1. /\ UNCHANGED <<refs, asset, imported, revived, queue, worker, store, prevOf>>
      /\ target[g] = NoPlace /\ target' = [target EXCEPT ![g] = p]
      /\ \A s \in Requests \ {r} : req'[s] = req[s]
      /\ req'[r].pc = "read" /\ req'[r].guid = g
  BY DEF Upload, Typed, RequestsTyped, RequestType, IdleRequest, db
<1>2. TargetsKept
  BY <1>1 DEF TargetsKept, Typed, DataTyped
<1>3. ErasesHidden(req[r])'
  BY <1>1 DEF ErasesHidden, Hidden
<1>4. \A x \in Lasting : \A part \in Parts : Stored(x, part) => Stored(x, part)'
  BY <1>1 DEF Stored
<1> QED
  BY <1>1, <1>2, <1>3, <1>4, UnwrittenKeepsStored

LEMMA ReadRowKeepsStored ==
    ASSUME Typed, Alone, Placed, Hidden, StoredInv, NEW r \in Requests, ReadRow(r), Quiet(r)
    PROVE  Hidden' /\ StoredInv'
<1> DEFINE p == req[r].place
           g == req[r].guid
<1>1. /\ Busy(r, "read") /\ g \in Guids /\ p \in Places /\ Uploading(r)
      /\ prevOf[g] = NoGuid
  BY RequestKnown DEF ReadRow, Busy, Uploading, UploadPcs, Typed, Hidden, ErasesHidden
<1>2. /\ UNCHANGED <<refs, asset, imported, revived, store>>
      /\ req'[r].pc = "commit" /\ req'[r].snap = Snap(p) /\ req'[r].guid = g /\ req'[r].place = p
      /\ prevOf' = IF p \in UserFields THEN Mapped(g, refs[p]) ELSE prevOf
  BY DEF ReadRow, db, history, Typed, RequestsTyped, RequestType
<1>3. Snap(p)[p] = refs[p]
  BY <1>1, SnapTyped DEF Typed
<1>4. /\ prevOf'[g] \in {NoGuid, refs[p]}
      /\ \A n \in Guids \ {g} : prevOf'[n] = prevOf[n]
  BY <1>1, <1>2 DEF Mapped, Typed, DataTyped
<1>5. ErasesHidden(req[r])'
  BY <1>1, <1>2, <1>3, <1>4 DEF ErasesHidden
<1>6. req'[r] # req[r]
  BY <1>1, <1>2 DEF Busy
<1>7. \A x \in Lasting : \A part \in Parts : Stored(x, part) => Stored(x, part)'
  BY <1>2 DEF Stored
<1> HIDE DEF p, g
<1>8. \A n \in Guids : prevOf'[n] = prevOf[n] \/ (Uploading(r) /\ req[r].guid = n /\ req'[r] # req[r])
  BY <1>1, <1>4, <1>6 DEF g
<1> QED
  BY <1>2, <1>5, <1>7, <1>8, QuietMoves, UnwrittenKeepsStored

LEMMA OtherQuietKeepsStored ==
    ASSUME Typed, Alone, Placed, Hidden, StoredInv, NEW r \in Requests, Quiet(r),
           \/ \E p \in UserFields : LoadUser(r, p)
           \/ RejectEdit(r) \/ CommitFails(r) \/ MergeFails(r) \/ EraseStd(r) \/ EraseThumb(r) \/ EraseFails(r)
    PROVE  Hidden' /\ StoredInv'
<1>1. UNCHANGED <<refs, asset, imported, revived, prevOf>>
  BY DEF LoadUser, RejectEdit, CommitFails, MergeFails, EraseStd, EraseThumb, EraseFails, db, history
<1>2. \/ req'[r].pc \in {"idle", "merge"}
      \/ EraseStd(r) /\ req'[r].pc = "eraseThumb" /\ req'[r].guid = req[r].guid /\ Busy(r, "eraseStd")
  BY DEF LoadUser, RejectEdit, CommitFails, MergeFails, EraseStd, EraseThumb, EraseFails, Idle, IdleRequest,
         Typed, RequestsTyped, RequestType
<1>3. ErasesHidden(req[r])'
  <2>1. CASE req'[r].pc \in {"idle", "merge"}
    BY <2>1 DEF ErasesHidden
  <2>2. CASE req'[r].pc = "eraseThumb" /\ req'[r].guid = req[r].guid /\ Busy(r, "eraseStd")
    <3>1. req[r].guid \notin Lasting
      BY <2>2 DEF Hidden, ErasesHidden, Busy
    <3> QED
      BY <1>1, <2>2, <3>1, NothingShown DEF ErasesHidden
  <2> QED
    BY <1>2, <2>1, <2>2
<1>4. \/ store' = store
      \/ /\ req[r].pc \in {"eraseStd", "eraseThumb"}
         /\ store' \in {store \ {<<req[r].guid, part>>} : part \in Parts}
  BY DEF LoadUser, RejectEdit, CommitFails, MergeFails, EraseStd, EraseThumb, EraseFails, Busy, Parts
<1>5. \A x \in Lasting : \A part \in Parts : Stored(x, part) => Stored(x, part)'
  BY <1>4 DEF Stored, Hidden, ErasesHidden
<1> QED
  BY <1>1, <1>3, <1>5, QuietMoves, UnwrittenKeepsStored


LEMMA ImportKeepsStored ==
    ASSUME Typed, Typed', Alone, Placed, Hidden, StoredInv,
           NEW r \in Requests, NEW p \in Streamables, NEW g \in Guids, Import(r, p, g), Quiet(r)
    PROVE  Hidden' /\ StoredInv'
<1>1. /\ target[g] = NoPlace /\ refs' = [refs EXCEPT ![p] = g]
      /\ asset' = [asset EXCEPT ![g] = "COMPLETED"] /\ imported' = imported \cup {g}
      /\ UNCHANGED <<store, prevOf, queue, worker, req, revived>>
  BY DEF Import
<1>2. Fresh(g)
  BY <1>1 DEF Placed
<1>3. \A x \in Lasting' : x \in Lasting \/ x = g
  <2>1. \A q \in Places : refs'[q] \in {refs[q], g}
    BY <1>1 DEF Typed, DataTyped
  <2> QED
    BY <1>1, <2>1 DEF Lasting, Shown
<1>4. OnlyFreshShown /\ NoGuid \notin Lasting'
  BY <1>2, <1>3, GuidsAssumption, LastingGuids DEF OnlyFreshShown
<1>5. Hidden'
  <2>1. Queued' = Queued
    BY <1>1 DEF Queued
  <2> QED
    BY <1>1, <1>4, <2>1, QuietMoves, HiddenKept
<1>6. \A x \in Lasting : x # g
  BY <1>2, FreshGuid DEF Lasting, Shown
<1>7. ASSUME NEW x \in Guids, Fresh(x), x \in Lasting'
      PROVE  x \in imported' /\ \A w \in Workers : worker[w].guid # x
  <2>1. x = g
    BY <1>3, <1>7, FreshGuid DEF Lasting, Shown
  <2> QED
    BY <1>1, <2>1, GuidsAssumption DEF Alone
<1>8. ASSUME NEW x \in Lasting \cap Lasting'
      PROVE  asset'[x] = asset[x] /\ \A part \in Parts : Stored(x, part) => Stored(x, part)'
  BY <1>1, <1>6, <1>8, LastingGuids DEF Stored, Typed, DataTyped
<1>9. StoredInv'
  BY <1>1, <1>4, <1>7, <1>8, StoredKept
<1> QED
  BY <1>5, <1>9

LEMMA CommitKeepsStored ==
    ASSUME Typed, Typed', Alone, Placed, Placed', Hidden, StoredInv, NEW r \in Requests, Commit(r), Quiet(r)
    PROVE  Hidden' /\ StoredInv'
<1> DEFINE p == req[r].place
           g == req[r].guid
           old == req[r].snap[p]
<1>1. /\ Busy(r, "commit")
      /\ refs' = WriteRow(p, [req[r].snap EXCEPT ![p] = g])
      /\ asset' = [h \in Guids |-> CASE h = g -> "PROCESSING" [] h = old -> "none" [] OTHER -> asset[h]]
      /\ revived' = revived \cup Returned(p, req[r].snap)
      /\ UNCHANGED <<imported, store, prevOf, target, queue, worker>>
      /\ req' = [req EXCEPT ![r].pc = "enqueue"]
  BY DEF Commit
<1>2. /\ p \in Places /\ g \in Guids /\ target[g] = p /\ Uploading(r)
      /\ req[r].snap \in [Places -> MaybeGuid]
      /\ Fresh(g)
  BY <1>1, RequestKnown DEF Busy, Uploading, UploadPcs, Typed, Placed
<1>3. g # old /\ (old # NoGuid => target[old] = p /\ old \in Guids)
  BY <1>2 DEF Placed, Fresh, MaybeGuid
<1>4. /\ \A q \in Places : refs'[q] = IF q = p THEN g ELSE IF q \in RowOf(p) THEN req[r].snap[q] ELSE refs[q]
      /\ p \in RowOf(p) /\ RowOf(p) \subseteq Places
  BY <1>1, <1>2 DEF WriteRow, RowOf, Places
<1>5. /\ req'[r].pc = "enqueue" /\ req'[r].guid = g /\ req'[r].place = p /\ req'[r].snap = req[r].snap
      /\ \A s \in Requests \ {r} : req'[s] = req[s]
  BY <1>1 DEF Typed, RequestsTyped, RequestType
<1> HIDE DEF p, g, old
<1>6. ASSUME NEW x \in Lasting' PROVE x \in Lasting \/ x = g
  <2>1. PICK q \in Places : x = refs'[q] /\ x # NoGuid /\ x \notin revived'
    BY <1>6 DEF Lasting, Shown
  <2>2. CASE q = p
    BY <1>4, <2>1, <2>2
  <2>3. CASE q # p /\ q \in RowOf(p)
    <3>1. x = req[r].snap[q]
      BY <1>4, <2>1, <2>3
    <3>2. x = refs[q]
      BY <1>1, <2>1, <2>3, <3>1 DEF Returned
    <3> QED
      BY <1>1, <2>1, <3>2 DEF Lasting, Shown
  <2>4. CASE q # p /\ q \notin RowOf(p)
    BY <1>1, <1>4, <2>1, <2>4 DEF Lasting, Shown
  <2> QED
    BY <2>2, <2>3, <2>4
<1>7. OnlyFreshShown /\ NoGuid \notin Lasting'
  BY <1>2, <1>6, GuidsAssumption, LastingGuids DEF OnlyFreshShown
<1>8. old \notin Lasting'
  <2> SUFFICES ASSUME old \in Lasting' PROVE FALSE
    OBVIOUS
  <2>1. PICK q \in Places : old = refs'[q] /\ old # NoGuid
    BY DEF Lasting, Shown
  <2>2. target'[old] = q
    BY <2>1 DEF Placed
  <2> QED
    BY <1>1, <1>3, <1>4, <2>1, <2>2
<1>9. ErasesHidden(req[r])'
  <2>1. prevOf[g] \in {NoGuid, old}
    BY <1>1 DEF Hidden, ErasesHidden, Busy, g, old, p
  <2>2. req'[r].snap[p] = old
    BY <1>5 DEF old, p
  <2> QED
    BY <1>1, <1>5, <1>8, <2>1, <2>2 DEF ErasesHidden
<1>10. Hidden'
  <2>1. Queued' = Queued
    BY <1>1 DEF Queued
  <2> QED
    BY <1>1, <1>5, <1>7, <1>9, <2>1, QuietMoves, HiddenKept
<1>11. \A w \in Workers : worker[w].guid # g
  BY <1>2 DEF Alone, g
<1>12. ASSUME NEW x \in Guids, Fresh(x), x \in Lasting'
       PROVE  asset'[x] # "COMPLETED" /\ \A w \in Workers : worker[w].guid # x
  <2>1. x = g
    BY <1>6, <1>12, FreshGuid DEF Lasting, Shown
  <2> QED
    BY <1>1, <1>2, <1>11, <2>1
<1>13. ASSUME NEW x \in Lasting \cap Lasting'
       PROVE  /\ asset'[x] \in {asset[x], "none"}
              /\ \A part \in Parts : Stored(x, part) => Stored(x, part)'
  <2>1. x \in Guids /\ x # g
    BY <1>2, <1>13, FreshGuid, LastingGuids DEF Lasting, Shown
  <2> QED
    BY <1>1, <1>3, <2>1 DEF Stored
<1>14. revived \subseteq revived'
  BY <1>1
<1>15. StoredInv'
  BY <1>1, <1>7, <1>12, <1>13, <1>14, StoredKept
<1> QED
  BY <1>10, <1>15

LEMMA MergeKeepsStored ==
    ASSUME Typed, Typed', Alone, Placed, Placed', Hidden, StoredInv, NEW r \in Requests, Merge(r), Quiet(r)
    PROVE  Hidden' /\ StoredInv'
<1> DEFINE p == req[r].place
           g == req[r].guid
<1>1. /\ req' = [req EXCEPT ![r].pc = "eraseStd"]
      /\ revived' = revived \cup Returned(p, [req[r].snap EXCEPT ![p] = NoGuid])
      /\ UNCHANGED <<imported, store, prevOf, target, queue, worker>>
  BY DEF Merge
<1>2. /\ p \in UserFields /\ p \in Places /\ g = req[r].snap[p] /\ UserFields \subseteq Places
      /\ req[r].snap \in [Places -> MaybeGuid] /\ Busy(r, "merge")
      /\ RowOf(p) = UserFields
  BY MergeWrites, RequestKnown DEF Typed, Places, RowOf
<1>3. /\ req'[r].pc = "eraseStd" /\ req'[r].guid = g
      /\ \A s \in Requests \ {r} : req'[s] = req[s]
  BY <1>1 DEF Typed, RequestsTyped, RequestType
<1>4. \A q \in Places : refs'[q] = IF q = p THEN NoGuid ELSE IF q \in UserFields THEN req[r].snap[q] ELSE refs[q]
  BY MergeWrites
<1>5. g # NoGuid => target[g] = p
  BY <1>2 DEF Placed
<1> HIDE DEF p, g
<1>6. ASSUME NEW x \in Lasting' PROVE x \in Lasting
  <2>1. PICK q \in Places : x = refs'[q] /\ x # NoGuid /\ x \notin revived'
    BY <1>6 DEF Lasting, Shown
  <2>2. CASE q \in UserFields
    <3>1. q # p /\ x = req[r].snap[q]
      BY <1>4, <2>1, <2>2
    <3>2. x = [req[r].snap EXCEPT ![p] = NoGuid][q]
      BY <1>2, <3>1
    <3>3. x = refs[q]
      BY <1>1, <1>2, <2>1, <2>2, <3>1, <3>2 DEF Returned
    <3> QED
      BY <1>1, <2>1, <3>3 DEF Lasting, Shown
  <2>3. CASE q \notin UserFields
    BY <1>1, <1>2, <1>4, <2>1, <2>3 DEF Lasting, Shown
  <2> QED
    BY <2>2, <2>3
<1>7. OnlyFreshShown /\ NoGuid \notin Lasting'
  BY <1>6, LastingGuids DEF OnlyFreshShown
<1>8. g \notin Lasting'
  <2> SUFFICES ASSUME g \in Lasting' PROVE FALSE
    OBVIOUS
  <2>1. PICK q \in Places : g = refs'[q] /\ g # NoGuid
    BY DEF Lasting, Shown
  <2>2. target'[g] = q
    BY <2>1 DEF Placed
  <2> QED
    BY <1>1, <1>4, <1>5, <2>1, <2>2
<1>9. ErasesHidden(req[r])'
  BY <1>3, <1>8 DEF ErasesHidden
<1>10. Hidden'
  <2>1. Queued' = Queued
    BY <1>1 DEF Queued
  <2> QED
    BY <1>1, <1>3, <1>7, <1>9, <2>1, QuietMoves, HiddenKept
<1>11. \A x \in Guids : Fresh(x) => x \notin Lasting'
  BY <1>6, FreshGuid DEF Lasting, Shown
<1>12. ASSUME NEW x \in Lasting \cap Lasting'
       PROVE  /\ asset'[x] \in {asset[x], "none"}
              /\ \A part \in Parts : Stored(x, part) => Stored(x, part)'
  <2>1. x \in Guids /\ asset[x] # "none"
    BY <1>12, LastingGuids DEF Lasting, Shown, Placed
  <2> QED
    BY <1>1, <2>1, MergeWrites DEF Stored
<1>13. revived \subseteq revived'
  BY <1>1
<1>14. StoredInv'
  BY <1>1, <1>7, <1>11, <1>12, <1>13, StoredKept
<1> QED
  BY <1>10, <1>14


LEMMA EnqueueKeepsStored ==
    ASSUME Typed, Alone, Placed, Hidden, StoredInv, NEW r \in Requests, Enqueue(r)
    PROVE  Hidden' /\ StoredInv'
<1> DEFINE p == req[r].place
           g == req[r].guid
           old == req[r].snap[p]
<1>1. /\ Busy(r, "enqueue") /\ queue' = Append(queue, g) /\ req' = Idle(r)
      /\ prevOf' = IF p \in Streamables THEN Mapped(g, old) ELSE prevOf
      /\ UNCHANGED <<refs, asset, imported, store, worker, target, revived>>
  BY DEF Enqueue, Submitted, db, history
<1>2. /\ p \in Places /\ g \in Guids /\ Uploading(r)
      /\ prevOf[g] \in {NoGuid, old} /\ old \notin Lasting
  BY <1>1, RequestKnown DEF Busy, Uploading, UploadPcs, Typed, Hidden, ErasesHidden
<1>3. /\ prevOf'[g] \in {NoGuid, old} /\ \A n \in Guids \ {g} : prevOf'[n] = prevOf[n]
  BY <1>1, <1>2 DEF Mapped, Typed, DataTyped
<1>4. /\ req'[r] = IdleRequest /\ IdleRequest.pc = "idle"
      /\ \A s \in Requests \ {r} : req'[s] = req[s]
  BY <1>1 DEF Idle, IdleRequest, Typed, RequestsTyped
<1> HIDE DEF p, g, old
<1>5. Lasting' = Lasting /\ OnlyFreshShown /\ NoGuid \notin Lasting'
  BY <1>1, NothingShown
<1>6. \A n \in Queued' : n \in Queued \/ prevOf'[n] \notin Lasting'
  <2>1. Queued' = Queued \cup {g}
    BY <1>1, <1>2, Appended DEF Typed, DataTyped
  <2> QED
    BY <1>2, <1>3, <1>5, <2>1
<1>7. ErasesHidden(req[r])' /\ req'[r] # req[r]
  BY <1>1, <1>4 DEF ErasesHidden, Busy
<1>8. \A n \in Guids : \/ prevOf'[n] \in {prevOf[n], NoGuid}
                       \/ \E s \in Requests : Uploading(s) /\ req[s].guid = n /\ req'[s] # req[s]
  BY <1>2, <1>3, <1>7 DEF g
<1>9. Hidden'
  BY <1>1, <1>4, <1>5, <1>6, <1>7, <1>8, HiddenKept DEF TargetsKept
<1>10. \A x \in Guids : Fresh(x) => x \notin Lasting'
  BY <1>5, FreshGuid DEF Lasting, Shown
<1>11. \A x \in Lasting : \A part \in Parts : Stored(x, part) => Stored(x, part)'
  BY <1>1 DEF Stored
<1>12. StoredInv'
  BY <1>1, <1>5, <1>10, <1>11, StoredKept
<1> QED
  BY <1>9, <1>12

(* The steps of the pool: what a thread stores, and then reports, is both  *)
(* objects of its image; what it erases is not shown.                      *)
LEMMA WorkersKeepHidden ==
    ASSUME Typed, Alone, Placed, Hidden, NEW w \in Workers, Generate(w) \/ GenerateFails(w) \/ Working(w)
    PROVE  Hidden' /\ Lasting' = Lasting /\ OnlyFreshShown
<1>1. Lasting' = Lasting /\ OnlyFreshShown /\ NoGuid \notin Lasting'
  BY WorkersWrite, NothingShown
<1>2. Queued' \subseteq Queued /\ \A v \in Workers : worker'[v].guid \in Queued \cup {worker[v].guid, NoGuid}
  <2>1. CASE Generate(w) \/ GenerateFails(w)
    <3>1. PICK g : g = Head(queue)
      OBVIOUS
    <3>2. Queued' = Queued \ {g} /\ g \in Queued
      BY <2>1, <3>1, Taken DEF Generate, GenerateFails, Typed, DataTyped, Alone
    <3>3. worker' = worker \/ worker' = [worker EXCEPT ![w] = [step |-> "std", guid |-> g]]
      BY <2>1, <3>1 DEF Generate, GenerateFails
    <3> QED
      BY <3>2, <3>3 DEF Typed, WorkersTyped
  <2>2. CASE Working(w)
    <3>1. queue' = queue
      BY <2>2
         DEF Working, UploadStd, UploadThumb, UploadFails, Complete, ErasePreviousStd, ErasePreviousThumb,
             ErasePreviousFails
    <3>2. \A v \in Workers : worker'[v].guid \in {worker[v].guid, NoGuid}
      BY <2>2, WorkingMoves DEF IdleWorker
    <3> QED
      BY <3>1, <3>2 DEF Queued
  <2> QED
    BY <2>1, <2>2
<1>3. /\ \A s \in Requests : req'[s] = req[s]
      /\ \A n \in Guids : prevOf'[n] \in {prevOf[n], NoGuid}
      /\ TargetsKept
  BY WorkersWrite DEF TargetsKept
<1>4. Hidden'
  BY <1>1, <1>2, <1>3, HiddenKept
<1> QED
  BY <1>1, <1>4

LEMMA WorkersKeepStored ==
    ASSUME Typed, Alone, Placed, Hidden, StoredInv, NEW w \in Workers,
           Generate(w) \/ GenerateFails(w) \/ Working(w)
    PROVE  Hidden' /\ StoredInv'
<1> DEFINE g == worker[w].guid
<1>1. Hidden' /\ Lasting' = Lasting /\ OnlyFreshShown
  BY WorkersKeepHidden
<1>2. imported' = imported /\ revived' = revived
  BY WorkersWrite
<1>3. \A x \in Guids : Fresh(x) => x \notin Lasting'
  BY <1>1, FreshGuid DEF Lasting, Shown
<1>4. \A v \in Workers \ {w} : worker'[v] = worker[v]
  <2>1. CASE Working(w)
    BY <2>1, WorkingMoves
  <2>2. CASE Generate(w) \/ GenerateFails(w)
    BY <2>2 DEF Generate, GenerateFails, Typed, WorkersTyped
  <2> QED
    BY <2>1, <2>2
<1>5. /\ WorkStored(worker[w])
      /\ Working(w) => g \in Guids /\ prevOf[g] \notin Lasting
  BY WorkingMoves, GuidsAssumption DEF StoredInv, Hidden
<1>6. ASSUME NEW x \in Lasting, NEW part \in Parts, Stored(x, part) PROVE Stored(x, part)'
  <2>1. CASE store \subseteq store'
    BY <1>6, <2>1 DEF Stored
  <2>2. CASE (ErasePreviousStd(w) \/ ErasePreviousThumb(w)) /\ ~(store \subseteq store')
    <3>1. Working(w) /\ \E k \in {"std", "thumb"} : store' = store \ {<<prevOf[g], k>>}
      BY <2>2 DEF ErasePreviousStd, ErasePreviousThumb, Previous, Working
    <3> QED
      BY <1>5, <1>6, <3>1 DEF Stored
  <2> QED
    BY <2>1, <2>2 DEF Generate, GenerateFails, Working, UploadStd, UploadThumb, UploadFails, Complete,
         ErasePreviousFails
<1>7. worker'[w] = worker[w] \/ WorkStored(worker[w])'
  <2>1. CASE Generate(w) \/ GenerateFails(w)
    <3>1. worker'[w] = worker[w] \/ worker'[w].step = "std"
      BY <2>1 DEF Generate, GenerateFails, Typed, WorkersTyped
    <3> QED
      BY <3>1 DEF WorkStored
  <2>2. CASE worker' = Free(w)
    <3>1. worker'[w].guid = NoGuid
      BY <2>2, WorkerEnds DEF IdleWorker, Typed
    <3> QED
      BY <1>1, <3>1, LastingGuids DEF WorkStored
  <2>3. CASE UploadStd(w)
    <3>1. /\ worker'[w].step = "thumb" /\ worker'[w].guid = g
          /\ <<g, "std">> \in store'
      BY <2>3, WorkerMoves DEF UploadStd, Step, WorkSteps, Typed
    <3> QED
      BY <3>1 DEF WorkStored, Stored
  <2>4. CASE UploadThumb(w)
    <3>1. /\ worker'[w].step = "complete" /\ worker'[w].guid = g /\ Step(w, "thumb")
          /\ <<g, "thumb">> \in store' /\ store \subseteq store'
      BY <2>4, WorkerMoves DEF UploadThumb, Step, WorkSteps, Typed
    <3> QED
      BY <1>1, <1>5, <3>1 DEF WorkStored, Stored, Step
  <2>5. ASSUME NEW step \in {"prevStd", "prevThumb"}, worker' = Moved(w, step),
               worker[w].step \in {"complete", "prevStd"}
        PROVE  WorkStored(worker[w])'
    <3>1. worker'[w].step = step /\ worker'[w].guid = g
      BY <2>5, WorkerMoves DEF Step, WorkSteps, Typed
    <3>2. "std" \in Parts /\ "thumb" \in Parts
      BY DEF Parts
    <3>3. g \in Lasting => {<<g, "std">>, <<g, "thumb">>} \subseteq store'
      BY <1>5, <1>6, <2>5, <3>2 DEF WorkStored, Stored
    <3> QED
      BY <1>1, <3>1, <3>3 DEF WorkStored, Stored
  <2> QED
    BY <2>1, <2>2, <2>3, <2>4, <2>5 DEF Working, UploadFails, Complete, ErasePreviousStd, ErasePreviousThumb,
         ErasePreviousFails, Step
<1>8. ASSUME NEW x \in Lasting PROVE asset'[x] \in {asset[x], "none"} \/ \A part \in Parts : Stored(x, part)'
  <2>1. CASE asset' = asset
    BY <2>1
  <2>2. CASE Complete(w) /\ x # g
    BY <2>2, <1>8, LastingGuids DEF Complete, Typed, DataTyped
  <2>3. CASE Complete(w) /\ x = g
    <3>1. \A part \in Parts : Stored(x, part)
      BY <1>5, <1>8, <2>3 DEF Complete, Step, WorkStored, Parts
    <3> QED
      BY <1>6, <1>8, <3>1
  <2> QED
    BY <2>1, <2>2, <2>3 DEF Generate, GenerateFails, Working, UploadStd, UploadThumb, UploadFails,
         ErasePreviousStd, ErasePreviousThumb, ErasePreviousFails, db
<1>9. StoredInv'
  <2>1. \A v \in Workers : worker'[v] = worker[v] \/ WorkStored(worker[v])'
    BY <1>4, <1>7
  <2> QED
    BY <1>1, <1>2, <1>3, <1>6, <1>8, <2>1, StoredKept
<1> QED
  BY <1>1, <1>9

LEMMA RestartKeepsStored ==
    Typed /\ Alone /\ Placed /\ Hidden /\ StoredInv /\ Restart => Hidden' /\ StoredInv'
<1> SUFFICES ASSUME Typed, Alone, Placed, Hidden, StoredInv, Restart PROVE Hidden' /\ StoredInv'
  OBVIOUS
<1>1. /\ UNCHANGED <<refs, asset, imported, store, target, revived>>
      /\ \A n \in Guids : prevOf'[n] = NoGuid
      /\ \A r \in Requests : req'[r].pc = "idle"
      /\ \A w \in Workers : worker'[w].guid = NoGuid
      /\ Queued' = {}
  BY DEF Restart, IdleRequest, IdleWorker, Queued, db, history
<1>2. Lasting' = Lasting /\ NoGuid \notin Lasting'
  BY <1>1, NothingShown
<1>3. Hidden'
  BY <1>1 DEF Hidden, ErasesHidden
<1>4. ImagesStored'
  BY <1>1 DEF StoredInv, ImagesStored, Shown
<1>5. \A w \in Workers : WorkStored(worker[w])'
  BY <1>1, <1>2 DEF WorkStored
<1> QED
  BY <1>3, <1>4, <1>5 DEF StoredInv

LEMMA NextStored ==
    Typed /\ Typed' /\ Alone /\ Placed /\ Placed' /\ Hidden /\ StoredInv /\ [Next]_vars => Hidden' /\ StoredInv'
<1> SUFFICES ASSUME Typed, Typed', Alone, Placed, Placed', Hidden, StoredInv, [Next]_vars
             PROVE  Hidden' /\ StoredInv'
  OBVIOUS
<1>1. CASE UNCHANGED vars
  BY <1>1 DEF vars, Hidden, StoredInv, ImagesStored, WorkStored, ErasesHidden, Lasting, Shown, Stored, Queued
<1>2. ASSUME NEW r \in Requests, Quiet(r) PROVE Hidden' /\ StoredInv'
  BY <1>2, ImportKeepsStored, ReadRowKeepsStored, CommitKeepsStored, MergeKeepsStored, OtherQuietKeepsStored
     DEF Quiet
<1> QED
  BY <1>1, <1>2, Kinds, RestartKeepsStored, UploadKeepsStored, EnqueueKeepsStored, WorkersKeepStored

(* What the API reports as finished can be downloaded, for any number of   *)
(* overlapping uploads and deletions, errors and restarts.                 *)
THEOREM ImagesStayStored == Spec => []ImagesStored
<1>1. Spec => [](Hidden /\ StoredInv)
  BY AlwaysPlaced, InitStored, NextStored, PTL DEF Spec
<1>2. StoredInv => ImagesStored
  BY DEF StoredInv
<1> QED
  BY <1>1, <1>2, PTL


------------------------------------------------------------------------------
(* What may stay in the datastore.                                         *)

(* Images whose job has not come to report them.                           *)
Waiting(n) ==
    \/ \E r \in Requests : Busy(r, "enqueue") /\ req[r].guid = n
    \/ n \in Queued
    \/ \E w \in Workers : worker[w].guid = n /\ worker[w].step \in {"std", "thumb", "complete"}

(* They are not COMPLETED, also in what a request has read, and one        *)
(* without a row was dropped.                                              *)
Reported ==
    /\ \A n \in Guids : Waiting(n) => asset[n] # "COMPLETED" /\ (asset[n] = "none" => n \in dropped)
    /\ \A r \in Requests, q \in Places, n \in Guids :
          Waiting(n) => req[r].snap[q] # n \/ req[r].seen[n] # "COMPLETED"

LEMMA InitReported == Init => Reported
<1> SUFFICES ASSUME Init PROVE Reported
  OBVIOUS
<1>1. \A n : ~Waiting(n)
  BY DEF Init, Waiting, Queued, IdleRequest, IdleWorker, Busy
<1> QED
  BY <1>1 DEF Reported

LEMMA ReportedKept ==
    ASSUME Placed, Reported,
           \A n \in Guids : Waiting(n)' =>
               \/ Fresh(n) /\ asset'[n] = "PROCESSING"
               \/ Waiting(n) /\ (\/ asset'[n] = asset[n] /\ dropped \subseteq dropped'
                                 \/ asset'[n] = "PROCESSING"
                                 \/ asset'[n] = "none" /\ n \in dropped'),
           \A r \in Requests, q \in Places :
               \/ req'[r].snap[q] \in {req[r].snap[q], NoGuid} /\ req'[r].seen = req[r].seen
               \/ req'[r].snap[q] \in {refs[q], NoGuid}
                  /\ (req'[r].snap[q] # NoGuid => req'[r].seen[req'[r].snap[q]] = asset[refs[q]])
               \/ req'[r].snap[q] = NoGuid
    PROVE  Reported'
<1>1. ASSUME NEW n \in Guids, Waiting(n)'
      PROVE  asset'[n] # "COMPLETED" /\ (asset'[n] = "none" => n \in dropped')
  BY <1>1 DEF Reported
<1>2. ASSUME NEW r \in Requests, NEW q \in Places, NEW n \in Guids, Waiting(n)', req'[r].snap[q] = n,
             req'[r].seen[n] = "COMPLETED"
      PROVE  FALSE
  <2>0. n # NoGuid
    BY GuidsAssumption
  <2>1. CASE req[r].snap[q] = n /\ req'[r].seen = req[r].seen
    BY <1>2, <2>1 DEF Reported, Fresh
  <2>2. CASE refs[q] = n /\ req'[r].seen[n] = asset[n]
    <3>1. ~Fresh(n)
      BY <2>0, <2>2 DEF Placed, Fresh
    <3> QED
      BY <1>2, <2>2, <3>1 DEF Reported
  <2> QED
    BY <1>2, <2>0, <2>1, <2>2
<1> QED
  BY <1>1, <1>2 DEF Reported

(* Where an image is waiting after a step, it was before, or its request   *)
(* commits.                                                                *)
LEMMA QuietWaiting ==
    ASSUME Typed, NEW r \in Requests, Quiet(r), NEW n, Waiting(n)'
    PROVE  Waiting(n) \/ (Commit(r) /\ n = req[r].guid)
<1>1. Queued' = Queued /\ worker' = worker /\ \A s \in Requests \ {r} : req'[s] = req[s]
  BY QuietMoves DEF Queued
<1>2. Busy(r, "enqueue")' => Commit(r) /\ req'[r].guid = req[r].guid
  <2> SUFFICES ASSUME Busy(r, "enqueue")' PROVE Commit(r) /\ req'[r].guid = req[r].guid
    OBVIOUS
  <2>1. req'[r].pc = "enqueue"
    BY DEF Busy
  <2>2. CASE \/ \E g \in Guids, p \in Streamables : Import(r, p, g)
             \/ \E p \in UserFields : LoadUser(r, p)
             \/ ReadRow(r) \/ Merge(r) \/ EraseStd(r)
    BY <2>1, <2>2 DEF Import, LoadUser, ReadRow, Merge, EraseStd, Busy, Typed, RequestsTyped, RequestType
  <2>3. CASE RejectEdit(r) \/ CommitFails(r) \/ MergeFails(r) \/ EraseThumb(r) \/ EraseFails(r)
    BY <2>1, <2>3 DEF RejectEdit, CommitFails, MergeFails, EraseThumb, EraseFails, Idle, IdleRequest,
                      Typed, RequestsTyped
  <2>4. CASE Commit(r)
    BY <2>4 DEF Commit, Typed, RequestsTyped, RequestType
  <2> QED
    BY <2>2, <2>3, <2>4 DEF Quiet
<1> QED
  BY <1>1, <1>2 DEF Waiting, Busy


LEMMA SeenIsStored ==
    ASSUME Typed, NEW p \in Places, NEW q \in Places
    PROVE  /\ Snap(p)[q] \in {refs[q], NoGuid}
           /\ Snap(p)[q] # NoGuid => Seen(p)[Snap(p)[q]] = asset[refs[q]]
BY DEF Snap, Seen, Typed, DataTyped, MaybeGuid

(* What a request holds of the rows after a step of it.                    *)
LEMMA QuietSnaps ==
    ASSUME Typed, NEW r \in Requests, Quiet(r), NEW s \in Requests, NEW q \in Places
    PROVE  \/ req'[s].snap[q] = req[s].snap[q] /\ req'[s].seen = req[s].seen
           \/ req'[s].snap[q] \in {refs[q], NoGuid}
              /\ (req'[s].snap[q] # NoGuid => req'[s].seen[req'[s].snap[q]] = asset[refs[q]])
<1>1. CASE s # r
  BY <1>1, QuietMoves
<1>2. CASE s = r /\ req'[r] = IdleRequest
  BY <1>2 DEF IdleRequest, NoRefs
<1>3. CASE s = r /\ ReadRow(r)
  <2>1. req'[r].snap = Snap(req[r].place) /\ req'[r].seen = Seen(req[r].place) /\ req[r].place \in Places
    BY <1>3, RequestKnown DEF ReadRow, Busy, Typed, RequestsTyped, RequestType
  <2> QED
    BY <1>3, <2>1, SeenIsStored
<1>4. CASE s = r /\ \E p \in UserFields : LoadUser(r, p)
  <2>1. PICK p \in UserFields : LoadUser(r, p)
    BY <1>4
  <2>2. req'[r].snap = Snap(p) /\ req'[r].seen = Seen(p) /\ p \in Places
    BY <2>1 DEF LoadUser, Typed, RequestsTyped, Places
  <2> QED
    BY <1>4, <2>2, SeenIsStored
<1> QED
  BY <1>1, <1>2, <1>3, <1>4, QuietMoves

LEMMA CommitKeepsReported ==
    ASSUME Typed, Placed, Reported, NEW r \in Requests, Commit(r), Quiet(r)
    PROVE  Reported'
<1> DEFINE g == req[r].guid
           old == req[r].snap[req[r].place]
<1>1. /\ asset' = [h \in Guids |-> CASE h = g -> "PROCESSING" [] h = old -> "none" [] OTHER -> asset[h]]
      /\ dropped' = dropped \cup {h \in {old} \ {NoGuid} : asset[h] = "PROCESSING"}
  BY DEF Commit
<1>2. Fresh(g) /\ g # old /\ g \in Guids
  <2>1. Busy(r, "commit") /\ req[r].place \in Places /\ g \in Guids
    BY RequestKnown DEF Commit, Busy, Typed
  <2> QED
    BY <2>1 DEF Placed, Busy, Fresh
<1> HIDE DEF g, old
<1>3. ASSUME NEW n \in Guids, Waiting(n)'
      PROVE  \/ Fresh(n) /\ asset'[n] = "PROCESSING"
             \/ Waiting(n) /\ (\/ asset'[n] = asset[n] /\ dropped \subseteq dropped'
                               \/ asset'[n] = "none" /\ n \in dropped')
  <2>1. CASE n = g
    BY <1>1, <1>2, <2>1
  <2>2. CASE n # g
    <3>1. Waiting(n)
      BY <1>3, <2>2, QuietWaiting DEF g
    <3>2. CASE n # old
      BY <1>1, <2>2, <3>1, <3>2
    <3>3. CASE n = old
      <4>1. asset'[n] = "none" /\ n # NoGuid
        BY <1>1, <1>2, <3>3, GuidsAssumption
      <4>2. asset[n] \in RowStates
        BY DEF Typed, DataTyped
      <4>3. asset[n] = "PROCESSING" \/ n \in dropped
        BY <3>1, <4>2 DEF Reported, RowStates
      <4> QED
        BY <1>1, <3>1, <3>3, <4>1, <4>3
    <3> QED
      BY <3>2, <3>3
  <2> QED
    BY <2>1, <2>2
<1> QED
  BY <1>3, QuietSnaps, ReportedKept

(* What a merge does to a row: it is removed, with a reason noted or an    *)
(* erasure to come, or comes back as it was read.                          *)
LEMMA MergeRows ==
    ASSUME Typed, Placed, NEW r \in Requests, Merge(r), NEW h \in Guids
    PROVE  /\ dropped \subseteq dropped'
           /\ \/ asset'[h] = asset[h]
              \/ /\ asset[h] # "none" /\ asset'[h] = "none"
                 /\ h \in dropped' \/ (h = req[r].guid /\ asset[h] = "COMPLETED")
              \/ /\ asset[h] = "none" /\ asset'[h] = req[r].seen[h]
                 /\ \E q \in Places : req[r].snap[q] = h
<1> DEFINE p == req[r].place
           columns == [req[r].snap EXCEPT ![p] = NoGuid]
           kept == {columns[q] : q \in UserFields}
           orphans == {refs[q] : q \in UserFields} \ (kept \cup {NoGuid})
<1>1. /\ asset' = [i \in Guids |-> CASE i \in orphans -> "none"
                                     [] i \in kept /\ asset[i] = "none" -> req[r].seen[i]
                                     [] OTHER -> asset[i]]
      /\ dropped' = dropped \cup {i \in orphans : i # req[r].guid \/ asset[i] = "PROCESSING"}
  BY DEF Merge
<1>2. /\ p \in UserFields /\ req[r].snap \in [Places -> MaybeGuid] /\ UserFields \subseteq Places
  BY RequestKnown DEF Merge, Busy, DeletePcs, Typed, Places
<1>3. h \in kept => \E q \in Places : req[r].snap[q] = h
  BY <1>2, GuidsAssumption
<1>4. h \in orphans => asset[h] # "none"
  BY <1>2 DEF Placed
<1>5. h \in orphans => h \notin kept
  OBVIOUS
<1>6. asset[h] \in RowStates
  BY DEF Typed, DataTyped
<1> HIDE DEF columns, kept, orphans
<1>7. asset'[h] = IF h \in orphans THEN "none"
                  ELSE IF h \in kept /\ asset[h] = "none" THEN req[r].seen[h] ELSE asset[h]
  BY <1>1, <1>5
<1>8. h \in orphans => h \in dropped' \/ (h = req[r].guid /\ asset[h] = "COMPLETED")
  BY <1>1, <1>4, <1>6 DEF RowStates
<1> QED
  BY <1>1, <1>3, <1>4, <1>7, <1>8

LEMMA MergeKeepsReported ==
    ASSUME Typed, Placed, Reported, NEW r \in Requests, Merge(r), Quiet(r)
    PROVE  Reported'
<1>1. ASSUME NEW n \in Guids, Waiting(n)'
      PROVE  Waiting(n) /\ (\/ asset'[n] = asset[n] /\ dropped \subseteq dropped'
                            \/ asset'[n] = "PROCESSING"
                            \/ asset'[n] = "none" /\ n \in dropped')
  <2>1. Waiting(n)
    <3>1. ~Commit(r)
      BY DEF Commit, Merge, Busy
    <3> QED
      BY <1>1, <3>1, QuietWaiting
  <2>2. asset[n] # "COMPLETED"
    BY <2>1 DEF Reported
  <2>3. ASSUME asset'[n] = req[r].seen[n], \E q \in Places : req[r].snap[q] = n
        PROVE  asset'[n] = "PROCESSING"
    <3>1. req[r].seen[n] \in RowStates
      BY RequestKnown DEF Typed
    <3>2. req[r].seen[n] # "none"
      BY <2>3, GuidsAssumption DEF Placed
    <3>3. req[r].seen[n] # "COMPLETED"
      BY <2>1, <2>3 DEF Reported
    <3> QED
      BY <2>3, <3>1, <3>2, <3>3 DEF RowStates
  <2> QED
    BY <2>1, <2>2, <2>3, MergeRows
<1> QED
  BY <1>1, QuietSnaps, ReportedKept

LEMMA WaitingPlaced ==
    ASSUME Typed, Alone, NEW n \in Guids, Waiting(n)
    PROVE  target[n] # NoPlace
<1>1. ASSUME NEW s \in Requests, Busy(s, "enqueue"), req[s].guid = n PROVE target[n] # NoPlace
  BY <1>1, RequestKnown, PlacesAssumption DEF Busy, UploadPcs, Typed, Places
<1> QED
  BY <1>1, GuidsAssumption DEF Waiting, Alone

LEMMA QuietKeepsReported ==
    ASSUME Typed, Alone, Placed, Reported, NEW r \in Requests, Quiet(r)
    PROVE  Reported'
<1>1. CASE \E g \in Guids, p \in Streamables : Import(r, p, g)
  <2>1. PICK g \in Guids, p \in Streamables : Import(r, p, g)
    BY <1>1
  <2>2. /\ target[g] = NoPlace /\ asset' = [asset EXCEPT ![g] = "COMPLETED"]
        /\ UNCHANGED <<queue, worker, req, dropped>>
    BY <2>1 DEF Import
  <2>3. \A n \in Guids : Waiting(n)' => Waiting(n) /\ asset'[n] = asset[n]
    <3>1. \A n \in Guids : Waiting(n)' => Waiting(n)
      BY <2>2 DEF Waiting, Busy, Queued
    <3>2. \A n \in Guids \ {g} : asset'[n] = asset[n]
      BY <2>2 DEF Typed, DataTyped
    <3> QED
      BY <2>2, <3>1, <3>2, WaitingPlaced
  <2> QED
    BY <2>2, <2>3, ReportedKept
<1>2. CASE Commit(r) \/ Merge(r)
  BY <1>2, CommitKeepsReported, MergeKeepsReported
<1>3. CASE \/ \E p \in UserFields : LoadUser(r, p)
           \/ ReadRow(r) \/ RejectEdit(r) \/ CommitFails(r) \/ MergeFails(r) \/ EraseStd(r)
           \/ EraseThumb(r) \/ EraseFails(r)
  <2>1. UNCHANGED <<asset, dropped>> /\ ~Commit(r)
    BY <1>3 DEF LoadUser, ReadRow, RejectEdit, CommitFails, MergeFails, EraseStd, EraseThumb, EraseFails, db,
                history, Commit, Busy
  <2>2. \A n : Waiting(n)' => Waiting(n)
    BY <2>1, QuietWaiting
  <2> QED
    BY <2>1, <2>2, QuietSnaps, ReportedKept
<1> QED
  BY <1>1, <1>2, <1>3 DEF Quiet


LEMMA WorkersWaiting ==
    ASSUME Typed, Alone, NEW w \in Workers, Generate(w) \/ GenerateFails(w) \/ Working(w),
           NEW n \in Guids, Waiting(n)'
    PROVE  Waiting(n) /\ (Complete(w) /\ n = worker[w].guid => asset'[n] = asset[n])
<1>1. req' = req
  BY WorkersWrite
<1>2. CASE Generate(w) \/ GenerateFails(w)
  <2>1. PICK g : g = Head(queue)
    OBVIOUS
  <2>2. Queued' = Queued \ {g} /\ g \in Queued
    BY <1>2, <2>1, Taken DEF Generate, GenerateFails, Typed, DataTyped, Alone
  <2>3. worker' = worker \/ worker' = [worker EXCEPT ![w] = [step |-> "std", guid |-> g]]
    BY <1>2, <2>1 DEF Generate, GenerateFails
  <2>4. \A v \in Workers : worker'[v] = worker[v] \/ worker'[v].guid = g
    BY <2>3 DEF Typed, WorkersTyped
  <2>5. ~Complete(w)
    BY <1>2 DEF Generate, GenerateFails, Complete, Step
  <2> QED
    BY <1>1, <2>2, <2>4, <2>5 DEF Waiting, Busy
<1>3. CASE Working(w)
  <2>1. Queued' = Queued
    BY <1>3 DEF Queued, Working, UploadStd, UploadThumb, UploadFails, Complete, ErasePreviousStd,
                ErasePreviousThumb, ErasePreviousFails
  <2>2. worker'[w].guid = n /\ worker'[w].step \in {"std", "thumb", "complete"} =>
            worker[w].guid = n /\ worker[w].step \in {"std", "thumb"}
    BY <1>3, WorkingMoves, GuidsAssumption DEF IdleWorker
  <2>3. Waiting(n)
    BY <1>1, <1>3, <2>1, <2>2, WorkingMoves DEF Waiting, Busy
  <2>4. ASSUME Complete(w), n = worker[w].guid PROVE FALSE
    <3>1. ~(worker'[w].guid = n /\ worker'[w].step \in {"std", "thumb", "complete"})
      BY <2>2, <2>4 DEF Complete, Step
    <3>2. \A v \in Workers \ {w} : worker'[v].guid # n
      BY <1>3, <2>4, WorkingMoves, GuidsAssumption DEF Alone
    <3>3. n \notin Queued /\ \A s \in Requests : Busy(s, "enqueue") => req[s].guid # n
      BY <2>4 DEF Alone, Uploading, UploadPcs, Busy
    <3> QED
      BY <1>1, <2>1, <3>1, <3>2, <3>3 DEF Waiting, Busy
  <2> QED
    BY <2>3, <2>4
<1> QED
  BY <1>2, <1>3

LEMMA NextReported ==
    Typed /\ Alone /\ Placed /\ Reported /\ [Next]_vars => Reported'
<1> SUFFICES ASSUME Typed, Alone, Placed, Reported, [Next]_vars PROVE Reported'
  OBVIOUS
<1>1. CASE UNCHANGED vars
  BY <1>1 DEF vars, Reported, Waiting, Busy, Queued
<1>2. ASSUME NEW r \in Requests, NEW g \in Guids, NEW p \in Places, Upload(r, p, g) PROVE Reported'
  <2>1. /\ UNCHANGED <<asset, dropped, queue, worker>>
        /\ \A s \in Requests \ {r} : req'[s] = req[s]
        /\ req'[r].pc = "read" /\ req'[r].snap = NoRefs
    BY <1>2 DEF Upload, IdleRequest, db, Typed, RequestsTyped
  <2>2. \A n : Waiting(n)' => Waiting(n)
    BY <2>1 DEF Waiting, Busy, Queued
  <2>3. \A s \in Requests, q \in Places : req'[s] = req[s] \/ req'[s].snap[q] = NoGuid
    BY <2>1 DEF NoRefs
  <2> QED
    BY <2>1, <2>2, <2>3, ReportedKept
<1>3. ASSUME NEW r \in Requests, Enqueue(r) PROVE Reported'
  <2>1. /\ UNCHANGED <<asset, dropped, worker>> /\ queue' = Append(queue, req[r].guid)
        /\ Busy(r, "enqueue") /\ req[r].guid \in Guids
        /\ \A s \in Requests \ {r} : req'[s] = req[s]
        /\ req'[r] = IdleRequest
    BY <1>3, RequestKnown DEF Enqueue, Submitted, Idle, Busy, db, history, Typed, RequestsTyped
  <2>2. Queued' = Queued \cup {req[r].guid}
    BY <2>1, Appended DEF Typed, DataTyped
  <2>3. \A n : Waiting(n)' => Waiting(n)
    BY <2>1, <2>2 DEF Waiting, Busy, IdleRequest
  <2>4. \A s \in Requests, q \in Places : req'[s] = req[s] \/ req'[s].snap[q] = NoGuid
    BY <2>1 DEF NoRefs, IdleRequest
  <2> QED
    BY <2>1, <2>3, <2>4, ReportedKept
<1>4. ASSUME NEW w \in Workers, Generate(w) \/ GenerateFails(w) \/ Working(w) PROVE Reported'
  <2>1. UNCHANGED <<req, dropped>>
    BY <1>4, WorkersWrite
  <2>2. \A n \in Guids : asset'[n] = asset[n] \/ (Complete(w) /\ n = worker[w].guid)
    BY <1>4 DEF Generate, GenerateFails, Working, UploadStd, UploadThumb, UploadFails, Complete,
         ErasePreviousStd, ErasePreviousThumb, ErasePreviousFails, db, Typed, DataTyped
  <2> QED
    BY <1>4, <2>1, <2>2, WorkersWaiting, ReportedKept
<1>5. ASSUME Restart PROVE Reported'
  <2>1. /\ \A n \in Guids : ~Waiting(n)'
    BY <1>5, GuidsAssumption DEF Restart, Waiting, Busy, Queued, IdleRequest, IdleWorker
  <2> QED
    BY <2>1 DEF Reported
<1> QED
  BY <1>1, <1>2, <1>3, <1>4, <1>5, Kinds, QuietKeepsReported


Clean == failures = 0 /\ restarts = 0

(* The image that an upload of a user replaces is recorded from the        *)
(* beginning.                                                              *)
RecordedOf(q) ==
    q.pc \in {"commit", "enqueue"} /\ q.place \in UserFields => prevOf[q.guid] = q.snap[q.place]
Recorded == \A r \in Requests : RecordedOf(req[r])

(* Who erases part of g, or why nobody does: g was dropped, a request is   *)
(* about to erase it or to record it for its job, or it is recorded for an *)
(* image whose job will come to it or was dropped.                         *)
Past(n, part) == part = "std" /\ \E w \in Workers : worker[w].guid = n /\ worker[w].step = "prevThumb"
ErasedBy(n, g, part) ==
    /\ prevOf[n] = g
    /\ ~Past(n, part)
    /\ n \in dropped \/ Waiting(n) \/ \E w \in Workers : worker[w].guid = n

Erased(g, part) ==
    \/ g \in dropped
    \/ \E r \in Requests : Busy(r, "eraseStd") /\ req[r].guid = g
    \/ \E r \in Requests : Busy(r, "eraseThumb") /\ req[r].guid = g /\ part = "thumb"
    \/ \E r \in Requests : Busy(r, "enqueue") /\ req[r].place \in Streamables /\ req[r].snap[req[r].place] = g
    \/ \E n \in Guids : ErasedBy(n, g, part)

Orphan(g, part) == Stored(g, part) /\ asset[g] = "none"
OrphansErased == \A g \in Guids, part \in Parts : Orphan(g, part) => Erased(g, part)

LEMMA ErasedEnough ==
    ASSUME Typed, Clean => OrphansErased
    PROVE  LeaksExplained
<1> SUFFICES ASSUME Quiescent, Clean, NEW g \in Guids, NEW part \in Parts, Orphan(g, part)
             PROVE  g \in dropped \/ \E n \in dropped : prevOf[n] = g
  BY DEF LeaksExplained, Clean, Orphan, Stored
<1>1. Erased(g, part)
  BY DEF OrphansErased
<1>2. /\ \A r \in Requests : req[r].pc = "idle"
      /\ \A w \in Workers : worker[w].step = "idle" /\ worker[w].guid = NoGuid
      /\ Queued = {}
  BY DEF Quiescent, Queued, Busy, Step, Typed, WorkersTyped, Works
<1> QED
  BY <1>1, <1>2, GuidsAssumption DEF Erased, ErasedBy, Waiting, Busy

LEMMA NoFailure ==
    ASSUME Typed, Clean', [Next]_vars
    PROVE  /\ Clean /\ ~Restart
           /\ \A r \in Requests : ~EraseFails(r)
           /\ \A w \in Workers : ~UploadFails(w) /\ ~ErasePreviousFails(w)
                                 /\ (GenerateFails(w) => Head(queue) \notin temp)
<1>1. failures \in Nat /\ restarts \in Nat
  BY BoundsAssumption DEF Typed, DataTyped
<1>2. failures' # failures + 1 /\ restarts' # restarts + 1
  BY <1>1 DEF Clean
<1>3. ~Restart /\ \A r \in Requests : ~EraseFails(r)
  BY <1>2 DEF Restart, EraseFails
<1>4. \A w \in Workers : ~UploadFails(w) /\ ~ErasePreviousFails(w)
                         /\ (GenerateFails(w) => Head(queue) \notin temp /\ UNCHANGED bounds)
  BY <1>2 DEF UploadFails, ErasePreviousFails, GenerateFails, bounds
<1>5. UNCHANGED bounds
  <2>1. CASE UNCHANGED vars
    BY <2>1 DEF vars, bounds
  <2>2. ASSUME NEW r \in Requests, Begin(r) \/ Proceed(r) PROVE UNCHANGED bounds
    BY <1>3, <2>2
       DEF Begin, Upload, Import, LoadUser, Proceed, ReadRow, RejectEdit, Commit, CommitFails, Enqueue,
                      Merge, MergeFails, EraseStd, EraseThumb
  <2>3. ASSUME NEW w \in Workers, Process(w) PROVE UNCHANGED bounds
    BY <1>4, <2>3
       DEF Process, Generate, UploadStd, UploadThumb, Complete, ErasePreviousStd, ErasePreviousThumb
  <2> QED
    BY <1>3, <2>1, <2>2, <2>3 DEF Next
<1> QED
  BY <1>3, <1>4, <1>5 DEF Clean, bounds

LEMMA RecordedKept ==
    ASSUME Typed, Alone, Recorded,
           \A s \in Requests : \/ RecordedOf(req[s])'
                               \/ /\ req[s].pc \in {"commit", "enqueue"}
                                  /\ req'[s].guid = req[s].guid /\ req'[s].place = req[s].place
                                  /\ req'[s].snap = req[s].snap,
           \A n \in Guids : \/ prevOf'[n] = prevOf[n]
                            \/ \E w \in Workers : worker[w].guid = n
                            \/ \E r \in Requests : Uploading(r) /\ req[r].guid = n /\ RecordedOf(req[r])'
    PROVE  Recorded'
<1> SUFFICES ASSUME NEW s \in Requests, ~RecordedOf(req[s])' PROVE FALSE
  BY DEF Recorded
<1>1. PICK n : n = req[s].guid
  OBVIOUS
<1>2. /\ req[s].pc \in {"commit", "enqueue"} /\ Uploading(s)
      /\ req'[s].guid = n /\ req'[s].place = req[s].place /\ req'[s].snap = req[s].snap
  BY <1>1 DEF Uploading, UploadPcs
<1>3. n \in Guids /\ prevOf'[n] = prevOf[n]
  <2>1. n \in Guids
    BY <1>1, <1>2, RequestKnown DEF Typed, Busy
  <2>2. \A w \in Workers : worker[w].guid # n
    BY <1>1, <1>2 DEF Alone
  <2>3. \A r \in Requests : Uploading(r) /\ req[r].guid = n => r = s
    BY <1>1, <1>2 DEF Alone
  <2> QED
    BY <2>1, <2>2, <2>3
<1>4. RecordedOf(req[s])
  BY DEF Recorded
<1> QED
  BY <1>1, <1>2, <1>3, <1>4 DEF RecordedOf

LEMMA NextRecorded ==
    ASSUME Typed, Alone, Hidden, Recorded, [Next]_vars, ~Restart
    PROVE  Recorded'
<1>1. CASE UNCHANGED vars
  BY <1>1 DEF vars, Recorded, RecordedOf
<1>2. ASSUME NEW r \in Requests, NEW g \in Guids, NEW p \in Places, Upload(r, p, g) PROVE Recorded'
  <2>1. /\ prevOf' = prevOf /\ \A s \in Requests \ {r} : req'[s] = req[s]
        /\ req'[r].pc = "read"
    BY <1>2 DEF Upload, IdleRequest, Typed, RequestsTyped
  <2> QED
    BY <2>1 DEF Recorded, RecordedOf
<1>3. ASSUME NEW r \in Requests, Enqueue(r) PROVE Recorded'
  <2>1. /\ req' = Idle(r) /\ Busy(r, "enqueue")
        /\ \A n \in Guids : prevOf'[n] = prevOf[n] \/ n = req[r].guid
    BY <1>3 DEF Enqueue, Mapped, Typed, DataTyped
  <2>2. req'[r].pc = "idle" /\ \A s \in Requests \ {r} : req'[s] = req[s]
    BY <2>1 DEF Idle, IdleRequest, Typed, RequestsTyped
  <2>3. RecordedOf(req[r])' /\ Uploading(r)
    BY <2>1, <2>2 DEF RecordedOf, Uploading, UploadPcs, Busy
  <2>4. ASSUME NEW s \in Requests, ~RecordedOf(req[s])'
        PROVE  req[s].pc \in {"commit", "enqueue"} /\ req'[s] = req[s]
    BY <2>2, <2>3, <2>4 DEF RecordedOf
  <2> QED
    BY <2>1, <2>3, <2>4, RecordedKept
<1>4. ASSUME NEW w \in Workers, Generate(w) \/ GenerateFails(w) \/ Working(w) PROVE Recorded'
  <2>1. req' = req
    BY <1>4, WorkersWrite
  <2>2. \A n \in Guids : prevOf'[n] = prevOf[n] \/ worker[w].guid = n
    BY <1>4 DEF Generate, GenerateFails, Working, UploadStd, UploadThumb, UploadFails, Complete,
         ErasePreviousStd, ErasePreviousThumb, ErasePreviousFails, Typed, DataTyped
  <2>3. ASSUME NEW s \in Requests, ~RecordedOf(req[s])'
        PROVE  req[s].pc \in {"commit", "enqueue"}
    BY <2>1, <2>3 DEF RecordedOf
  <2> QED
    BY <2>1, <2>2, <2>3, RecordedKept
<1>5. ASSUME NEW r \in Requests, Quiet(r), ~ReadRow(r) PROVE Recorded'
  <2>1. prevOf' = prevOf
    BY <1>5 DEF Quiet, Import, LoadUser, RejectEdit, Commit, CommitFails, Merge, MergeFails, EraseStd,
                EraseThumb, EraseFails
  <2>2. ASSUME NEW s \in Requests, ~RecordedOf(req[s])'
        PROVE  /\ req[s].pc \in {"commit", "enqueue"}
               /\ req'[s].guid = req[s].guid /\ req'[s].place = req[s].place /\ req'[s].snap = req[s].snap
    <3>1. req'[s].pc \in {"commit", "enqueue"}
      BY <2>2 DEF RecordedOf
    <3>2. CASE s # r
      BY <1>5, <3>1, <3>2, QuietMoves
    <3>3. CASE s = r
      <4>1. req[r].pc # "read" \/ req'[r].pc # "commit"
        BY <1>5 DEF Quiet, Import, LoadUser, RejectEdit, Commit, CommitFails, Merge, MergeFails, EraseStd,
                    EraseThumb, EraseFails, Busy, Idle, IdleRequest, Typed, RequestsTyped, RequestType
      <4> QED
        BY <1>5, <3>1, <3>3, <4>1, QuietMoves DEF IdleRequest
    <3> QED
      BY <3>2, <3>3
  <2> QED
    BY <2>1, <2>2, RecordedKept
<1>6. ASSUME NEW r \in Requests, ReadRow(r) PROVE Recorded'
  <2> DEFINE p == req[r].place
             g == req[r].guid
  <2>1. /\ Busy(r, "read") /\ g \in Guids /\ p \in Places /\ Uploading(r) /\ prevOf[g] = NoGuid
    BY <1>6, RequestKnown DEF ReadRow, Busy, Uploading, UploadPcs, Typed, Hidden, ErasesHidden
  <2>2. /\ req'[r].snap = Snap(p) /\ req'[r].guid = g /\ req'[r].place = p
        /\ \A s \in Requests \ {r} : req'[s] = req[s]
        /\ prevOf' = IF p \in UserFields THEN Mapped(g, refs[p]) ELSE prevOf
    BY <1>6 DEF ReadRow, Typed, RequestsTyped, RequestType
  <2>3. p \in UserFields => prevOf'[g] = refs[p]
    BY <2>1, <2>2 DEF Mapped, Typed, DataTyped
  <2>4. RecordedOf(req[r])'
    BY <2>1, <2>2, <2>3, SnapTyped DEF RecordedOf, Typed
  <2>5. \A n \in Guids : prevOf'[n] = prevOf[n] \/ n = g
    BY <2>2 DEF Mapped, Typed, DataTyped
  <2>6. ASSUME NEW s \in Requests, ~RecordedOf(req[s])'
        PROVE  req[s].pc \in {"commit", "enqueue"} /\ req'[s] = req[s]
    BY <2>2, <2>4, <2>6 DEF RecordedOf
  <2> HIDE DEF p
  <2> QED
    BY <2>1, <2>4, <2>5, <2>6, RecordedKept
<1> QED
  BY <1>1, <1>2, <1>3, <1>4, <1>5, <1>6, Kinds


(* A request's step leaves an erasure to come, unless it is the erasure.   *)
LEMMA RequestsKeepErased ==
    ASSUME Hidden, NEW r \in Requests, UNCHANGED <<queue, worker>>, dropped \subseteq dropped',
           \A s \in Requests \ {r} : req'[s] = req[s],
           \A n \in Guids : prevOf'[n] = prevOf[n] \/ prevOf[n] = NoGuid,
           ~Busy(r, "enqueue"),
           Busy(r, "eraseStd") =>
               /\ req'[r].pc = "eraseThumb" /\ req'[r].guid = req[r].guid
               /\ store' = store \ {<<req[r].guid, "std">>},
           Busy(r, "eraseThumb") => store' = store \ {<<req[r].guid, "thumb">>},
           NEW g \in Guids, NEW part \in Parts, Erased(g, part), Stored(g, part)'
    PROVE  Erased(g, part)'
<1>1. ASSUME NEW s \in Requests, Busy(s, "eraseStd"), req[s].guid = g PROVE Erased(g, part)'
  <2>1. CASE s # r
    BY <1>1, <2>1 DEF Erased, Busy
  <2>2. CASE s = r
    <3>1. part # "std"
      BY <1>1, <2>2 DEF Stored
    <3>2. part = "thumb" /\ Busy(r, "eraseThumb")' /\ req'[r].guid = g
      BY <1>1, <2>2, <3>1 DEF Parts, Busy
    <3> QED
      BY <3>2 DEF Erased
  <2> QED
    BY <2>1, <2>2
<1>2. ASSUME NEW s \in Requests, Busy(s, "eraseThumb"), req[s].guid = g, part = "thumb" PROVE Erased(g, part)'
  <2>1. s # r
    BY <1>2 DEF Stored
  <2> QED
    BY <1>2, <2>1 DEF Erased, Busy
<1>3. ASSUME NEW s \in Requests, Busy(s, "enqueue"), req[s].place \in Streamables,
             req[s].snap[req[s].place] = g
      PROVE  Erased(g, part)'
  BY <1>3 DEF Erased, Busy
<1>4. ASSUME NEW n \in Guids, ErasedBy(n, g, part) PROVE Erased(g, part)'
  <2>1. prevOf'[n] = g
    BY <1>4, GuidsAssumption DEF ErasedBy
  <2>2. Past(n, part)' <=> Past(n, part)
    BY DEF Past
  <2>3. Waiting(n) => Waiting(n)'
    <3>1. Queued' = Queued
      BY DEF Queued
    <3> QED
      BY <3>1 DEF Waiting, Busy
  <2>4. ErasedBy(n, g, part)'
    BY <1>4, <2>1, <2>2, <2>3 DEF ErasedBy
  <2> QED
    BY <2>4 DEF Erased
<1>5. g \in dropped => Erased(g, part)'
  BY DEF Erased
<1> QED
  BY <1>1, <1>2, <1>3, <1>4, <1>5 DEF Erased

LEMMA QuietKeepsErased ==
    ASSUME Typed, Hidden, NEW r \in Requests, Quiet(r), ~EraseFails(r),
           NEW g \in Guids, NEW part \in Parts, Erased(g, part), Stored(g, part)'
    PROVE  Erased(g, part)'
<1>1. ~Busy(r, "enqueue")
  BY DEF Quiet, Import, LoadUser, ReadRow, RejectEdit, Commit, CommitFails, Merge, MergeFails, EraseStd,
         EraseThumb, Busy
<1>2. ASSUME Busy(r, "eraseStd")
      PROVE  /\ req'[r].pc = "eraseThumb" /\ req'[r].guid = req[r].guid
             /\ store' = store \ {<<req[r].guid, "std">>}
  <2>1. EraseStd(r)
    BY <1>2 DEF Quiet, Import, LoadUser, ReadRow, RejectEdit, Commit, CommitFails, Merge, MergeFails,
                EraseThumb, Busy
  <2> QED
    BY <2>1 DEF EraseStd, Typed, RequestsTyped, RequestType
<1>3. ASSUME Busy(r, "eraseThumb") PROVE store' = store \ {<<req[r].guid, "thumb">>}
  <2>1. EraseThumb(r)
    BY <1>3 DEF Quiet, Import, LoadUser, ReadRow, RejectEdit, Commit, CommitFails, Merge, MergeFails,
                EraseStd, Busy
  <2> QED
    BY <2>1 DEF EraseThumb
<1>4. dropped \subseteq dropped'
  BY DEF Quiet, Import, LoadUser, ReadRow, RejectEdit, Commit, CommitFails, Merge, MergeFails, EraseStd,
         EraseThumb, history
<1>5. \A n \in Guids : prevOf'[n] = prevOf[n] \/ prevOf[n] = NoGuid
  <2>1. CASE ReadRow(r)
    <3>1. prevOf[req[r].guid] = NoGuid
      BY <2>1 DEF ReadRow, Busy, Hidden, ErasesHidden
    <3> QED
      BY <2>1, <3>1 DEF ReadRow, Mapped, Typed, DataTyped
  <2>2. CASE ~ReadRow(r)
    BY <2>2 DEF Quiet, Import, LoadUser, RejectEdit, Commit, CommitFails, Merge, MergeFails, EraseStd,
                EraseThumb
  <2> QED
    BY <2>1, <2>2
<1> QED
  BY <1>1, <1>2, <1>3, <1>4, <1>5, QuietMoves, RequestsKeepErased

(* A row that goes leaves somebody who erases its objects, or is dropped.  *)
LEMMA CommitErases ==
    ASSUME Typed, Alone, Placed, Recorded, NEW r \in Requests, Commit(r),
           NEW g \in Guids, NEW part \in Parts, asset[g] # "none", asset'[g] = "none"
    PROVE  Erased(g, part)'
<1> DEFINE p == req[r].place
<1>0. PICK n : n = req[r].guid
  OBVIOUS
<1>1. /\ g = req[r].snap[p] /\ g # n
  <2>1. g # n
    BY <1>0 DEF Commit, Busy, Placed, Fresh
  <2> QED
    BY <1>0, <2>1 DEF Commit
<1>2. /\ Busy(r, "commit") /\ p \in Places /\ n \in Guids /\ Uploading(r)
  BY <1>0, RequestKnown DEF Commit, Busy, Typed, Uploading, UploadPcs
<1>3. /\ req'[r].pc = "enqueue" /\ req'[r].guid = n /\ req'[r].place = p /\ req'[r].snap = req[r].snap
      /\ UNCHANGED <<worker, prevOf>>
  BY <1>0 DEF Commit, Typed, RequestsTyped, RequestType
<1>4. CASE asset[g] = "PROCESSING"
  <2>1. g \in dropped'
    BY <1>1, <1>4, GuidsAssumption DEF Commit
  <2> QED
    BY <2>1 DEF Erased
<1>5. CASE p \in Streamables
  BY <1>1, <1>3, <1>5 DEF Erased, Busy
<1>6. CASE p \in UserFields
  <2>1. prevOf'[n] = g
    BY <1>0, <1>1, <1>2, <1>3, <1>6 DEF Recorded, RecordedOf, Busy
  <2>2. ~Past(n, part)' /\ Waiting(n)'
    BY <1>0, <1>2, <1>3 DEF Past, Alone, Waiting, Busy
  <2>3. ErasedBy(n, g, part)'
    BY <1>3, <2>1, <2>2 DEF ErasedBy
  <2> QED
    BY <1>2, <2>3 DEF Erased
<1> QED
  BY <1>2, <1>4, <1>5, <1>6 DEF Places

LEMMA MergeErases ==
    ASSUME Typed, Placed, NEW r \in Requests, Merge(r),
           NEW g \in Guids, NEW part \in Parts, asset[g] # "none", asset'[g] = "none"
    PROVE  Erased(g, part)'
<1>1. g \in dropped' \/ g = req[r].guid
  BY MergeRows
<1>2. req'[r].pc = "eraseStd" /\ req'[r].guid = req[r].guid
  BY DEF Merge, Typed, RequestsTyped, RequestType
<1> QED
  BY <1>1, <1>2 DEF Erased, Busy

LEMMA EnqueueKeepsErased ==
    ASSUME Typed, Alone, Hidden, NEW r \in Requests, Enqueue(r),
           NEW g \in Guids, NEW part \in Parts, Erased(g, part)
    PROVE  Erased(g, part)'
<1> DEFINE p == req[r].place
           old == req[r].snap[p]
<1>0. PICK m : m = req[r].guid
  OBVIOUS
<1>1. /\ Busy(r, "enqueue") /\ queue' = Append(queue, m) /\ req' = Idle(r)
      /\ prevOf' = IF p \in Streamables THEN Mapped(m, old) ELSE prevOf
      /\ UNCHANGED <<worker, dropped>>
  BY <1>0 DEF Enqueue, Submitted, history
<1>2. /\ p \in Places /\ m \in Guids /\ Uploading(r)
      /\ prevOf[m] \in {NoGuid, old}
  BY <1>0, <1>1, RequestKnown DEF Busy, Uploading, UploadPcs, Typed, Hidden, ErasesHidden
<1>3. /\ req'[r] = IdleRequest /\ \A s \in Requests \ {r} : req'[s] = req[s]
  BY <1>1 DEF Idle, Typed, RequestsTyped
<1>4. Queued' = Queued \cup {m}
  BY <1>1, <1>2, Appended DEF Typed, DataTyped
<1>5. /\ \A n \in Guids : prevOf[n] = g => prevOf'[n] = g
      /\ p \in Streamables /\ old = g => prevOf'[m] = g
  BY <1>1, <1>2, GuidsAssumption DEF Mapped, Typed, DataTyped
<1>6. \A n : Waiting(n) => Waiting(n)'
  BY <1>0, <1>1, <1>3, <1>4 DEF Waiting, Busy
<1>7. \A n : Past(n, part)' <=> Past(n, part)
  BY <1>1 DEF Past
<1>8. ~Past(m, part)
  BY <1>0, <1>2 DEF Past, Alone
<1>9. p \in Streamables /\ old = g => ErasedBy(m, g, part)'
  BY <1>1, <1>4, <1>5, <1>7, <1>8 DEF ErasedBy, Waiting
<1>10. \A n \in Guids : ErasedBy(n, g, part) => ErasedBy(n, g, part)'
  BY <1>1, <1>5, <1>6, <1>7 DEF ErasedBy
<1>11. ASSUME NEW s \in Requests, Busy(s, "enqueue"), req[s].place \in Streamables,
              req[s].snap[req[s].place] = g
       PROVE  Erased(g, part)'
  BY <1>2, <1>3, <1>9, <1>11 DEF Erased, Busy
<1>12. \A s \in Requests : Busy(s, "eraseStd") \/ Busy(s, "eraseThumb") => req'[s] = req[s]
  BY <1>1, <1>3 DEF Busy
<1> QED
  BY <1>1, <1>10, <1>11, <1>12 DEF Erased, Busy


(* A thread's step does too, unless it is the erasure.                     *)
LEMMA TakingKeepsErased ==
    ASSUME Typed, Alone, NEW w \in Workers, Generate(w),
           NEW g \in Guids, NEW part \in Parts, Erased(g, part)
    PROVE  Erased(g, part)'
<1>1. PICK h : h = Head(queue)
  OBVIOUS
<1>2. Queued' = Queued \ {h}
  BY <1>1, Taken DEF Generate, Typed, DataTyped, Alone
<1>3. /\ UNCHANGED <<req, prevOf, dropped>>
      /\ worker'[w].guid = h /\ worker'[w].step = "std"
      /\ worker[w].guid = NoGuid
      /\ \A v \in Workers \ {w} : worker'[v] = worker[v]
  BY <1>1 DEF Generate, Typed, WorkersTyped, Works, Step, history
<1>4. ASSUME NEW n \in Guids, ErasedBy(n, g, part) PROVE ErasedBy(n, g, part)'
  <2>1. Past(n, part)' => Past(n, part)
    BY <1>3 DEF Past
  <2>2. ASSUME NEW v \in Workers, worker[v].guid = n PROVE worker'[v].guid = n
    BY <1>3, <2>2, GuidsAssumption
  <2>3. Waiting(n) => Waiting(n)' \/ \E v \in Workers : worker'[v].guid = n
    BY <1>2, <1>3, <2>2 DEF Waiting, Busy
  <2> QED
    BY <1>3, <1>4, <2>1, <2>2, <2>3 DEF ErasedBy
<1> QED
  BY <1>3, <1>4 DEF Erased, Busy

LEMMA WorkingKeepsErased ==
    ASSUME Typed, Alone, Reported, NEW w \in Workers, Working(w), ~UploadFails(w), ~ErasePreviousFails(w),
           NEW g \in Guids, NEW part \in Parts, Erased(g, part), Stored(g, part)'
    PROVE  Erased(g, part)'
<1>0. PICK k : k = worker[w].guid
  OBVIOUS
<1>1. /\ UNCHANGED <<req, dropped, queue>>
      /\ k \in Guids /\ k # NoGuid
      /\ \A v \in Workers \ {w} : worker'[v] = worker[v] /\ worker[v].guid # k
  <2>1. UNCHANGED <<req, dropped, queue>>
    BY DEF Working, UploadStd, UploadThumb, Complete, ErasePreviousStd, ErasePreviousThumb, history
  <2> QED
    BY <1>0, <2>1, WorkingMoves, GuidsAssumption DEF Alone
<1>2. ASSUME NEW n \in Guids, n # k, ErasedBy(n, g, part) PROVE ErasedBy(n, g, part)'
  <2>1. prevOf'[n] = prevOf[n]
    BY <1>0, <1>2 DEF Working, UploadStd, UploadThumb, Complete, ErasePreviousStd, ErasePreviousThumb,
                      Typed, DataTyped
  <2>2. worker'[w].guid # n /\ worker[w].guid # n
    BY <1>0, <1>2, WorkingMoves, GuidsAssumption DEF IdleWorker
  <2>3. Past(n, part)' => Past(n, part)
    BY <1>1, <2>2 DEF Past
  <2>4. Waiting(n) => Waiting(n)'
    BY <1>1, <2>2 DEF Waiting, Busy, Queued
  <2>5. (\E v \in Workers : worker[v].guid = n) => \E v \in Workers : worker'[v].guid = n
    BY <1>1, <2>2
  <2> QED
    BY <1>1, <1>2, <2>1, <2>3, <2>4, <2>5 DEF ErasedBy
<1>3. ASSUME ErasedBy(k, g, part) PROVE ErasedBy(k, g, part)'
  <2>1. ASSUME prevOf' = prevOf, worker'[w].guid = k, worker'[w].step # "prevThumb" \/ part # "std"
        PROVE  ErasedBy(k, g, part)'
    <3>1. ~Past(k, part)'
      BY <1>1, <2>1 DEF Past
    <3> QED
      BY <1>3, <2>1, <3>1 DEF ErasedBy
  <2>2. CASE UploadStd(w) \/ UploadThumb(w)
    <3>1. /\ prevOf' = prevOf /\ worker'[w].guid = k
          /\ worker'[w].step \in {"thumb", "complete"}
      BY <1>0, <2>2, WorkerMoves DEF UploadStd, UploadThumb, Step, WorkSteps, Typed
    <3> QED
      BY <2>1, <3>1
  <2>3. CASE Complete(w) /\ asset[k] # "none"
    <3>1. /\ prevOf' = prevOf /\ worker'[w].guid = k
          /\ worker'[w].step = "prevStd"
      BY <1>0, <2>3, WorkerMoves DEF Complete, Step, WorkSteps, Typed
    <3> QED
      BY <2>1, <3>1
  <2>4. CASE Complete(w) /\ asset[k] = "none"
    <3>1. /\ prevOf' = prevOf /\ worker'[w].guid = NoGuid
      BY <1>0, <2>4, WorkerEnds DEF Complete, IdleWorker, Typed
    <3>2. k \in dropped
      BY <1>0, <1>1, <2>4 DEF Complete, Step, Waiting, Reported
    <3>3. ~Past(k, part)'
      BY <1>1, <3>1 DEF Past
    <3> QED
      BY <1>1, <1>3, <3>1, <3>2, <3>3 DEF ErasedBy
  <2>5. CASE ErasePreviousStd(w)
    <3>1. Previous(w) = g /\ g # NoGuid
      BY <1>0, <1>3, <2>5, GuidsAssumption DEF Previous, ErasedBy
    <3>2. /\ prevOf' = prevOf /\ worker'[w].guid = k
          /\ store' = store \ {<<g, "std">>}
      BY <1>0, <2>5, <3>1, WorkerMoves DEF ErasePreviousStd, Step, WorkSteps, Typed
    <3>3. part # "std"
      BY <3>2 DEF Stored
    <3> QED
      BY <2>1, <3>2, <3>3
  <2>6. CASE ErasePreviousThumb(w)
    <3>1. store' = store \ {<<g, "thumb">>}
      BY <1>0, <1>3, <2>6 DEF ErasePreviousThumb, Previous, ErasedBy
    <3>2. part = "std"
      BY <3>1 DEF Stored, Parts
    <3>3. Past(k, part)
      BY <1>0, <2>6, <3>2 DEF Past, ErasePreviousThumb, Step
    <3> QED
      BY <1>3, <3>3 DEF ErasedBy
  <2> QED
    BY <2>2, <2>3, <2>4, <2>5, <2>6 DEF Working
<1> QED
  BY <1>1, <1>2, <1>3 DEF Erased, Busy

LEMMA NextErased ==
    ASSUME Typed, Alone, Placed, Hidden, Reported, Recorded, OrphansErased, [Next]_vars, Clean'
    PROVE  OrphansErased'
<1> SUFFICES ASSUME NEW g \in Guids, NEW part \in Parts, Stored(g, part)', asset'[g] = "none"
             PROVE  Erased(g, part)'
  BY DEF OrphansErased, Orphan
<1>1. CASE UNCHANGED vars
  BY <1>1 DEF vars, OrphansErased, Orphan, Erased, ErasedBy, Stored, Busy, Past, Waiting, Queued
<1>2. ASSUME NEW r \in Requests, NEW h \in Guids, NEW p \in Places, Upload(r, p, h) PROVE Erased(g, part)'
  <2>1. /\ UNCHANGED <<asset, store, queue, worker, dropped, prevOf>>
        /\ \A s \in Requests \ {r} : req'[s] = req[s]
        /\ Busy(r, "idle")
    BY <1>2 DEF Upload, db, Typed, RequestsTyped
  <2>2. Orphan(g, part)
    BY <2>1 DEF Orphan, Stored
  <2> QED
    BY <2>1, <2>2, RequestsKeepErased DEF OrphansErased, Busy
<1>3. ASSUME NEW r \in Requests, Enqueue(r) PROVE Erased(g, part)'
  <2>1. Orphan(g, part)
    BY <1>3 DEF Enqueue, db, Orphan, Stored
  <2> QED
    BY <1>3, <2>1, EnqueueKeepsErased DEF OrphansErased
<1>4. ASSUME NEW r \in Requests, Quiet(r) PROVE Erased(g, part)'
  <2>1. CASE asset[g] # "none"
    <3>1. Commit(r) \/ Merge(r)
      BY <1>4, <2>1 DEF Quiet, Import, LoadUser, ReadRow, RejectEdit, CommitFails, MergeFails, EraseStd,
                        EraseThumb, EraseFails, db, Typed, DataTyped
    <3> QED
      BY <2>1, <3>1, CommitErases, MergeErases
  <2>2. CASE asset[g] = "none"
    <3>1. store' \subseteq store
      BY <1>4
         DEF Quiet, Import, LoadUser, ReadRow, RejectEdit, Commit, CommitFails, Merge, MergeFails, EraseStd,
                  EraseThumb, EraseFails
    <3>2. Orphan(g, part)
      BY <2>2, <3>1 DEF Orphan, Stored
    <3> QED
      BY <1>4, <3>2, NoFailure, QuietKeepsErased DEF OrphansErased
  <2> QED
    BY <2>1, <2>2
<1>5. ASSUME NEW w \in Workers, Generate(w) \/ GenerateFails(w) \/ Working(w) PROVE Erased(g, part)'
  <2>1. asset[g] = "none"
    BY <1>5, WorkersWrite
  <2>2. ~GenerateFails(w)
    <3>1. GenerateFails(w) => Head(queue) \in Queued
      BY Taken DEF GenerateFails, Typed, DataTyped, Alone
    <3> QED
      BY <3>1, NoFailure DEF Alone
  <2>3. CASE Generate(w)
    <3>1. Orphan(g, part)
      BY <2>1, <2>3 DEF Generate, Orphan, Stored
    <3> QED
      BY <2>3, <3>1, TakingKeepsErased DEF OrphansErased
  <2>4. CASE Working(w) /\ Stored(g, part)
    BY <2>1, <2>4, NoFailure, WorkingKeepsErased DEF OrphansErased, Orphan
  <2>5. CASE Working(w) /\ ~Stored(g, part)
    <3>1. worker[w].guid = g /\ worker[w].step \in {"std", "thumb"}
      BY <2>5, NoFailure DEF Working, UploadStd, UploadThumb, Complete, ErasePreviousStd, ErasePreviousThumb,
                             Stored, Step
    <3>2. g \in dropped
      BY <2>1, <3>1 DEF Waiting, Reported
    <3> QED
      BY <1>5, <3>2, WorkersWrite DEF Erased
  <2> QED
    BY <1>5, <2>2, <2>3, <2>4, <2>5
<1> QED
  BY <1>1, <1>2, <1>3, <1>4, <1>5, Kinds, NoFailure

(* Without errors and restarts, an object without a row is explained.      *)
THEOREM LeaksStayExplained == Spec => []LeaksExplained
<1> DEFINE Leaks == Clean => Recorded /\ OrphansErased
<1>1. Init => Leaks
  BY DEF Init, Leaks, Recorded, RecordedOf, IdleRequest, OrphansErased, Orphan, Stored
<1>2. Typed /\ Alone /\ Placed /\ Hidden /\ Reported /\ Leaks /\ [Next]_vars => Leaks'
  <2> SUFFICES ASSUME Typed, Alone, Placed, Hidden, Reported, Leaks, [Next]_vars, Clean'
               PROVE  Recorded' /\ OrphansErased'
    OBVIOUS
  <2> QED
    BY NoFailure, NextRecorded, NextErased
<1>3. Typed /\ Leaks => LeaksExplained
  BY ErasedEnough
<1> HIDE DEF Leaks
<1>4. Spec => [](Hidden /\ StoredInv)
  BY AlwaysPlaced, InitStored, NextStored, PTL DEF Spec
<1>5. Spec => []Reported
  BY AlwaysPlaced, InitReported, NextReported, PTL DEF Spec
<1> QED
  BY <1>1, <1>2, <1>3, <1>4, <1>5, AlwaysPlaced, PTL DEF Spec
=============================================================================
