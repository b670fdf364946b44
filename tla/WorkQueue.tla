------------------------------ MODULE WorkQueue ------------------------------
(***************************************************************************)
(* service/job/WorkQueue.java: a LinkedList guarded by its own monitor, a  *)
(* fixed set of PoolWorker threads that wait on it, and execute, which any *)
(* thread may call.  JobService builds it with two threads and runs the    *)
(* notification and activity jobs on it.                                   *)
(*                                                                         *)
(* A synchronized block is one step.  A worker is "woken" while it holds   *)
(* or competes for the monitor and has still to test queue.isEmpty(),      *)
(* "waiting" inside queue.wait(), "running" outside the monitor in         *)
(* r.run(), and "dead" once an Error has unwound its run().                *)
(***************************************************************************)
EXTENDS Naturals, Sequences, FiniteSets

CONSTANTS Jobs,      \* the Runnables the callers hand over, each of them once
          Fatal,     \* the jobs whose run() throws an Error
          Workers,   \* the PoolWorker threads
          NoJob      \* the worker's r before its first job and between jobs

ASSUME WorkersAssumption == IsFiniteSet(Workers) /\ Workers # {}
ASSUME JobsAssumption == NoJob \notin Jobs /\ Fatal \subseteq Jobs

VARIABLES queue,     \* the LinkedList
          pc,        \* where each worker is
          current,   \* the job each worker executes
          submitted, \* jobs whose execute call has returned
          finished,  \* jobs that returned or threw a RuntimeException
          killed     \* jobs that threw an Error

vars == <<queue, pc, current, submitted, finished, killed>>

Waiting == {w \in Workers : pc[w] = "waiting"}
Woken == {w \in Workers : pc[w] = "woken"}
Alive == {w \in Workers : pc[w] # "dead"}
Queued == {queue[i] : i \in DOMAIN queue}
Running == {current[w] : w \in {v \in Workers : pc[v] = "running"}}

Init ==
    /\ queue = <<>>
    /\ pc = [w \in Workers |-> "woken"]
    /\ current = [w \in Workers |-> NoJob]
    /\ submitted = {}
    /\ finished = {}
    /\ killed = {}

------------------------------------------------------------------------------
(* The faulty variants the properties below are sensitive to.              *)

NotifyNobody == UNCHANGED pc

TakeLast(w) ==
    /\ pc[w] = "woken"
    /\ queue # <<>>
    /\ current' = [current EXCEPT ![w] = queue[Len(queue)]]
    /\ queue' = SubSeq(queue, 1, Len(queue) - 1)
    /\ pc' = [pc EXCEPT ![w] = "running"]
    /\ UNCHANGED <<submitted, finished, killed>>

TakeAndKeep(w) ==
    /\ pc[w] = "woken"
    /\ queue # <<>>
    /\ current' = [current EXCEPT ![w] = Head(queue)]
    /\ pc' = [pc EXCEPT ![w] = "running"]
    /\ UNCHANGED <<queue, submitted, finished, killed>>

EndAndKeepJob(w) ==
    /\ pc[w] = "running"
    /\ current[w] \notin Fatal
    /\ finished' = finished \cup {current[w]}
    /\ pc' = [pc EXCEPT ![w] = "woken"]
    /\ UNCHANGED <<queue, current, submitted, killed>>

EndUncaught(w) ==
    /\ pc[w] = "running"
    /\ current[w] \notin Fatal
    /\ finished' = finished \cup {current[w]}
    /\ current' = [current EXCEPT ![w] = NoJob]
    /\ pc' \in {[pc EXCEPT ![w] = "woken"], [pc EXCEPT ![w] = "dead"]}
    /\ UNCHANGED <<queue, submitted, killed>>

------------------------------------------------------------------------------
(* queue.notify(): one waiting thread, any of them, leaves the wait set;   *)
(* nothing happens when there is none.                                     *)
NotifyOne ==
    \/ Waiting = {} /\ UNCHANGED pc
    \/ \E w \in Waiting : pc' = [pc EXCEPT ![w] = "woken"]

Execute(j) ==
    /\ j \notin submitted
    /\ queue' = Append(queue, j)
    /\ submitted' = submitted \cup {j}
    /\ NotifyOne
    /\ UNCHANGED <<current, finished, killed>>

Wait(w) ==
    /\ pc[w] = "woken"
    /\ queue = <<>>
    /\ pc' = [pc EXCEPT ![w] = "waiting"]
    /\ UNCHANGED <<queue, current, submitted, finished, killed>>

(* wait() also returns without a notify (a spurious wakeup), or by an      *)
(* InterruptedException, which the loop ignores.                           *)
WakeUnnotified(w) ==
    /\ pc[w] = "waiting"
    /\ pc' = [pc EXCEPT ![w] = "woken"]
    /\ UNCHANGED <<queue, current, submitted, finished, killed>>

Take(w) ==
    /\ pc[w] = "woken"
    /\ queue # <<>>
    /\ current' = [current EXCEPT ![w] = Head(queue)]
    /\ queue' = Tail(queue)
    /\ pc' = [pc EXCEPT ![w] = "running"]
    /\ UNCHANGED <<submitted, finished, killed>>

End(w) ==
    /\ pc[w] = "running"
    /\ current[w] \notin Fatal
    /\ finished' = finished \cup {current[w]}
    /\ current' = [current EXCEPT ![w] = NoJob]
    /\ pc' = [pc EXCEPT ![w] = "woken"]
    /\ UNCHANGED <<queue, submitted, killed>>

(* Only RuntimeException is caught: an Error ends the thread.              *)
Die(w) ==
    /\ pc[w] = "running"
    /\ current[w] \in Fatal
    /\ killed' = killed \cup {current[w]}
    /\ current' = [current EXCEPT ![w] = NoJob]
    /\ pc' = [pc EXCEPT ![w] = "dead"]
    /\ UNCHANGED <<queue, submitted, finished>>

WorkerStep(w) == Wait(w) \/ Take(w) \/ End(w) \/ Die(w)

Next ==
    \/ \E j \in Jobs : Execute(j)
    \/ \E w \in Workers : WorkerStep(w) \/ WakeUnnotified(w)

Spec == Init /\ [][Next]_vars

(* The threads are scheduled and every job ends; nobody has to call        *)
(* execute, and no wakeup comes without a notify unless it wants to.       *)
FairSpec == Spec /\ \A w \in Workers : WF_vars(WorkerStep(w))

------------------------------------------------------------------------------
(* Every variable has its type, and a worker has a job exactly while it is *)
(* in r.run().                                                             *)
TypeOK ==
    /\ queue \in Seq(Jobs)
    /\ pc \in [Workers -> {"woken", "waiting", "running", "dead"}]
    /\ current \in [Workers -> Jobs \cup {NoJob}]
    /\ submitted \in SUBSET Jobs
    /\ finished \in SUBSET Jobs
    /\ killed \in SUBSET Jobs
    /\ \A w \in Workers : (pc[w] = "running") <=> (current[w] # NoJob)

(* No wakeup is lost: while a worker sleeps in wait(), each queued job has *)
(* a worker of its own that is awake and about to look at the queue.  One  *)
(* notify per execute is enough only because of this.                      *)
EnoughWoken == Waiting # {} => Len(queue) <= Cardinality(Woken)

(* A job handed over is in exactly one place: once in the queue, with one  *)
(* worker, or ended; none is dropped and none is executed twice.           *)
JobsAccounted ==
    /\ submitted = Queued \cup Running \cup finished \cup killed
    /\ \A i, k \in DOMAIN queue : queue[i] = queue[k] => i = k
    /\ \A v, w \in Workers :
          (current[v] = current[w] /\ current[v] # NoJob) => v = w
    /\ Queued \cap (Running \cup finished \cup killed) = {}
    /\ Running \cap (finished \cup killed) = {}
    /\ finished \cap killed = {}

(* The queue and its threads are the pool its callers expect: jobs start   *)
(* in the order of the execute calls, on at most one thread each, and the  *)
(* oldest is started whenever a live thread is free.                       *)
Pool == INSTANCE JobPool
        WITH pending <- queue, running <- Running, Capacity <- Cardinality(Workers)

ImplementsPool == Pool!FairSpec

(* While fewer jobs die of an Error than the pool has threads, every job   *)
(* handed over ends: an exception in one job never stops the others.       *)
EveryJobEnds ==
    Cardinality(Fatal) < Cardinality(Workers) =>
        \A j \in Jobs : (j \in submitted) ~> (j \in finished \cup killed)
==============================================================================
