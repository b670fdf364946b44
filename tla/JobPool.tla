------------------------------- MODULE JobPool -------------------------------
(***************************************************************************)
(* What the callers of JobService.execute are promised: a pool that starts *)
(* the jobs in the order of the calls, never starts one twice, and runs at *)
(* most Capacity of them at the same time.  A job in Fatal ends by an      *)
(* Error, which costs the pool one of its threads for good; every other    *)
(* job gives its thread back, whether it returns or throws an exception.   *)
(***************************************************************************)
EXTENDS Naturals, Sequences, FiniteSets

CONSTANTS Jobs,       \* the Runnables handed to the pool
          Fatal,      \* those that end by a java.lang.Error
          Capacity    \* how many threads the pool was built with

VARIABLES pending,    \* jobs accepted and not started, oldest first
          running,    \* jobs being executed
          finished,   \* jobs that returned or threw a RuntimeException
          killed      \* jobs that ended by an Error, each with its thread

poolVars == <<pending, running, finished, killed>>

Accepted == {pending[i] : i \in DOMAIN pending} \cup running \cup finished \cup killed

Init ==
    /\ pending = <<>>
    /\ running = {}
    /\ finished = {}
    /\ killed = {}

Submit(j) ==
    /\ j \notin Accepted
    /\ pending' = Append(pending, j)
    /\ UNCHANGED <<running, finished, killed>>

Start ==
    /\ pending # <<>>
    /\ Cardinality(running) + Cardinality(killed) < Capacity
    /\ running' = running \cup {Head(pending)}
    /\ pending' = Tail(pending)
    /\ UNCHANGED <<finished, killed>>

Finish(j) ==
    /\ j \in running \ Fatal
    /\ running' = running \ {j}
    /\ finished' = finished \cup {j}
    /\ UNCHANGED <<pending, killed>>

Kill(j) ==
    /\ j \in running \cap Fatal
    /\ running' = running \ {j}
    /\ killed' = killed \cup {j}
    /\ UNCHANGED <<pending, finished>>

Next ==
    \/ Start
    \/ \E j \in Jobs : Submit(j) \/ Finish(j) \/ Kill(j)

Spec == Init /\ [][Next]_poolVars

(***************************************************************************)
(* The liveness half of the promise: while a thread is free the oldest job *)
(* is eventually started, and a started job eventually ends.               *)
(***************************************************************************)
FairSpec ==
    /\ Spec
    /\ WF_poolVars(Start)
    /\ \A j \in Jobs : WF_poolVars(Finish(j) \/ Kill(j))
==============================================================================
