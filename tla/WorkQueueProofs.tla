--------------------------- MODULE WorkQueueProofs ---------------------------
(***************************************************************************)
(* What holds of the work queue for every set of jobs and every finite,    *)
(* non-empty set of worker threads.                                        *)
(***************************************************************************)
EXTENDS WorkQueue, FiniteSetTheorems, SequenceTheorems, TLAPS

Elements(s) == {s[i] : i \in DOMAIN s}
NoRepeats(s) == \A i, k \in DOMAIN s : s[i] = s[k] => i = k

(* addLast adds one element at the end and no other.                       *)
LEMMA ElementsOfAppend ==
    ASSUME NEW S, NEW s \in Seq(S), NEW e \in S
    PROVE  /\ Elements(Append(s, e)) = Elements(s) \cup {e}
           /\ NoRepeats(s) /\ e \notin Elements(s) => NoRepeats(Append(s, e))
<1>1. /\ DOMAIN s = 1 .. Len(s)
      /\ Len(s) \in Nat
      /\ DOMAIN Append(s, e) = 1 .. (Len(s) + 1)
  BY LenProperties, AppendProperties
<1>2. /\ \A i \in 1 .. Len(s) : Append(s, e)[i] = s[i]
      /\ Append(s, e)[Len(s) + 1] = e
  BY AppendProperties
<1>3. \A i \in 1 .. (Len(s) + 1) : i \in 1 .. Len(s) \/ i = Len(s) + 1
  BY <1>1
<1>4. Elements(Append(s, e)) = Elements(s) \cup {e}
  BY <1>1, <1>2, <1>3 DEF Elements
<1>5. ASSUME NoRepeats(s), e \notin Elements(s)
      PROVE  NoRepeats(Append(s, e))
  BY <1>1, <1>2, <1>3, <1>5 DEF Elements, NoRepeats
<1> QED
  BY <1>4, <1>5

(* removeFirst takes the head out and nothing else.                        *)
LEMMA ElementsOfTail ==
    ASSUME NEW S, NEW s \in Seq(S), s # <<>>, NoRepeats(s)
    PROVE  /\ Head(s) \in S
           /\ Elements(s) = Elements(Tail(s)) \cup {Head(s)}
           /\ Head(s) \notin Elements(Tail(s))
           /\ NoRepeats(Tail(s))
<1>1. /\ Head(s) \in S
      /\ Tail(s) \in Seq(S)
      /\ Len(s) \in Nat \ {0}
      /\ DOMAIN s = 1 .. Len(s)
      /\ DOMAIN Tail(s) = 1 .. (Len(s) - 1)
      /\ Head(s) = s[1]
      /\ \A i \in 1 .. (Len(s) - 1) : Tail(s)[i] = s[i + 1]
  BY HeadTailProperties, LenProperties, EmptySeq
<1>2. \A i \in 1 .. Len(s) : i = 1 \/ i - 1 \in 1 .. (Len(s) - 1)
  BY <1>1
<1>3. \A i \in 1 .. (Len(s) - 1) : i + 1 \in 1 .. Len(s) /\ i + 1 # 1
  BY <1>1
<1>4. Elements(s) \subseteq Elements(Tail(s)) \cup {Head(s)}
  <2> SUFFICES ASSUME NEW i \in DOMAIN s
               PROVE  s[i] \in Elements(Tail(s)) \cup {Head(s)}
    BY DEF Elements
  <2>1. CASE i = 1
    BY <1>1, <2>1
  <2>2. CASE i # 1
    <3>1. i - 1 \in DOMAIN Tail(s) /\ Tail(s)[i - 1] = s[(i - 1) + 1]
      BY <1>1, <1>2, <2>2
    <3>2. (i - 1) + 1 = i
      BY <1>1
    <3> QED
      BY <3>1, <3>2 DEF Elements
  <2> QED
    BY <2>1, <2>2
<1>5. Elements(Tail(s)) \cup {Head(s)} \subseteq Elements(s)
  BY <1>1, <1>3 DEF Elements
<1>6. Head(s) \notin Elements(Tail(s))
  BY <1>1, <1>3 DEF Elements, NoRepeats
<1>7. NoRepeats(Tail(s))
  BY <1>1, <1>3 DEF NoRepeats
<1> QED
  BY <1>1, <1>4, <1>5, <1>6, <1>7

------------------------------------------------------------------------------
(* Every variable keeps its type, and a worker has a job exactly while it  *)
(* runs one.                                                               *)
THEOREM TypeCorrect == Spec => []TypeOK
<1>1. Init => TypeOK
  BY JobsAssumption, EmptySeq DEF Init, TypeOK
<1>2. TypeOK /\ [Next]_vars => TypeOK'
  <2> SUFFICES ASSUME TypeOK, [Next]_vars
               PROVE  TypeOK'
    OBVIOUS
  <2> USE JobsAssumption DEF TypeOK
  <2>1. ASSUME NEW j \in Jobs, Execute(j)
        PROVE  TypeOK'
    <3>1. queue' \in Seq(Jobs)
      BY <2>1, AppendProperties DEF Execute
    <3>2. /\ pc' \in [Workers -> {"woken", "waiting", "running", "dead"}]
          /\ \A w \in Workers : (pc'[w] = "running") <=> (pc[w] = "running")
      BY <2>1 DEF Execute, NotifyOne, Waiting
    <3> QED
      BY <2>1, <3>1, <3>2 DEF Execute
  <2>2. ASSUME NEW w \in Workers, Wait(w)
        PROVE  TypeOK'
    BY <2>2 DEF Wait
  <2>3. ASSUME NEW w \in Workers, Take(w)
        PROVE  TypeOK'
    BY <2>3, HeadTailProperties DEF Take
  <2>4. ASSUME NEW w \in Workers, End(w)
        PROVE  TypeOK'
    BY <2>4 DEF End
  <2>5. ASSUME NEW w \in Workers, Die(w)
        PROVE  TypeOK'
    BY <2>5 DEF Die
  <2>6. ASSUME NEW w \in Workers, WakeUnnotified(w)
        PROVE  TypeOK'
    BY <2>6 DEF WakeUnnotified
  <2>7. CASE UNCHANGED vars
    BY <2>7 DEF vars
  <2> QED
    BY <2>1, <2>2, <2>3, <2>4, <2>5, <2>6, <2>7 DEF Next, WorkerStep
<1> QED
  BY <1>1, <1>2, PTL DEF Spec

------------------------------------------------------------------------------
(* While a worker sleeps there is an awake one for every queued job: the   *)
(* single notify of execute loses no wakeup.                               *)
LEMMA WorkerSetsFinite ==
    /\ IsFiniteSet(Woken) /\ Cardinality(Woken) \in Nat
    /\ IsFiniteSet(Waiting) /\ Cardinality(Waiting) \in Nat
BY WorkersAssumption, FS_Subset, FS_CardinalityType DEF Woken, Waiting

(* No execute call goes unnoticed: WorkQueue never has a waiting thread    *)
(* while it has more jobs than threads about to look for one.              *)
THEOREM NoLostWakeup == Spec => []EnoughWoken
<1>1. Init => EnoughWoken
  BY DEF Init, EnoughWoken, Waiting
<1>2. TypeOK /\ EnoughWoken /\ [Next]_vars => EnoughWoken'
  <2> SUFFICES ASSUME TypeOK, EnoughWoken, [Next]_vars
               PROVE  EnoughWoken'
    OBVIOUS
  <2>0. Len(queue) \in Nat
    BY LenProperties DEF TypeOK
  <2>1. ASSUME NEW j \in Jobs, Execute(j)
        PROVE  EnoughWoken'
    <3>1. Len(queue') = Len(queue) + 1
      BY <2>1, AppendProperties DEF Execute, TypeOK
    <3>2. CASE Waiting = {} /\ UNCHANGED pc
      BY <3>2 DEF EnoughWoken, Waiting
    <3>3. ASSUME NEW w \in Waiting, pc' = [pc EXCEPT ![w] = "woken"]
          PROVE  EnoughWoken'
      <4>1. Woken' = Woken \cup {w} /\ w \notin Woken
        BY <3>3 DEF Woken, Waiting, TypeOK
      <4>2. Cardinality(Woken') = Cardinality(Woken) + 1
        BY <4>1, WorkerSetsFinite, FS_AddElement
      <4>3. Len(queue) <= Cardinality(Woken)
        BY <3>3 DEF EnoughWoken
      <4> QED
        BY <2>0, <3>1, <4>2, <4>3, WorkerSetsFinite DEF EnoughWoken
    <3> QED
      BY <2>1, <3>2, <3>3 DEF Execute, NotifyOne
  <2>2. ASSUME NEW w \in Workers, Wait(w)
        PROVE  EnoughWoken'
    <3>1. queue' = <<>> /\ Len(queue') = 0
      BY <2>2, EmptySeq DEF Wait
    <3>2. Woken' = Woken \ {w}
      BY <2>2 DEF Wait, Woken, TypeOK
    <3>3. Cardinality(Woken') \in Nat
      BY <3>2, WorkerSetsFinite, FS_RemoveElement, FS_CardinalityType
    <3> QED
      BY <3>1, <3>3 DEF EnoughWoken
  <2>3. ASSUME NEW w \in Workers, Take(w)
        PROVE  EnoughWoken'
    <3>1. Len(queue') = Len(queue) - 1
      BY <2>3, HeadTailProperties DEF Take, TypeOK
    <3>2. Woken' = Woken \ {w} /\ w \in Woken /\ Waiting' = Waiting
      BY <2>3 DEF Take, Woken, Waiting, TypeOK
    <3>3. Cardinality(Woken') = Cardinality(Woken) - 1
      BY <3>2, WorkerSetsFinite, FS_RemoveElement
    <3> QED
      BY <2>0, <3>1, <3>2, <3>3, WorkerSetsFinite DEF EnoughWoken
  <2>4. ASSUME NEW w \in Workers, End(w)
        PROVE  EnoughWoken'
    <3>1. /\ Woken' = Woken \cup {w} /\ w \notin Woken
          /\ Waiting' = Waiting /\ queue' = queue
      BY <2>4 DEF End, Woken, Waiting, TypeOK
    <3>2. Cardinality(Woken') = Cardinality(Woken) + 1
      BY <3>1, WorkerSetsFinite, FS_AddElement
    <3> QED
      BY <2>0, <3>1, <3>2, WorkerSetsFinite DEF EnoughWoken
  <2>5. ASSUME NEW w \in Workers, Die(w)
        PROVE  EnoughWoken'
    <3>1. Woken' = Woken /\ Waiting' = Waiting /\ queue' = queue
      BY <2>5 DEF Die, Woken, Waiting, TypeOK
    <3> QED
      BY <3>1 DEF EnoughWoken
  <2>6. ASSUME NEW w \in Workers, WakeUnnotified(w)
        PROVE  EnoughWoken'
    <3>1. /\ Woken' = Woken \cup {w} /\ w \notin Woken
          /\ Waiting' = Waiting \ {w}
          /\ queue' = queue
      BY <2>6 DEF WakeUnnotified, Woken, Waiting, TypeOK
    <3>2. Cardinality(Woken') = Cardinality(Woken) + 1
      BY <3>1, WorkerSetsFinite, FS_AddElement
    <3> QED
      BY <2>0, <3>1, <3>2, WorkerSetsFinite DEF EnoughWoken
  <2>7. CASE UNCHANGED vars
    BY <2>7 DEF vars, EnoughWoken, Waiting, Woken
  <2> QED
    BY <2>1, <2>2, <2>3, <2>4, <2>5, <2>6, <2>7 DEF Next, WorkerStep
<1> QED
  BY <1>1, <1>2, TypeCorrect, PTL DEF Spec
------------------------------------------------------------------------------
(* Every job handed over is in exactly one place.                          *)
LEMMA AccountedStep == TypeOK /\ TypeOK' /\ JobsAccounted /\ [Next]_vars => JobsAccounted'
<1> SUFFICES ASSUME TypeOK, TypeOK', JobsAccounted, [Next]_vars
             PROVE  JobsAccounted'
  OBVIOUS
<1>a1. Running = {current[w] : w \in Workers} \ {NoJob}
  BY DEF TypeOK, Running
<1>a2. Running' = {current'[w] : w \in Workers} \ {NoJob}
  BY DEF TypeOK, Running
<1>a. /\ Running = {current[w] : w \in Workers} \ {NoJob}
      /\ Running' = {current'[w] : w \in Workers} \ {NoJob}
  BY <1>a1, <1>a2
<1>b. /\ Queued = Elements(queue) /\ NoRepeats(queue)
      /\ Queued' = Elements(queue')
      /\ NoRepeats(queue') => (\A i, k \in DOMAIN queue : queue[i] = queue[k] => i = k)'
  BY DEF Queued, Elements, NoRepeats, JobsAccounted
<1>c. ASSUME UNCHANGED <<queue, current, submitted, finished, killed>>
      PROVE  JobsAccounted'
  BY <1>a, <1>c DEF JobsAccounted, Queued
<1>1. ASSUME NEW j \in Jobs, Execute(j)
      PROVE  JobsAccounted'
  <2>1. /\ Queued' = Queued \cup {j}
        /\ j \notin Queued => NoRepeats(queue')
    BY <1>1, <1>b, ElementsOfAppend DEF Execute, TypeOK
  <2>2. Running' = Running
    BY <1>1, <1>a DEF Execute
  <2>3. j \notin Queued \cup Running \cup finished \cup killed
    BY <1>1 DEF Execute, JobsAccounted
  <2> QED
    BY <1>1, <1>b, <2>1, <2>2, <2>3 DEF Execute, JobsAccounted
<1>2. ASSUME NEW w \in Workers, Wait(w) \/ WakeUnnotified(w)
      PROVE  JobsAccounted'
  BY <1>2, <1>c DEF Wait, WakeUnnotified
<1>3. ASSUME NEW w \in Workers, Take(w)
      PROVE  JobsAccounted'
  <2>1. /\ Head(queue) \in Jobs
        /\ Queued = Queued' \cup {Head(queue)}
        /\ Head(queue) \notin Queued'
        /\ NoRepeats(queue')
    BY <1>3, <1>b, ElementsOfTail DEF Take, TypeOK
  <2>2. /\ current[w] = NoJob
        /\ current'[w] = Head(queue)
        /\ \A v \in Workers \ {w} : current'[v] = current[v]
    BY <1>3 DEF Take, TypeOK
  <2>3. Head(queue) \notin Running /\ Running' = Running \cup {Head(queue)}
    BY <1>a, <2>1, <2>2, JobsAssumption DEF JobsAccounted
  <2>4. \A u, v \in Workers :
           (current'[u] = current'[v] /\ current'[u] # NoJob) => u = v
    BY <1>a, <2>2, <2>3 DEF JobsAccounted
  <2>5. UNCHANGED <<submitted, finished, killed>>
    BY <1>3 DEF Take
  <2> QED
    BY <1>b, <2>1, <2>3, <2>4, <2>5 DEF JobsAccounted
<1>4. ASSUME NEW w \in Workers, End(w) \/ Die(w)
      PROVE  JobsAccounted'
  <2>1. /\ pc[w] = "running"
        /\ current' = [current EXCEPT ![w] = NoJob]
        /\ \/ finished' = finished \cup {current[w]} /\ killed' = killed
           \/ finished' = finished /\ killed' = killed \cup {current[w]}
        /\ UNCHANGED <<queue, submitted>>
    BY <1>4 DEF End, Die
  <2>2. /\ current[w] # NoJob
        /\ current'[w] = NoJob
        /\ \A v \in Workers \ {w} : current'[v] = current[v]
    BY <2>1 DEF TypeOK
  <2>3. Running' = Running \ {current[w]} /\ current[w] \in Running
    BY <1>a, <2>2 DEF JobsAccounted
  <2>4. \A u, v \in Workers :
           (current'[u] = current'[v] /\ current'[u] # NoJob) => u = v
    BY <2>2 DEF JobsAccounted
  <2>5. Queued' = Queued /\ NoRepeats(queue')
    BY <1>b, <2>1 DEF Queued
  <2> QED
    BY <1>b, <2>1, <2>3, <2>4, <2>5 DEF JobsAccounted
<1>5. CASE UNCHANGED vars
  BY <1>5, <1>c DEF vars
<1> QED
  BY <1>1, <1>2, <1>3, <1>4, <1>5 DEF Next, WorkerStep

(* No job is dropped, run twice, or in two places, however the threads and *)
(* the callers of execute interleave.                                      *)
THEOREM NoJobLost == Spec => []JobsAccounted
<1>1. Init => JobsAccounted
  BY DEF Init, JobsAccounted, Queued, Running
<1> QED
  BY <1>1, AccountedStep, TypeCorrect, PTL DEF Spec
------------------------------------------------------------------------------
(* The queue with its threads behaves as the pool that JobPool describes.  *)
(* The step that needs an invariant is Take: a worker that finds a job is  *)
(* one of the threads the abstract pool still has to spare, because every  *)
(* thread is free, or running one job, or was killed by one.               *)
Free == {w \in Workers : pc[w] \in {"woken", "waiting"}}

PoolSize ==
    /\ IsFiniteSet(Running)
    /\ IsFiniteSet(killed)
    /\ Cardinality(Running) + Cardinality(killed) + Cardinality(Free) = Cardinality(Workers)

(* The free threads can be counted.                                        *)
LEMMA FreeFinite == IsFiniteSet(Free) /\ Cardinality(Free) \in Nat
BY WorkersAssumption, FS_Subset, FS_CardinalityType DEF Free

(* Taking a job adds one that was not running to those that are.           *)
LEMMA TakeRuns ==
    ASSUME TypeOK, JobsAccounted, NEW w \in Workers, Take(w)
    PROVE  /\ Head(queue) \notin Running
           /\ Running' = Running \cup {Head(queue)}
<1>1. Head(queue) \in Queued /\ Head(queue) \in Jobs
  BY ElementsOfTail DEF Take, TypeOK, JobsAccounted, NoRepeats, Elements, Queued
<1>2. Head(queue) \notin Running
  BY <1>1 DEF JobsAccounted
<1>3. /\ pc[w] # "running" /\ pc'[w] = "running" /\ current'[w] = Head(queue)
      /\ \A v \in Workers \ {w} : pc'[v] = pc[v] /\ current'[v] = current[v]
  BY DEF Take, TypeOK
<1>4. Running' = Running \cup {Head(queue)}
  BY <1>3 DEF Running
<1> QED
  BY <1>2, <1>4

(* A job that ends, in either way, is no longer running.                   *)
LEMMA EndReleases ==
    ASSUME TypeOK, JobsAccounted, NEW w \in Workers, End(w) \/ Die(w)
    PROVE  /\ current[w] \in Running \cap Jobs
           /\ Running' = Running \ {current[w]}
<1>1. /\ pc[w] = "running" /\ pc'[w] # "running"
      /\ \A v \in Workers \ {w} : pc'[v] = pc[v] /\ current'[v] = current[v]
  BY DEF End, Die, TypeOK
<1>2. current[w] # NoJob /\ current[w] \in Jobs /\ current[w] \in Running
  BY <1>1 DEF TypeOK, Running
<1>3. \A v \in Workers \ {w} : current[v] # current[w]
  BY <1>2 DEF JobsAccounted
<1>4. Running' = Running \ {current[w]}
  BY <1>1, <1>3 DEF Running
<1> QED
  BY <1>2, <1>4

(* Every step keeps the count of free, running and lost threads.           *)
LEMMA PoolSizeStep == TypeOK /\ JobsAccounted /\ PoolSize /\ [Next]_vars => PoolSize'
<1> SUFFICES ASSUME TypeOK, JobsAccounted, PoolSize, [Next]_vars
             PROVE  PoolSize'
  OBVIOUS
<1>0. /\ Cardinality(Running) \in Nat /\ Cardinality(killed) \in Nat
      /\ Cardinality(Workers) \in Nat /\ Cardinality(Free) \in Nat /\ IsFiniteSet(Free)
  BY FreeFinite, FS_CardinalityType, WorkersAssumption DEF PoolSize
<1>1. ASSUME Running' = Running, Free' = Free, killed' = killed
      PROVE  PoolSize'
  BY <1>1 DEF PoolSize
<1>2. ASSUME NEW j \in Jobs, Execute(j)
      PROVE  PoolSize'
  <2>1. /\ \A w \in Workers : (pc'[w] = "running") <=> (pc[w] = "running")
        /\ \A w \in Workers : (w \in Free') <=> (w \in Free)
    BY <1>2 DEF Execute, NotifyOne, Waiting, TypeOK, Free
  <2>2. Running' = Running
    BY <1>2, <2>1 DEF Execute, Running
  <2>3. Free' = Free
    BY <2>1 DEF Free
  <2> QED
    BY <1>1, <1>2, <2>2, <2>3 DEF Execute
<1>3. ASSUME NEW w \in Workers, Wait(w) \/ WakeUnnotified(w)
      PROVE  PoolSize'
  <2>1. Running' = Running
    BY <1>3 DEF Wait, WakeUnnotified, TypeOK, Running
  <2>2. Free' = Free
    BY <1>3 DEF Wait, WakeUnnotified, TypeOK, Free
  <2> QED
    BY <1>1, <1>3, <2>1, <2>2 DEF Wait, WakeUnnotified
<1>4. ASSUME NEW w \in Workers, Take(w)
      PROVE  PoolSize'
  <2>1. Free' = Free \ {w} /\ w \in Free /\ killed' = killed
    BY <1>4 DEF Take, TypeOK, Free
  <2>2. Cardinality(Free') = Cardinality(Free) - 1
    BY <1>0, <2>1, FS_RemoveElement
  <2>3. Cardinality(Running') = Cardinality(Running) + 1 /\ IsFiniteSet(Running')
    BY <1>4, TakeRuns, FS_AddElement DEF PoolSize
  <2> QED
    BY <1>0, <2>1, <2>2, <2>3 DEF PoolSize
<1>5. ASSUME NEW w \in Workers, End(w) \/ Die(w)
      PROVE  PoolSize'
  <2>1. Cardinality(Running') = Cardinality(Running) - 1 /\ IsFiniteSet(Running')
    BY <1>5, EndReleases, FS_RemoveElement DEF PoolSize
  <2>2. CASE End(w)
    <3>1. Free' = Free \cup {w} /\ w \notin Free /\ killed' = killed
      BY <2>2 DEF End, TypeOK, Free
    <3>2. Cardinality(Free') = Cardinality(Free) + 1
      BY <1>0, <3>1, FS_AddElement
    <3> QED
      BY <1>0, <2>1, <3>1, <3>2 DEF PoolSize
  <2>3. CASE Die(w)
    <3>1. Free' = Free /\ killed' = killed \cup {current[w]}
      BY <2>3 DEF Die, TypeOK, Free
    <3>2. current[w] \notin killed
      BY <1>5, EndReleases DEF JobsAccounted
    <3>3. Cardinality(killed') = Cardinality(killed) + 1 /\ IsFiniteSet(killed')
      BY <3>1, <3>2, FS_AddElement DEF PoolSize
    <3> QED
      BY <1>0, <2>1, <3>1, <3>3 DEF PoolSize
  <2> QED
    BY <1>5, <2>2, <2>3
<1>6. CASE UNCHANGED vars
  BY <1>1, <1>6 DEF vars, Running, Free
<1> QED
  BY <1>2, <1>3, <1>4, <1>5, <1>6 DEF Next, WorkerStep

(* The running jobs and the lost threads never exceed the pool.            *)
LEMMA PoolSizeInvariant == Spec => []PoolSize
<1>1. Init => PoolSize
  <2> SUFFICES ASSUME Init
               PROVE  PoolSize
    OBVIOUS
  <2>1. Running = {} /\ killed = {} /\ Free = Workers
    BY DEF Init, Running, Free
  <2> QED
    BY <2>1, FS_EmptySet, FS_CardinalityType, WorkersAssumption DEF PoolSize
<1> QED
  BY <1>1, PoolSizeStep, TypeCorrect, NoJobLost, PTL DEF Spec

(* WorkQueue, with its monitor, waits and wakeups, does only what the pool *)
(* of JobPool does: the safety half of ImplementsPool, for any number of   *)
(* threads and jobs.                                                       *)
THEOREM WorkQueueImplementsJobPool == Spec => Pool!Spec
<1>1. Init => Pool!Init
  BY DEF Init, Pool!Init, Running
<1>2. TypeOK /\ JobsAccounted /\ PoolSize /\ [Next]_vars => [Pool!Next]_(Pool!poolVars)
  <2> SUFFICES ASSUME TypeOK, JobsAccounted, PoolSize, [Next]_vars
               PROVE  [Pool!Next]_(Pool!poolVars)
    OBVIOUS
  <2>1. ASSUME NEW j \in Jobs, Execute(j)
        PROVE  Pool!Submit(j)
    <3>1. \A w \in Workers : (pc'[w] = "running") <=> (pc[w] = "running")
      BY <2>1 DEF Execute, NotifyOne, Waiting, TypeOK
    <3>2. Running' = Running
      BY <2>1, <3>1 DEF Execute, Running
    <3>3. j \notin Pool!Accepted
      BY <2>1 DEF Execute, JobsAccounted, Queued, Pool!Accepted
    <3> QED
      BY <2>1, <3>2, <3>3 DEF Execute, Pool!Submit
  <2>2. ASSUME NEW w \in Workers, Wait(w) \/ WakeUnnotified(w)
        PROVE  UNCHANGED Pool!poolVars
    <3>1. Running' = Running
      BY <2>2 DEF Wait, WakeUnnotified, TypeOK, Running
    <3> QED
      BY <2>2, <3>1 DEF Wait, WakeUnnotified, Pool!poolVars
  <2>3. ASSUME NEW w \in Workers, Take(w)
        PROVE  Pool!Start
    <3>1. w \in Free
      BY <2>3 DEF Take, Free
    <3>2. Cardinality(Free) \in Nat \ {0}
      BY <3>1, FreeFinite, FS_EmptySet
    <3>3. Cardinality(Running) + Cardinality(killed) < Cardinality(Workers)
      BY <3>2, FS_CardinalityType, WorkersAssumption DEF PoolSize
    <3>4. \A S : Pool!Cardinality(S) = Cardinality(S)
      BY DEF Cardinality, Pool!Cardinality, IsFiniteSet, Pool!IsFiniteSet
    <3> QED
      BY <2>3, <3>3, <3>4, TakeRuns DEF Take, Pool!Start
  <2>4. ASSUME NEW w \in Workers, End(w)
        PROVE  Pool!Finish(current[w]) /\ current[w] \in Jobs
    BY <2>4, EndReleases DEF End, Pool!Finish
  <2>5. ASSUME NEW w \in Workers, Die(w)
        PROVE  Pool!Kill(current[w]) /\ current[w] \in Jobs
    BY <2>5, EndReleases DEF Die, Pool!Kill
  <2>6. CASE UNCHANGED vars
    BY <2>6 DEF vars, Pool!poolVars, Running
  <2> QED
    BY <2>1, <2>2, <2>3, <2>4, <2>5, <2>6 DEF Next, WorkerStep, Pool!Next
<1> QED
  BY <1>1, <1>2, TypeCorrect, NoJobLost, PoolSizeInvariant, PTL DEF Spec, Pool!Spec
==============================================================================
