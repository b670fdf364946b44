---------------------------- MODULE MCWorkQueue ----------------------------
(* JobService's queue: two workers, four jobs, one of which throws an      *)
(* Error.  More jobs than workers let the queue grow while both are busy.  *)
EXTENDS WorkQueue

CONSTANTS w1, w2, j1, j2, j3, j4

MCWorkers == {w1, w2}
MCJobs == {j1, j2, j3, j4}
MCFatal == {j1}
==============================================================================
