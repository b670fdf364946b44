--------------------------- MODULE MCNotifications ---------------------------
(* Two users, two tokens, two request threads and the two threads of the   *)
(* pool; ints have three bits, a page at most two rows.                    *)
EXTENDS Notifications

CONSTANTS t1, t2, w1, w2

MCThreads == {t1, t2, w1, w2}
MCWorkers == {w1, w2}
MCLimits == {-4, 3, Absent}
==============================================================================
