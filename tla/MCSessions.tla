----------------------------- MODULE MCSessions -----------------------------
(* Instances of Sessions for TLC.                                          *)
EXTENDS Sessions, TLC

Symmetry == Permutations(Users) \cup Permutations(Sids)
            \cup Permutations(Requests) \cup Permutations(Workers)

(* What the steps and the properties of the run depend on: not on out, and *)
(* not on who stored a row that was deleted since.                         *)
View == <<live, context, logins, rows, queue, worker, req, crashes, created, gone, cleared, excused,
          {<<x.login, x.sid>> : x \in stored}>>
==============================================================================
