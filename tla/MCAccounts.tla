------------------------------ MODULE MCAccounts ------------------------------
(* Two requests overlap; the .cfg files bound the tokens, the passwords    *)
(* and the failed logins.                                                  *)
EXTENDS Accounts, TLC

Symmetry == Permutations(Requests) \cup Permutations(Passwords) \cup Permutations(ResetTokens)
==============================================================================
