----------------------------- MODULE MCAccounts -----------------------------
(* Accounts for TLC: two workers and two passwords.                        *)
EXTENDS Accounts, TLC

CONSTANTS w1, w2, a, b

MCWorkers   == {w1, w2}
MCPasswords == {a, b}
MCRequests  == w1 :> {"login", "reset", "google"} @@ w2 :> Kinds
Symmetry    == Permutations(MCPasswords)
=============================================================================
