------------------------------- MODULE MCLedger -------------------------------
(* Ledger for TLC: two tasks and three moments after the start.  What is     *)
(* shown of stored rows is checked by the assumptions of the modules extended. *)
EXTENDS Ledger, MCReports, MCOrderViews, TLC

CONSTANTS t1, t2

MCTasks  == {t1, t2}
Symmetry == Permutations(MCTasks)
=============================================================================
