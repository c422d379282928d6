---------------------------- MODULE MCMessaging ----------------------------
(* Messaging for TLC: two workers and two conversations.  Neither workers  *)
(* nor conversations are told apart, and no property is a temporal one.    *)
EXTENDS Messaging, TLC

CONSTANTS w1, w2, t1, t2

MCWorkers  == {w1, w2}
MCThreads  == {t1, t2}
MCSymmetry == Permutations(MCWorkers) \cup Permutations(MCThreads)
=============================================================================
