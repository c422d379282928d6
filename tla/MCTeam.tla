------------------------------- MODULE MCTeam -------------------------------
(* Team for TLC: two users, two shops, two workers.                        *)
EXTENDS Team, TLC

CONSTANTS u1, u2, s1, s2, w1, w2

MCUsers   == {u1, u2}
MCShops   == {s1, s2}
MCWorkers == {w1, w2}
MCKinds   == AllKinds
Symmetry  == Permutations(MCShops) \cup Permutations(MCWorkers)
=============================================================================
