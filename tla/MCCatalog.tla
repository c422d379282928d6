------------------------------ MODULE MCCatalog ------------------------------
(* Catalog for TLC: an upload, two listings, two syncs.                    *)
EXTENDS Catalog, TLC

CONSTANTS b1, l1, l2, s1, s2

MCBatches  == {b1}
MCListings == {l1, l2}
MCSyncs    == {s1, s2}
Symmetry   == Permutations(MCListings) \cup Permutations(MCSyncs)
=============================================================================
