--------------------------------- MODULE MCCell ---------------------------------
(***************************************************************************)
(* Instances of EdgeCell for TLC: two strategies and a cycle, a grant for  *)
(* each and a renewal for the first, and the manifests the centre ships.   *)
(***************************************************************************)
EXTENDS EdgeCell, TLC

CONSTANTS g1, g2, g3

MCGrantee == [g \in Grants |-> IF g = g2 THEN 2 ELSE 1]
MCGross == [g \in Grants |-> IF g = g1 THEN 2 ELSE 1]
MCManifests == {{g1, g2}, {g2}}

MCSymmetry == Permutations(Slots)
=================================================================================
