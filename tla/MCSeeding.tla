------------------------------ MODULE MCSeeding ------------------------------
(* Two members, two episodes of which the second follows the first; nobody *)
(* is on the second to begin with.                                         *)
EXTENDS Seeding

CONSTANTS m1, m2, e1, e2

OneNext == {<<e1, e2>>}
StartInit == SeedingInit /\ \A m \in Member : eng[m].local # e2
StartSpec == StartInit /\ [][SeedingNext]_seedingVars /\ SeedingFairness
=============================================================================
