--------------------------- MODULE MCHazardDomain ---------------------------
(* HazardDomain on small sets of threads, nodes and objects.                *)
EXTENDS HazardDomain, TLC

Symmetry == Permutations(Clients) \cup Permutations(Collectors)
                \cup Permutations(Objects)
=============================================================================
