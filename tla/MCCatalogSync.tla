--------------------------- MODULE MCCatalogSync ---------------------------
(* Instances of CatalogSync for TLC. *)
EXTENDS CatalogSync, TLC

AllFaults == FaultKinds
PoisonOnly == {"poison"}

Symmetry == Permutations(Runs)
=============================================================================
