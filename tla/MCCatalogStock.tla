--------------------------- MODULE MCCatalogStock ---------------------------
(* Instances of CatalogStock for TLC. *)
EXTENDS CatalogStock, TLC

Symmetric == Permutations(Carts) \cup Permutations(Sessions)
=============================================================================
