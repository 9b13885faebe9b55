---------------------------- MODULE MCFlashSale ----------------------------
(* Instances of FlashSale for TLC. *)
EXTENDS FlashSale, TLC

Symmetric == Permutations(Users) \cup Permutations(Items) \cup Permutations(Requests)
=============================================================================
