--------------------------- MODULE MCOrderService ---------------------------
(* Instances of OrderService for TLC. *)
EXTENDS OrderService, TLC

Symmetric ==
    Permutations(Users) \cup Permutations(Products) \cup Permutations(Orders)
        \cup Permutations(Requests)
=============================================================================
