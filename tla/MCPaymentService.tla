-------------------------- MODULE MCPaymentService --------------------------
(* Instances of PaymentService for TLC. *)
EXTENDS PaymentService, TLC

Symmetric ==
    Permutations(Payments) \cup Permutations(Refunds) \cup Permutations(Requests)
        \cup Permutations(Keys \ {EmptyKey})
=============================================================================
