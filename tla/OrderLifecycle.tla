--------------------------- MODULE OrderLifecycle ---------------------------
(***************************************************************************)
(* The state machine of an order (internal/domain/order.go), as a contract: *)
(* whatever requests run side by side, the status of an order is created    *)
(* PENDING and then only follows ValidTransitions.                          *)
(***************************************************************************)
CONSTANT Orders

VARIABLE status  \* status of each order, "NONE" before it is created

OrderStatus == {"PENDING", "PAID", "CONFIRMED", "SHIPPED", "DELIVERED",
                "COMPLETED", "CANCELLED", "REFUNDED"}

ValidTransitions ==
    [PENDING   |-> {"PAID", "CANCELLED"},
     PAID      |-> {"CONFIRMED", "CANCELLED", "REFUNDED"},
     CONFIRMED |-> {"SHIPPED", "CANCELLED"},
     SHIPPED   |-> {"DELIVERED"},
     DELIVERED |-> {"COMPLETED"},
     COMPLETED |-> {},
     CANCELLED |-> {},
     REFUNDED  |-> {}]

CanTransitionTo(s, target) == s \in OrderStatus /\ target \in ValidTransitions[s]

Init == status = [o \in Orders |-> "NONE"]

Create(o) ==
    /\ status[o] = "NONE"
    /\ status' = [status EXCEPT ![o] = "PENDING"]

Move(o, target) ==
    /\ CanTransitionTo(status[o], target)
    /\ status' = [status EXCEPT ![o] = target]

Next ==
    \E o \in Orders :
        \/ Create(o)
        \/ \E target \in OrderStatus : Move(o, target)

Spec == Init /\ [][Next]_status
=============================================================================
