--------------------------- MODULE MCWithdrawals ---------------------------
(***************************************************************************)
(* The withdrawals of payment-service and, as they share no state with it,   *)
(* beside them the rate limiter that their requests pass in the gateway: a    *)
(* behaviour is about one of the two, which part names.                      *)
(***************************************************************************)
EXTENDS Withdrawals, RateLimiter, TLC

VARIABLE part

partVars == <<part, vars, limiterVars>>

PartInit == part \in {"withdrawals", "limiter"} /\ Init /\ LimiterInit

PartNext ==
    /\ UNCHANGED part
    /\ IF part = "withdrawals" THEN Next ELSE UNCHANGED vars
    /\ IF part = "limiter" THEN LimiterNext ELSE UNCHANGED limiterVars

PartSpec == PartInit /\ [][PartNext]_partVars

Symmetric == Permutations(Withdrawals) \cup Permutations(Requests)
=============================================================================
