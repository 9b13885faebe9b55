----------------------------- MODULE StockLedger -----------------------------
(***************************************************************************)
(* What the inventory of catalog-service promises its callers: a product    *)
(* has a number of units, every cart holds some of them, and no more units  *)
(* are held than there are.  CatalogStock implements it with a reserved     *)
(* counter and a table of reservations.                                     *)
(***************************************************************************)
EXTENDS Integers, FiniteSetsExt

CONSTANTS Products, Carts

VARIABLES
    stock,  \* units of each product not yet sold
    held    \* units of each product held for each cart

vars == <<stock, held>>

Held(p) == MapThenSumSet(LAMBDA c : held[p][c], Carts)

Init ==
    /\ stock = [p \in Products |-> 0]
    /\ held = [p \in Products |-> [c \in Carts |-> 0]]

\* A cart holds n units in place of what it held before.
Hold(p, c, n) ==
    /\ Held(p) - held[p][c] + n <= stock[p]
    /\ held' = [held EXCEPT ![p][c] = n]
    /\ UNCHANGED stock

\* The units a cart holds return to sale.
Drop(p, c) ==
    /\ held' = [held EXCEPT ![p][c] = 0]
    /\ UNCHANGED stock

\* The units a cart holds are sold.
Consume(p, c) ==
    /\ stock' = [stock EXCEPT ![p] = @ - held[p][c]]
    /\ held' = [held EXCEPT ![p][c] = 0]

\* The seller counts the stock anew: any number that covers what is held.
Count(p) ==
    /\ stock'[p] \in Nat /\ stock'[p] >= Held(p)
    /\ stock' = [stock EXCEPT ![p] = stock'[p]]
    /\ UNCHANGED held

Next ==
    \E p \in Products :
        \/ \E c \in Carts :
            \/ \E n \in 1..stock[p] : Hold(p, c, n)
            \/ Drop(p, c)
            \/ Consume(p, c)
        \/ Count(p)

Spec == Init /\ [][Next]_vars
=============================================================================
