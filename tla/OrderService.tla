---------------------------- MODULE OrderService ----------------------------
(***************************************************************************)
(* order-service: carts, the checkout saga, cancellation and the callback   *)
(* of payment-service (internal/service/order_service.go).                  *)
(*                                                                          *)
(* A request is a goroutine that works through database statements and HTTP *)
(* calls; each step below is one of them, so that requests interleave where  *)
(* the code lets them.  catalog-service is seen through its HTTP replies: a  *)
(* call is atomic and holds units as StockLedger says (CatalogStock models   *)
(* what happens inside).  A reservation is identified by its product and the *)
(* user, whose only cart it belongs to: catalog-service hands the same       *)
(* reservation to every call about the same pair.                           *)
(***************************************************************************)
EXTENDS Integers, FiniteSetsExt

CONSTANTS
    Users,            \* customers; each owns the one cart of that user
    Products,
    Orders,           \* order ids (uuid.New)
    Requests,         \* requests in flight at the same time
    Keys,             \* Idempotency-Key headers sent with a checkout
    InitStock,        \* units of each product on sale
    MaxItems,         \* cfg.Cart.MaxItems
    MaxQtyPerItem,    \* cfg.Cart.MaxQtyPerItem
    MaxItemsPerOrder, \* cfg.Order.MaxItemsPerOrder
    MaxRetries,       \* backoff.WithMaxRetries of the catalog calls
    CartBound,        \* bound: quantity of a cart item to which AddToCart adds
    Calls,            \* endpoints the environment calls
    Faults,           \* failures the environment shows
    OneOrderPerUser   \* TRUE: a user checks out once

Endpoints == {"add", "edit", "checkout", "cancel", "paid", "failed", "time"}

ASSUME OrderAssumption ==
    /\ InitStock \in Nat /\ MaxItems \in Nat /\ MaxItemsPerOrder \in Nat
    /\ MaxQtyPerItem \in Nat \ {0} /\ MaxRetries \in Nat /\ CartBound \in Nat
    /\ Calls \subseteq Endpoints
    /\ Faults \subseteq {"net", "db", "crash"}
    /\ OneOrderPerUser \in BOOLEAN

VARIABLES
    cart,       \* order_svc.cart_items: quantity of each product, by user
    orders,     \* order_svc.orders with its order_items
    published,  \* how often each event of an order went to Kafka
    overdue,    \* PENDING orders whose expires_at has passed
    req,        \* the state of each request
    stock,      \* catalog-service: units not sold
    resv        \* catalog-service: the reservation of each product and user

orderVars == <<cart, orders, published, overdue>>
catalogVars == <<stock, resv>>
vars == <<cart, orders, published, overdue, req, stock, resv>>

-----------------------------------------------------------------------------
(* Data *)

Lifecycle == INSTANCE OrderLifecycle WITH
    status <- [o \in Orders |-> orders[o].status]

OrderStatus == Lifecycle!OrderStatus
CanTransitionTo(s, target) == Lifecycle!CanTransitionTo(s, target)

Items == [Products -> Nat]
NoItems == [p \in Products |-> 0]
InCart(items) == {p \in Products : items[p] > 0}

NoOrder == [status |-> "NONE"]
\* key is kept for the properties only: Checkout never stores the key it is sent.
Order == [status: OrderStatus, version: Nat, user: Users, items: Items,
          paymentId: BOOLEAN, key: Keys]

Events == {"created", "paid", "cancelled", "payment_failed"}

Idle == [op |-> "idle"]
AddReq == [op: {"add"}, u: Users, p: Products, n: Nat]
CheckoutReq == [op: {"checkout"}, pc: {"reserve", "undo", "clear"}, u: Users,
                o: Orders, key: Keys, items: Items, done: SUBSET Products, tries: 0..MaxRetries]
\* CancelOrder and UpdatePaymentStatus keep the row they read.
UpdateReq == [op: {"cancel", "paid"}, pc: {"update", "stock"}, o: Orders,
              status: OrderStatus, version: Nat, todo: SUBSET Products]

Reservation == [status: {"NONE", "ACTIVE", "CONFIRMED", "RELEASED"}, quantity: Nat]

TypeOK ==
    /\ cart \in [Users -> Items]
    /\ orders \in [Orders -> {NoOrder} \cup Order]
    /\ published \in [Orders -> [Events -> Nat]]
    /\ overdue \subseteq Orders
    /\ req \in [Requests -> {Idle} \cup AddReq \cup CheckoutReq \cup UpdateReq]
    /\ stock \in [Products -> Int]
    /\ resv \in [Products -> [Users -> Reservation]]

Init ==
    /\ cart = [u \in Users |-> NoItems]
    /\ orders = [o \in Orders |-> NoOrder]
    /\ published = [o \in Orders |-> [e \in Events |-> 0]]
    /\ overdue = {}
    /\ req = [h \in Requests |-> Idle]
    /\ stock = [p \in Products |-> InitStock]
    /\ resv = [p \in Products |-> [u \in Users |-> [status |-> "NONE", quantity |-> 0]]]

Step(h, x) == req' = [req EXCEPT ![h] = x]
End(h) == Step(h, Idle)

\* WriteMessages; a failure is logged and dropped.
publishOrderEvent(o, e) ==
    \/ published' = [published EXCEPT ![o][e] = @ + 1]
    \/ "net" \in Faults /\ UNCHANGED published

-----------------------------------------------------------------------------
(* catalog-service, as its callers see it *)

Reserved(p) ==
    MapThenSumSet(LAMBDA u : resv[p][u].quantity,
                  {u \in Users : resv[p][u].status = "ACTIVE"})

\* The reply of POST /reserve: 409 when fewer than n units are available, units
\* already reserved for the same cart included; a server error when the pair has
\* a reservation that is not ACTIVE any more (UNIQUE(product_id, cart_id)).
ReserveReply(p, u, n) ==
    IF stock[p] - Reserved(p) < n THEN "conflict"
    ELSE IF resv[p][u].status \in {"NONE", "ACTIVE"} THEN "ok" ELSE "error"

CatalogReserve(p, u, n) ==
    resv' = [resv EXCEPT ![p][u] = [status |-> "ACTIVE", quantity |-> n]]

\* POST /release and POST /confirm; the callers ignore every error.
releaseStock(p, u) ==
    /\ UNCHANGED stock
    /\ \/ /\ resv[p][u].status = "ACTIVE"
          /\ resv' = [resv EXCEPT ![p][u].status = "RELEASED"]
       \/ /\ resv[p][u].status # "ACTIVE" \/ "net" \in Faults
          /\ UNCHANGED resv

confirmStock(p, u) ==
    \/ /\ resv[p][u].status = "ACTIVE"
       /\ resv' = [resv EXCEPT ![p][u].status = "CONFIRMED"]
       /\ stock' = [stock EXCEPT ![p] = @ - resv[p][u].quantity]
    \/ /\ resv[p][u].status # "ACTIVE" \/ "net" \in Faults
       /\ UNCHANGED catalogVars

-----------------------------------------------------------------------------
(* Cart *)

\* AddToCart up to the upsert: the product as the catalog's cache shows it (at
\* most as many units as ever were on sale) and the number of items in the cart.
AddToCart(h, u, p, n) ==
    /\ "add" \in Calls /\ req[h] = Idle
    /\ n \in 1..MaxQtyPerItem /\ n <= InitStock
    /\ Cardinality(InCart(cart[u])) < MaxItems
    /\ cart[u][p] <= CartBound
    /\ Step(h, [op |-> "add", u |-> u, p |-> p, n |-> n])
    /\ UNCHANGED <<orderVars, catalogVars>>

\* INSERT ... ON CONFLICT DO UPDATE SET quantity = quantity + EXCLUDED.quantity
UpsertCartItem(h) ==
    /\ req[h].op = "add"
    /\ \/ cart' = [cart EXCEPT ![req[h].u][req[h].p] = @ + req[h].n]
       \/ "db" \in Faults /\ UNCHANGED cart
    /\ End(h)
    /\ UNCHANGED <<orders, published, overdue, catalogVars>>

UpdateCartItem(u, p, n) ==
    /\ "edit" \in Calls
    /\ n \in 1..MaxQtyPerItem
    /\ cart[u][p] > 0
    /\ cart' = [cart EXCEPT ![u][p] = n]
    /\ UNCHANGED <<orders, published, overdue, req, catalogVars>>

RemoveFromCart(u, p) ==
    /\ "edit" \in Calls
    /\ cart' = [cart EXCEPT ![u][p] = 0]
    /\ UNCHANGED <<orders, published, overdue, req, catalogVars>>

ClearCart(u) ==
    /\ "edit" \in Calls
    /\ cart' = [cart EXCEPT ![u] = NoItems]
    /\ UNCHANGED <<orders, published, overdue, req, catalogVars>>

-----------------------------------------------------------------------------
(* Checkout *)

CheckingOut(o) == \E h \in Requests : req[h].op = "checkout" /\ req[h].o = o

HasOrder(u) ==
    \/ \E o \in Orders : orders[o] # NoOrder /\ orders[o].user = u
    \/ \E h \in Requests : req[h].op = "checkout" /\ req[h].u = u

\* Read the cart, open the transaction, INSERT the order and its items: nobody
\* sees the rows before the commit.
Checkout(h, u, o, k) ==
    /\ "checkout" \in Calls /\ req[h] = Idle
    /\ OneOrderPerUser => ~HasOrder(u)
    /\ orders[o] = NoOrder /\ ~CheckingOut(o)
    /\ InCart(cart[u]) # {} /\ Cardinality(InCart(cart[u])) <= MaxItemsPerOrder
    /\ Step(h, [op |-> "checkout", pc |-> "reserve", u |-> u, o |-> o, key |-> k,
                items |-> cart[u], done |-> {}, tries |-> 0])
    /\ UNCHANGED <<orderVars, catalogVars>>

\* Mutant: one attempt too many.
BugRetryOrUndo(h, x) ==
    \/ x.tries <= MaxRetries /\ Step(h, [x EXCEPT !.tries = @ + 1])
    \/ x.tries > MaxRetries /\ Step(h, [x EXCEPT !.pc = "undo", !.tries = 0])

\* A retryable failure of the call: the next attempt, or the compensations.
RetryOrUndo(h, x) ==
    \/ x.tries < MaxRetries /\ Step(h, [x EXCEPT !.tries = @ + 1])
    \/ x.tries >= MaxRetries /\ Step(h, [x EXCEPT !.pc = "undo", !.tries = 0])

\* Mutant: the error of a failed call is dropped, as those of the other calls are.
BugReserveItem(h, p) ==
    /\ req[h].op = "checkout" /\ req[h].pc = "reserve"
    /\ p \in InCart(req[h].items) \ req[h].done
    /\ LET x == req[h]
       IN  \/ /\ ReserveReply(p, x.u, x.items[p]) = "ok"
              /\ CatalogReserve(p, x.u, x.items[p])
           \/ /\ ReserveReply(p, x.u, x.items[p]) # "ok" \/ "net" \in Faults
              /\ UNCHANGED resv
    /\ Step(h, [req[h] EXCEPT !.done = @ \cup {p}, !.tries = 0])
    /\ UNCHANGED <<orderVars, stock>>

\* One attempt of reserveStockWithRetry for the item p, and what Checkout does
\* with its outcome.
ReserveItem(h, p) ==
    /\ req[h].op = "checkout" /\ req[h].pc = "reserve"
    /\ p \in InCart(req[h].items) \ req[h].done
    /\ LET x == req[h]
           reply == ReserveReply(p, x.u, x.items[p])
       IN  \/ /\ reply = "ok"
              /\ CatalogReserve(p, x.u, x.items[p])
              /\ \/ Step(h, [x EXCEPT !.done = @ \cup {p}, !.tries = 0])
                 \* UPDATE order_items failed: Checkout returns at once
                 \/ "db" \in Faults /\ End(h)
                 \* the reply is lost
                 \/ "net" \in Faults /\ RetryOrUndo(h, x)
           \/ /\ reply = "conflict"
              /\ Step(h, [x EXCEPT !.pc = "undo", !.tries = 0])
              /\ UNCHANGED resv
           \/ /\ reply = "error" \/ "net" \in Faults
              /\ RetryOrUndo(h, x)
              /\ UNCHANGED resv
    /\ UNCHANGED <<orderVars, stock>>

\* tx.Commit; on error the compensations run.
CommitOrder(h) ==
    /\ req[h].op = "checkout" /\ req[h].pc = "reserve"
    /\ req[h].done = InCart(req[h].items)
    /\ \/ /\ orders' = [orders EXCEPT ![req[h].o] =
                          [status |-> "PENDING", version |-> 1, user |-> req[h].u,
                           items |-> req[h].items, paymentId |-> FALSE,
                           key |-> req[h].key]]
          /\ Step(h, [req[h] EXCEPT !.pc = "clear"])
       \/ /\ "db" \in Faults
          /\ Step(h, [req[h] EXCEPT !.pc = "undo"])
          /\ UNCHANGED orders
    /\ UNCHANGED <<cart, published, overdue, catalogVars>>

\* The compensations: release what was reserved, then the deferred rollback.
CompensateItem(h, p) ==
    /\ req[h].op = "checkout" /\ req[h].pc = "undo"
    /\ p \in req[h].done
    /\ releaseStock(p, req[h].u)
    /\ Step(h, [req[h] EXCEPT !.done = @ \ {p}])
    /\ UNCHANGED orderVars

\* Mutant: the request ends before the compensations are through.
BugAbortCheckout(h) ==
    /\ req[h].op = "checkout" /\ req[h].pc = "undo"
    /\ End(h)
    /\ UNCHANGED <<orderVars, catalogVars>>

AbortCheckout(h) ==
    /\ req[h].op = "checkout" /\ req[h].pc = "undo"
    /\ req[h].done = {}
    /\ End(h)
    /\ UNCHANGED <<orderVars, catalogVars>>

\* DELETE the cart's items, whatever they are by now (an error is ignored).
FinishCheckout(h) ==
    /\ req[h].op = "checkout" /\ req[h].pc = "clear"
    /\ \/ cart' = [cart EXCEPT ![req[h].u] = NoItems]
       \/ "db" \in Faults /\ UNCHANGED cart
    /\ publishOrderEvent(req[h].o, "created")
    /\ End(h)
    /\ UNCHANGED <<orders, overdue, catalogVars>>

-----------------------------------------------------------------------------
(* CancelOrder and UpdatePaymentStatus *)

ReadOrder(h, o, op) ==
    Step(h, [op |-> op, pc |-> "update", o |-> o, status |-> orders[o].status,
             version |-> orders[o].version, todo |-> {}])

\* Mutant: UPDATE ... WHERE id = $1, without the version.
BugVersionMatches(x) == TRUE

VersionMatches(x) == orders[x.o].version = x.version

CancelOrder(h, o) ==
    /\ "cancel" \in Calls /\ req[h] = Idle
    /\ orders[o] # NoOrder
    /\ CanTransitionTo(orders[o].status, "CANCELLED")
    /\ ReadOrder(h, o, "cancel")
    /\ UNCHANGED <<orderVars, catalogVars>>

\* UPDATE ... WHERE version = read version; no row: "concurrent update".
UpdateCancelled(h) ==
    /\ req[h].op = "cancel" /\ req[h].pc = "update"
    /\ LET x == req[h]
       IN  \/ /\ VersionMatches(x)
              /\ orders' = [orders EXCEPT ![x.o].status = "CANCELLED", ![x.o].version = @ + 1]
              /\ Step(h, [x EXCEPT !.pc = "stock", !.todo = InCart(orders[x.o].items)])
           \/ /\ ~VersionMatches(x) \/ "db" \in Faults
              /\ End(h)
              /\ UNCHANGED orders
    /\ UNCHANGED <<cart, published, overdue, catalogVars>>

ReleaseItem(h, p) ==
    /\ req[h].op = "cancel" /\ req[h].pc = "stock"
    /\ p \in req[h].todo
    /\ releaseStock(p, orders[req[h].o].user)
    /\ Step(h, [req[h] EXCEPT !.todo = @ \ {p}])
    /\ UNCHANGED orderVars

\* Mutant: the loop over the items is left early.
BugFinishCancel(h) ==
    /\ req[h].op = "cancel" /\ req[h].pc = "stock"
    /\ publishOrderEvent(req[h].o, "cancelled")
    /\ End(h)
    /\ UNCHANGED <<cart, orders, overdue, catalogVars>>

FinishCancel(h) ==
    /\ req[h].op = "cancel" /\ req[h].pc = "stock"
    /\ req[h].todo = {}
    /\ publishOrderEvent(req[h].o, "cancelled")
    /\ End(h)
    /\ UNCHANGED <<cart, orders, overdue, catalogVars>>

\* UpdatePaymentStatus(SUCCEEDED)
PaymentSucceeded(h, o) ==
    /\ "paid" \in Calls /\ req[h] = Idle
    /\ orders[o] # NoOrder
    /\ CanTransitionTo(orders[o].status, "PAID")
    /\ ReadOrder(h, o, "paid")
    /\ UNCHANGED <<orderVars, catalogVars>>

\* The same conditional UPDATE, but the number of rows is not looked at.
UpdatePaid(h) ==
    /\ req[h].op = "paid" /\ req[h].pc = "update"
    /\ LET x == req[h]
       IN  \/ /\ \/ /\ VersionMatches(x)
                    /\ orders' = [orders EXCEPT ![x.o].status = "PAID",
                                                ![x.o].paymentId = TRUE,
                                                ![x.o].version = @ + 1]
                 \/ ~VersionMatches(x) /\ UNCHANGED orders
              /\ Step(h, [x EXCEPT !.pc = "stock", !.todo = InCart(orders[x.o].items)])
           \/ "db" \in Faults /\ End(h) /\ UNCHANGED orders
    /\ UNCHANGED <<cart, published, overdue, catalogVars>>

ConfirmItem(h, p) ==
    /\ req[h].op = "paid" /\ req[h].pc = "stock"
    /\ p \in req[h].todo
    /\ confirmStock(p, orders[req[h].o].user)
    /\ Step(h, [req[h] EXCEPT !.todo = @ \ {p}])
    /\ UNCHANGED orderVars

\* Mutant: the loop over the items is left early.
BugFinishPaid(h) ==
    /\ req[h].op = "paid" /\ req[h].pc = "stock"
    /\ publishOrderEvent(req[h].o, "paid")
    /\ End(h)
    /\ UNCHANGED <<cart, orders, overdue, catalogVars>>

FinishPaid(h) ==
    /\ req[h].op = "paid" /\ req[h].pc = "stock"
    /\ req[h].todo = {}
    /\ publishOrderEvent(req[h].o, "paid")
    /\ End(h)
    /\ UNCHANGED <<cart, orders, overdue, catalogVars>>

\* UpdatePaymentStatus(FAILED); bound: one event per order.
PaymentFailed(o) ==
    /\ "failed" \in Calls
    /\ orders[o] # NoOrder /\ published[o]["payment_failed"] = 0
    /\ publishOrderEvent(o, "payment_failed")
    /\ UNCHANGED <<cart, orders, overdue, req, catalogVars>>

-----------------------------------------------------------------------------

\* expires_at of a PENDING order passes; nothing in the service reads it.
TimePasses(o) ==
    /\ "time" \in Calls
    /\ orders[o].status = "PENDING" /\ o \notin overdue
    /\ overdue' = overdue \cup {o}
    /\ UNCHANGED <<cart, orders, published, req, catalogVars>>

\* The process dies, or the client goes away and its context is cancelled: the
\* request does nothing more, and an open transaction rolls back.
Crash(h) ==
    /\ "crash" \in Faults
    /\ req[h] # Idle
    /\ End(h)
    /\ UNCHANGED <<orderVars, catalogVars>>

\* The steps of a request that was accepted.
Work(h) ==
    \/ UpsertCartItem(h)
    \/ \E p \in Products : ReserveItem(h, p) \/ CompensateItem(h, p)
                           \/ ReleaseItem(h, p) \/ ConfirmItem(h, p)
    \/ CommitOrder(h) \/ AbortCheckout(h) \/ FinishCheckout(h)
    \/ UpdateCancelled(h) \/ FinishCancel(h)
    \/ UpdatePaid(h) \/ FinishPaid(h)

Accept(h) ==
    \/ \E u \in Users, p \in Products, n \in 1..MaxQtyPerItem : AddToCart(h, u, p, n)
    \/ \E u \in Users, o \in Orders, k \in Keys : Checkout(h, u, o, k)
    \/ \E o \in Orders : CancelOrder(h, o) \/ PaymentSucceeded(h, o)

EditCart ==
    \E u \in Users :
        \/ \E p \in Products, n \in 1..MaxQtyPerItem : UpdateCartItem(u, p, n)
        \/ \E p \in Products : RemoveFromCart(u, p)
        \/ ClearCart(u)

Next ==
    \/ \E h \in Requests : Work(h) \/ Accept(h) \/ Crash(h)
    \/ EditCart
    \/ \E o \in Orders : PaymentFailed(o) \/ TimePasses(o)

\* A goroutine that is not killed runs to its end.
Fairness == \A h \in Requests : WF_vars(Work(h))

Spec == Init /\ [][Next]_vars /\ Fairness

-----------------------------------------------------------------------------
(* Properties *)

Quiescent == \A h \in Requests : req[h] = Idle

\* The version column keeps concurrent updates of an order apart: with any
\* interleaving, crash or failed call, each order is created PENDING and then
\* follows ValidTransitions; a terminal order never moves.
ImplementsLifecycle == Lifecycle!Spec

\* The event order.cancelled of an order is published at most once, whatever
\* number of cancellations of it run side by side.
CancelledOnce == \A o \in Orders : published[o]["cancelled"] <= 1

\* A PENDING order owns the units it was created with: each of its items has an
\* ACTIVE reservation of that quantity, in every state of every request.
PendingIsReserved ==
    \A o \in Orders : orders[o].status = "PENDING" =>
        \A p \in InCart(orders[o].items) :
            resv[p][orders[o].user] = [status |-> "ACTIVE", quantity |-> orders[o].items[p]]

\* Once all requests are done no units are held but for PENDING orders: a saga that
\* failed and an order that was cancelled or paid leave nothing reserved.
NothingHeldInVain ==
    Quiescent =>
        \A p \in Products, u \in Users : resv[p][u].status = "ACTIVE" =>
            \E o \in Orders : /\ orders[o].status = "PENDING"
                              /\ orders[o].user = u /\ orders[o].items[p] > 0

\* Once all requests are done, the units of a PAID order are sold: every
\* reservation of it is CONFIRMED.
PaidIsConfirmed ==
    Quiescent =>
        \A o \in Orders : orders[o].status = "PAID" =>
            \A p \in InCart(orders[o].items) : resv[p][orders[o].user].status = "CONFIRMED"

\* An order that is cancelled gives its units back in the end.
CancelledIsReleased ==
    \A o \in Orders : \A p \in Products, u \in Users :
        (/\ orders[o].status = "CANCELLED"
         /\ orders[o].user = u /\ p \in InCart(orders[o].items))
            ~> (resv[p][u].status # "ACTIVE")

-----------------------------------------------------------------------------
(* Promises of the documents and comments that the code does not keep: no run  *)
(* of the project checks them, README.md says how each one fails.              *)

\* The event order.paid tells of an order that took the payment.
PaidEventMeansPaid ==
    \A o \in Orders : published[o]["paid"] > 0 => orders[o].paymentId

\* Checkouts sent with one Idempotency-Key create one order.
OneOrderPerKey ==
    \A o1, o2 \in Orders :
        orders[o1] # NoOrder /\ orders[o2] # NoOrder /\ orders[o1].key = orders[o2].key
            => o1 = o2

\* A PENDING order whose time to pay has passed does not stay PENDING.
OverdueIsCancelled == \A o \in Orders : (o \in overdue) ~> (orders[o].status # "PENDING")

\* A cart item never holds more than MaxQtyPerItem units.
CartQuantityLimit == \A u \in Users, p \in Products : cart[u][p] <= MaxQtyPerItem

\* A cart never holds more than MaxItems items.
CartItemLimit == \A u \in Users : Cardinality(InCart(cart[u])) <= MaxItems
=============================================================================
