------------------------- MODULE OrderServiceProofs -------------------------
(***************************************************************************)
(* Theorems about OrderService, for any number of users, products, orders   *)
(* and concurrent requests and, unless a theorem says otherwise, with every *)
(* failure of the model.                                                    *)
(***************************************************************************)
EXTENDS OrderService, TLAPS

\* A checkout that may still commit owns an order id that nobody else uses.
CheckoutsOwnOrders ==
    /\ \A h \in Requests :
         req[h].op = "checkout" /\ req[h].pc = "reserve" => orders[req[h].o] = NoOrder
    /\ \A g, h \in Requests :
         (/\ req[g].op = "checkout" /\ req[g].pc = "reserve"
          /\ req[h].op = "checkout" /\ req[h].pc = "reserve"
          /\ req[g].o = req[h].o) => g = h

Target(op) == IF op = "cancel" THEN "CANCELLED" ELSE "PAID"

\* What the version column is for: an update that finds the version it read also
\* finds the status it read, and that status may move to the target.
VersionsTell ==
    \A h \in Requests : req[h].op \in {"cancel", "paid"} =>
        /\ orders[req[h].o] # NoOrder
        /\ req[h].pc = "update" =>
             /\ CanTransitionTo(req[h].status, Target(req[h].op))
             /\ req[h].version <= orders[req[h].o].version
             /\ req[h].version = orders[req[h].o].version
                  => req[h].status = orders[req[h].o].status

IInv == TypeOK /\ CheckoutsOwnOrders /\ VersionsTell

-----------------------------------------------------------------------------
(* Requests *)

AnyReq == {Idle} \cup AddReq \cup CheckoutReq \cup UpdateReq

LEMMA ReqKinds ==
    ASSUME TypeOK, NEW h \in Requests
    PROVE  /\ req[h].op = "add" => req[h] \in AddReq
           /\ req[h].op = "checkout" => req[h] \in CheckoutReq
           /\ req[h].op \in {"cancel", "paid"} => req[h] \in UpdateReq
  BY DEF TypeOK, Idle, AddReq, CheckoutReq, UpdateReq

LEMMA StepIs ==
    ASSUME TypeOK, NEW h \in Requests, NEW x \in AnyReq, Step(h, x)
    PROVE  /\ req' \in [Requests -> AnyReq]
           /\ \A g \in Requests : req'[g] = IF g = h THEN x ELSE req[g]
  BY DEF Step, TypeOK, AnyReq

LEMMA EndIs ==
    ASSUME TypeOK, NEW h \in Requests, End(h)
    PROVE  /\ req' \in [Requests -> AnyReq]
           /\ \A g \in Requests : req'[g] = IF g = h THEN Idle ELSE req[g]
  <1>1. Idle \in AnyReq /\ Step(h, Idle)
    BY DEF End, AnyReq
  <1> QED
    BY <1>1, StepIs

LEMMA PublishType ==
    ASSUME TypeOK, NEW o \in Orders, NEW e \in Events, publishOrderEvent(o, e)
    PROVE  published' \in [Orders -> [Events -> Nat]]
  BY DEF publishOrderEvent, TypeOK

\* What a call of catalog-service leaves of the reservations.
LEMMA CatalogType ==
    ASSUME TypeOK, NEW p \in Products, NEW u \in Users
    PROVE  /\ releaseStock(p, u) =>
                /\ resv' \in [Products -> [Users -> Reservation]]
                /\ stock' \in [Products -> Int]
           /\ confirmStock(p, u) =>
                /\ resv' \in [Products -> [Users -> Reservation]]
                /\ stock' \in [Products -> Int]
  <1>1. ASSUME NEW s \in {"CONFIRMED", "RELEASED"}
        PROVE  [resv EXCEPT ![p][u].status = s] \in [Products -> [Users -> Reservation]]
    <2> DEFINE r == resv[p][u]
    <2>1. r \in Reservation
      BY DEF TypeOK
    <2>2. [r EXCEPT !.status = s] \in Reservation
      BY <2>1 DEF Reservation
    <2>3. [resv[p] EXCEPT ![u].status = s] \in [Users -> Reservation]
      BY <2>2 DEF TypeOK
    <2> QED
      BY <2>3 DEF TypeOK
  <1>2. resv[p][u].quantity \in Int /\ stock[p] \in Int
    BY DEF TypeOK, Reservation
  <1>3. [stock EXCEPT ![p] = @ - resv[p][u].quantity] \in [Products -> Int]
    BY <1>2 DEF TypeOK
  <1> QED
    BY <1>1, <1>3 DEF releaseStock, confirmStock, catalogVars, TypeOK

\* Steps that change no order and whose request is done, or goes on with an order
\* it already had.
LEMMA QuietStep ==
    ASSUME IInv, NEW h \in Requests, NEW x \in AnyReq, Step(h, x), UNCHANGED orders,
           cart' \in [Users -> Items],
           published' \in [Orders -> [Events -> Nat]],
           overdue' \subseteq Orders,
           stock' \in [Products -> Int],
           resv' \in [Products -> [Users -> Reservation]],
           x.op = "checkout" /\ x.pc = "reserve" =>
             /\ req[h].op = "checkout" /\ req[h].pc = "reserve" /\ x.o = req[h].o,
           x.op \in {"cancel", "paid"} =>
             /\ x.pc # "update" /\ req[h].op \in {"cancel", "paid"} /\ x.o = req[h].o
    PROVE  IInv'
  <1>1. \A g \in Requests : req'[g] = IF g = h THEN x ELSE req[g]
    BY StepIs DEF IInv
  <1>2. TypeOK'
    BY StepIs DEF IInv, TypeOK, AnyReq
  <1>3. CheckoutsOwnOrders'
    BY <1>1 DEF IInv, CheckoutsOwnOrders
  <1>4. VersionsTell'
    BY <1>1 DEF IInv, VersionsTell
  <1> QED
    BY <1>2, <1>3, <1>4 DEF IInv

\* Steps of the environment, which move no request and no order.
LEMMA EnvironmentStep ==
    ASSUME IInv, UNCHANGED <<req, orders, stock, resv>>,
           cart' \in [Users -> Items],
           published' \in [Orders -> [Events -> Nat]],
           overdue' \subseteq Orders
    PROVE  IInv'
  <1>1. TypeOK'
    BY DEF IInv, TypeOK
  <1> QED
    BY <1>1 DEF IInv, CheckoutsOwnOrders, VersionsTell

LEMMA TypeParts ==
    ASSUME TypeOK
    PROVE  /\ cart \in [Users -> Items]
           /\ published \in [Orders -> [Events -> Nat]]
           /\ overdue \subseteq Orders
           /\ stock \in [Products -> Int]
           /\ resv \in [Products -> [Users -> Reservation]]
  BY DEF TypeOK

-----------------------------------------------------------------------------
(* One lemma per operation *)

LEMMA InitIInv == Init => IInv
  <1> SUFFICES ASSUME Init PROVE IInv
    OBVIOUS
  <1>1. TypeOK
    BY OrderAssumption DEF Init, TypeOK, Items, NoItems, Reservation, Events
  <1>2. CheckoutsOwnOrders /\ VersionsTell
    BY DEF Init, CheckoutsOwnOrders, VersionsTell, Idle
  <1> QED
    BY <1>1, <1>2 DEF IInv

LEMMA CartStep ==
    ASSUME IInv, EditCart
    PROVE  IInv'
  <1>1. cart' \in [Users -> Items]
    BY OrderAssumption
       DEF EditCart, UpdateCartItem, RemoveFromCart, ClearCart, Items, NoItems, IInv, TypeOK
  <1>2. UNCHANGED <<orders, published, overdue, req, stock, resv>>
    BY DEF EditCart, UpdateCartItem, RemoveFromCart, ClearCart, catalogVars
  <1> QED
    BY <1>1, <1>2, EnvironmentStep, TypeParts DEF IInv

LEMMA EventStep ==
    ASSUME IInv, NEW o \in Orders, PaymentFailed(o) \/ TimePasses(o)
    PROVE  IInv'
  <1>1. published' \in [Orders -> [Events -> Nat]] /\ overdue' \subseteq Orders
    BY PublishType DEF PaymentFailed, TimePasses, IInv, TypeOK, Events
  <1>2. UNCHANGED <<cart, orders, req, stock, resv>>
    BY DEF PaymentFailed, TimePasses, catalogVars
  <1> QED
    BY <1>1, <1>2, EnvironmentStep, TypeParts DEF IInv

LEMMA EndStep ==
    ASSUME IInv, NEW h \in Requests, End(h), UNCHANGED orders,
           cart' \in [Users -> Items],
           published' \in [Orders -> [Events -> Nat]],
           overdue' \subseteq Orders,
           stock' \in [Products -> Int],
           resv' \in [Products -> [Users -> Reservation]]
    PROVE  IInv'
  <1>1. /\ Idle \in AnyReq /\ Step(h, Idle)
        /\ Idle.op \notin {"checkout", "cancel", "paid"}
    BY DEF End, AnyReq, Idle
  <1> HIDE DEF Idle
  <1> QED
    BY <1>1, QuietStep

LEMMA AddStep ==
    ASSUME IInv, NEW h \in Requests, NEW u \in Users, NEW p \in Products,
           NEW n \in 1..MaxQtyPerItem, AddToCart(h, u, p, n)
    PROVE  IInv'
  <1> DEFINE x == [op |-> "add", u |-> u, p |-> p, n |-> n]
  <1>1. x \in AnyReq /\ x.op = "add"
    BY OrderAssumption DEF AnyReq, AddReq
  <1>2. Step(h, x) /\ UNCHANGED <<cart, orders, published, overdue, stock, resv>>
    BY DEF AddToCart, orderVars, catalogVars
  <1> HIDE DEF x
  <1> QED
    BY <1>1, <1>2, QuietStep, TypeParts DEF IInv

LEMMA UpsertStep ==
    ASSUME IInv, NEW h \in Requests, UpsertCartItem(h)
    PROVE  IInv'
  <1>1. req[h].u \in Users /\ req[h].p \in Products /\ req[h].n \in Nat
    BY ReqKinds DEF UpsertCartItem, IInv, AddReq
  <1>2. cart' \in [Users -> Items]
    <2>1. cart \in [Users -> Items]
      BY TypeParts DEF IInv
    <2>2. CASE cart' = [cart EXCEPT ![req[h].u][req[h].p] = @ + req[h].n]
      BY <1>1, <2>1, <2>2 DEF Items
    <2> QED
      BY <2>1, <2>2 DEF UpsertCartItem
  <1>3. End(h) /\ UNCHANGED <<orders, published, overdue, stock, resv>>
    BY DEF UpsertCartItem, catalogVars
  <1> QED
    BY <1>2, <1>3, EndStep, TypeParts DEF IInv

LEMMA NoTries == 0 \in 0..MaxRetries
  BY OrderAssumption

LEMMA CheckoutStep ==
    ASSUME IInv, NEW h \in Requests, NEW u \in Users, NEW o \in Orders, NEW k \in Keys,
           Checkout(h, u, o, k)
    PROVE  IInv'
  <1> DEFINE x == [op |-> "checkout", pc |-> "reserve", u |-> u, o |-> o, key |-> k,
                   items |-> cart[u], done |-> {}, tries |-> 0]
  <1>1. x \in AnyReq
    BY NoTries DEF AnyReq, CheckoutReq, IInv, TypeOK
  <1>2. \A g \in Requests : req'[g] = IF g = h THEN x ELSE req[g]
    BY <1>1, StepIs DEF Checkout, IInv
  <1>3. TypeOK'
    BY <1>1, StepIs DEF Checkout, IInv, TypeOK, AnyReq, orderVars, catalogVars
  <1>4. orders[o] = NoOrder /\ orders' = orders /\ ~CheckingOut(o)
    BY DEF Checkout, orderVars
  <1>5. CheckoutsOwnOrders'
    BY <1>2, <1>4 DEF IInv, CheckoutsOwnOrders, CheckingOut
  <1>6. VersionsTell'
    BY <1>2, <1>4 DEF IInv, VersionsTell
  <1> QED
    BY <1>3, <1>5, <1>6 DEF IInv

\* A checkout goes on with its order, or gives it up.
LEMMA CheckoutProgress ==
    ASSUME IInv, NEW h \in Requests, NEW x \in CheckoutReq, Step(h, x),
           req[h].op = "checkout", req[h].pc = "reserve", x.o = req[h].o,
           UNCHANGED <<cart, orders, published, overdue>>,
           stock' \in [Products -> Int],
           resv' \in [Products -> [Users -> Reservation]]
    PROVE  IInv'
  <1>1. x \in AnyReq /\ x.op = "checkout"
    BY DEF AnyReq, CheckoutReq
  <1> QED
    BY <1>1, QuietStep, TypeParts DEF IInv

LEMMA RetryStep ==
    ASSUME IInv, NEW h \in Requests, RetryOrUndo(h, req[h]),
           req[h].op = "checkout", req[h].pc = "reserve",
           UNCHANGED <<cart, orders, published, overdue, stock>>,
           resv' \in [Products -> [Users -> Reservation]]
    PROVE  IInv'
  <1> DEFINE x == req[h]
             n == x.tries + 1
             retry == [x EXCEPT !.tries = n]
             undo == [x EXCEPT !.pc = "undo", !.tries = 0]
  <1>1. x \in CheckoutReq /\ x.tries \in 0..MaxRetries
    BY ReqKinds DEF IInv, CheckoutReq
  <1>2. (x.tries < MaxRetries /\ Step(h, retry)) \/ Step(h, undo)
    BY DEF RetryOrUndo
  <1>3. undo \in CheckoutReq /\ undo.o = x.o
    BY <1>1, NoTries DEF CheckoutReq
  <1>4. x.tries < MaxRetries => retry \in CheckoutReq /\ retry.o = x.o
    <2>1. x.tries < MaxRetries => n \in 0..MaxRetries
      BY <1>1, OrderAssumption
    <2> HIDE DEF n
    <2> QED
      BY <1>1, <2>1 DEF CheckoutReq
  <1> HIDE DEF retry, undo
  <1> QED
    BY <1>2, <1>3, <1>4, CheckoutProgress, TypeParts DEF IInv

LEMMA ReserveItemStep ==
    ASSUME IInv, NEW h \in Requests, NEW p \in Products, ReserveItem(h, p)
    PROVE  IInv'
  <1> DEFINE x == req[h]
             ok == [x EXCEPT !.done = @ \cup {p}, !.tries = 0]
             undo == [x EXCEPT !.pc = "undo", !.tries = 0]
  <1>1. /\ x \in CheckoutReq /\ x.op = "checkout" /\ x.pc = "reserve"
        /\ UNCHANGED <<cart, orders, published, overdue, stock>>
    BY ReqKinds DEF ReserveItem, IInv, orderVars
  <1>2. ok \in CheckoutReq /\ ok.o = x.o /\ undo \in CheckoutReq /\ undo.o = x.o
    BY <1>1, NoTries DEF CheckoutReq
  <1>3. ASSUME CatalogReserve(p, x.u, x.items[p])
        PROVE  resv' \in [Products -> [Users -> Reservation]]
    <2>1. x.u \in Users /\ x.items[p] \in Nat
      BY <1>1 DEF CheckoutReq, Items
    <2>2. [status |-> "ACTIVE", quantity |-> x.items[p]] \in Reservation
      BY <2>1 DEF Reservation
    <2> QED
      BY <1>3, <2>1, <2>2 DEF CatalogReserve, IInv, TypeOK
  <1>4. resv' \in [Products -> [Users -> Reservation]]
    BY <1>3 DEF ReserveItem, IInv, TypeOK
  <1>5. Step(h, ok) \/ Step(h, undo) \/ End(h) \/ RetryOrUndo(h, x)
    BY DEF ReserveItem
  <1>6. stock' \in [Products -> Int]
    BY <1>1, TypeParts DEF IInv
  <1>7. CASE Step(h, ok) \/ Step(h, undo)
    <2> HIDE DEF ok, undo
    <2> QED
      BY <1>1, <1>2, <1>4, <1>6, <1>7, CheckoutProgress
  <1>8. CASE End(h)
    BY <1>1, <1>4, <1>6, <1>8, EndStep, TypeParts DEF IInv
  <1>9. CASE RetryOrUndo(h, x)
    BY <1>1, <1>4, <1>9, RetryStep
  <1> QED
    BY <1>5, <1>7, <1>8, <1>9

LEMMA CommitStep ==
    ASSUME IInv, NEW h \in Requests, CommitOrder(h)
    PROVE  IInv'
  <1> DEFINE x == req[h]
             row == [status |-> "PENDING", version |-> 1, user |-> x.u, items |-> x.items,
                     paymentId |-> FALSE, key |-> x.key]
             clear == [x EXCEPT !.pc = "clear"]
             undo == [x EXCEPT !.pc = "undo"]
  <1>1. /\ x \in CheckoutReq /\ x.op = "checkout" /\ x.pc = "reserve"
        /\ UNCHANGED <<cart, published, overdue, stock, resv>>
    BY ReqKinds DEF CommitOrder, IInv, catalogVars
  <1>2. clear \in CheckoutReq /\ undo \in CheckoutReq /\ undo.o = x.o
    BY <1>1 DEF CheckoutReq
  <1>3. CASE orders' = orders /\ Step(h, undo)
    <2> HIDE DEF undo
    <2> QED
      BY <1>1, <1>2, <1>3, CheckoutProgress, TypeParts DEF IInv
  <1>4. CASE orders' = [orders EXCEPT ![x.o] = row] /\ Step(h, clear)
    <2>1. row \in Order /\ row # NoOrder
      BY <1>1 DEF Order, CheckoutReq, OrderStatus, Lifecycle!OrderStatus, NoOrder
    <2>2. clear \in AnyReq /\ clear.op = "checkout" /\ clear.pc = "clear" /\ x.o \in Orders
      BY <1>1, <1>2 DEF AnyReq, CheckoutReq
    <2>3. \A g \in Requests : req'[g] = IF g = h THEN clear ELSE req[g]
      BY <1>4, <2>2, StepIs DEF IInv
    <2>4. \A o \in Orders : orders'[o] = IF o = x.o THEN row ELSE orders[o]
      BY <1>4 DEF IInv, TypeOK
    <2>5. orders[x.o] = NoOrder
      BY <1>1 DEF IInv, CheckoutsOwnOrders
    <2> HIDE DEF row, clear
    <2>6. TypeOK'
      BY <1>1, <1>4, <2>1, <2>2, StepIs DEF IInv, TypeOK, AnyReq
    <2>7. CheckoutsOwnOrders'
      <3>1. \A g \in Requests :
              g # h /\ req[g].op = "checkout" /\ req[g].pc = "reserve"
                => req[g].o # x.o /\ req[g].o \in Orders
        BY <1>1, ReqKinds DEF IInv, CheckoutsOwnOrders, CheckoutReq
      <3> QED
        BY <2>2, <2>3, <2>4, <3>1 DEF IInv, CheckoutsOwnOrders
    <2>8. VersionsTell'
      <3>1. \A g \in Requests :
              req[g].op \in {"cancel", "paid"} => req[g].o \in Orders /\ req[g].o # x.o
        BY <2>5, ReqKinds DEF IInv, VersionsTell, UpdateReq
      <3> QED
        BY <2>2, <2>3, <2>4, <3>1 DEF IInv, VersionsTell
    <2> QED
      BY <2>6, <2>7, <2>8 DEF IInv
  <1> QED
    BY <1>3, <1>4 DEF CommitOrder

LEMMA CompensateStep ==
    ASSUME IInv, NEW h \in Requests, NEW p \in Products, CompensateItem(h, p)
    PROVE  IInv'
  <1> DEFINE x == [req[h] EXCEPT !.done = @ \ {p}]
  <1>1. req[h] \in CheckoutReq /\ req[h].u \in Users /\ req[h].pc = "undo"
    BY ReqKinds DEF CompensateItem, IInv, CheckoutReq
  <1>2. x \in AnyReq /\ x.op = "checkout" /\ x.pc = "undo"
    BY <1>1 DEF AnyReq, CheckoutReq
  <1>3. /\ Step(h, x) /\ releaseStock(p, req[h].u)
        /\ UNCHANGED <<cart, orders, published, overdue>>
    BY DEF CompensateItem, orderVars
  <1>4. resv' \in [Products -> [Users -> Reservation]] /\ stock' \in [Products -> Int]
    BY <1>1, <1>3, CatalogType DEF IInv
  <1> HIDE DEF x
  <1> QED
    BY <1>2, <1>3, <1>4, QuietStep, TypeParts DEF IInv

LEMMA AbortStep ==
    ASSUME IInv, NEW h \in Requests, AbortCheckout(h) \/ Crash(h)
    PROVE  IInv'
  <1>1. End(h) /\ UNCHANGED <<cart, orders, published, overdue, stock, resv>>
    BY DEF AbortCheckout, Crash, orderVars, catalogVars
  <1> QED
    BY <1>1, EndStep, TypeParts DEF IInv

LEMMA FinishCheckoutStep ==
    ASSUME IInv, NEW h \in Requests, FinishCheckout(h)
    PROVE  IInv'
  <1>1. req[h].u \in Users /\ req[h].o \in Orders
    BY ReqKinds DEF FinishCheckout, IInv, CheckoutReq
  <1>2. cart' \in [Users -> Items]
    <2>1. NoItems \in Items
      BY DEF NoItems, Items
    <2> QED
      BY <1>1, <2>1 DEF FinishCheckout, IInv, TypeOK
  <1>3. published' \in [Orders -> [Events -> Nat]]
    BY <1>1, PublishType DEF FinishCheckout, IInv, Events
  <1>4. End(h) /\ UNCHANGED <<orders, overdue, stock, resv>>
    BY DEF FinishCheckout, catalogVars
  <1> QED
    BY <1>2, <1>3, <1>4, EndStep, TypeParts DEF IInv

\* CancelOrder and UpdatePaymentStatus read the order.
LEMMA ReadStep ==
    ASSUME IInv, NEW h \in Requests, NEW o \in Orders, NEW op \in {"cancel", "paid"},
           orders[o] # NoOrder, CanTransitionTo(orders[o].status, Target(op)),
           ReadOrder(h, o, op), UNCHANGED <<orderVars, catalogVars>>
    PROVE  IInv'
  <1> DEFINE x == [op |-> op, pc |-> "update", o |-> o, status |-> orders[o].status,
                   version |-> orders[o].version, todo |-> {}]
  <1>1. orders[o] \in Order
    BY DEF IInv, TypeOK
  <1>2. x \in AnyReq /\ orders[o].version \in Nat
    BY <1>1 DEF AnyReq, UpdateReq, Order
  <1>3. /\ \A g \in Requests : req'[g] = IF g = h THEN x ELSE req[g]
        /\ req' \in [Requests -> AnyReq]
    BY <1>2, StepIs DEF ReadOrder, IInv
  <1>4. TypeOK'
    BY <1>3 DEF IInv, TypeOK, AnyReq, orderVars, catalogVars
  <1>5. CheckoutsOwnOrders'
    BY <1>3 DEF IInv, CheckoutsOwnOrders, orderVars
  <1>6. VersionsTell'
    BY <1>2, <1>3 DEF IInv, VersionsTell, orderVars
  <1> QED
    BY <1>4, <1>5, <1>6 DEF IInv

\* The UPDATE that finds the version it read writes the next version.
LEMMA UpdateStep ==
    ASSUME IInv, NEW h \in Requests, NEW x \in UpdateReq, NEW row \in Order,
           x.op = req[h].op, x.o = req[h].o, x.pc = "stock",
           req[h].op \in {"cancel", "paid"}, orders[x.o] # NoOrder,
           row.version = orders[x.o].version + 1,
           orders' = [orders EXCEPT ![x.o] = row],
           Step(h, x), UNCHANGED <<cart, published, overdue, catalogVars>>
    PROVE  IInv'
  <1>1. x \in AnyReq /\ x.o \in Orders /\ row # NoOrder
    BY DEF AnyReq, UpdateReq, Order, NoOrder, OrderStatus, Lifecycle!OrderStatus
  <1>2. /\ \A g \in Requests : req'[g] = IF g = h THEN x ELSE req[g]
        /\ req' \in [Requests -> AnyReq]
    BY <1>1, StepIs DEF IInv
  <1>3. \A o \in Orders : orders'[o] = IF o = x.o THEN row ELSE orders[o]
    BY DEF IInv, TypeOK
  <1>4. TypeOK'
    BY <1>1, <1>2 DEF IInv, TypeOK, AnyReq, catalogVars
  <1>5. CheckoutsOwnOrders'
    <2>1. \A g \in Requests :
            req[g].op = "checkout" /\ req[g].pc = "reserve"
              => req[g].o \in Orders /\ req[g].o # x.o
      BY ReqKinds DEF IInv, CheckoutsOwnOrders, CheckoutReq
    <2> QED
      BY <1>2, <1>3, <2>1 DEF IInv, CheckoutsOwnOrders, UpdateReq
  <1>6. VersionsTell'
    <2>1. orders[x.o].version \in Nat
      BY <1>1 DEF IInv, TypeOK, Order
    <2>2. \A g \in Requests :
            req[g].op \in {"cancel", "paid"} => req[g].o \in Orders /\ req[g].version \in Nat
      BY ReqKinds DEF IInv, UpdateReq
    <2> QED
      BY <1>1, <1>2, <1>3, <2>1, <2>2 DEF IInv, VersionsTell
  <1> QED
    BY <1>4, <1>5, <1>6 DEF IInv

LEMMA UpdateCancelledStep ==
    ASSUME IInv, NEW h \in Requests, UpdateCancelled(h)
    PROVE  IInv'
  <1> DEFINE old == orders[req[h].o]
             n == old.version + 1
             row == [old EXCEPT !.status = "CANCELLED", !.version = n]
             x == [req[h] EXCEPT !.pc = "stock", !.todo = InCart(old.items)]
  <1>1. /\ req[h] \in UpdateReq /\ req[h].o \in Orders /\ req[h].op \in {"cancel", "paid"}
        /\ old \in Order /\ old # NoOrder
    BY ReqKinds DEF UpdateCancelled, IInv, TypeOK, UpdateReq, VersionsTell
  <1>2. CASE End(h) /\ orders' = orders
    BY <1>2, EndStep, TypeParts DEF UpdateCancelled, IInv, catalogVars
  <1>3. CASE ~(End(h) /\ orders' = orders)
    <2>1. /\ orders' = [orders EXCEPT ![req[h].o].status = "CANCELLED",
                                      ![req[h].o].version = @ + 1]
          /\ Step(h, x)
      BY <1>3 DEF UpdateCancelled
    <2>2. orders' = [orders EXCEPT ![req[h].o] = row]
      BY <1>1, <2>1 DEF IInv, TypeOK
    <2>3. n \in Nat
      BY <1>1 DEF Order
    <2>4. row \in Order /\ row.version = n
      <3> HIDE DEF n, old
      <3> QED
        BY <1>1, <2>3 DEF Order, OrderStatus, Lifecycle!OrderStatus
    <2>5. x \in UpdateReq /\ x.op = req[h].op /\ x.o = req[h].o /\ x.pc = "stock"
      BY <1>1 DEF UpdateReq, InCart
    <2>6. UNCHANGED <<cart, published, overdue, catalogVars>>
      BY DEF UpdateCancelled
    <2> HIDE DEF x, row
    <2> QED
      BY <1>1, <2>1, <2>2, <2>4, <2>5, <2>6, UpdateStep
  <1> QED
    BY <1>2, <1>3

LEMMA UpdatePaidStep ==
    ASSUME IInv, NEW h \in Requests, UpdatePaid(h)
    PROVE  IInv'
  <1> DEFINE old == orders[req[h].o]
             n == old.version + 1
             row == [old EXCEPT !.status = "PAID", !.paymentId = TRUE, !.version = n]
             x == [req[h] EXCEPT !.pc = "stock", !.todo = InCart(old.items)]
  <1>1. /\ req[h] \in UpdateReq /\ req[h].o \in Orders /\ req[h].op \in {"cancel", "paid"}
        /\ old \in Order /\ old # NoOrder
    BY ReqKinds DEF UpdatePaid, IInv, TypeOK, UpdateReq, VersionsTell
  <1>2. x \in UpdateReq /\ x.op = req[h].op /\ x.o = req[h].o /\ x.pc = "stock"
    BY <1>1 DEF UpdateReq, InCart
  <1>3. /\ UNCHANGED <<cart, published, overdue, catalogVars>>
        /\ Step(h, x) \/ (End(h) /\ UNCHANGED orders)
    BY DEF UpdatePaid
  <1>6. CASE End(h) /\ UNCHANGED orders
    BY <1>3, <1>6, EndStep, TypeParts DEF IInv, catalogVars
  <1>4. CASE Step(h, x) /\ orders' = orders
    <2>1. x \in AnyReq /\ x.op # "checkout"
      BY <1>1, <1>2 DEF AnyReq
    <2> HIDE DEF x
    <2> QED
      BY <1>1, <1>2, <1>3, <1>4, <2>1, QuietStep, TypeParts DEF IInv, catalogVars
  <1>5. CASE Step(h, x) /\ orders' # orders
    <2>1. orders' = [orders EXCEPT ![req[h].o].status = "PAID",
                                   ![req[h].o].paymentId = TRUE,
                                   ![req[h].o].version = @ + 1]
      BY <1>5 DEF UpdatePaid
    <2>2. orders' = [orders EXCEPT ![req[h].o] = row]
      BY <1>1, <2>1 DEF IInv, TypeOK
    <2>3. n \in Nat
      BY <1>1 DEF Order
    <2>4. row \in Order /\ row.version = n
      <3> HIDE DEF n, old
      <3> QED
        BY <1>1, <2>3 DEF Order, OrderStatus, Lifecycle!OrderStatus
    <2> HIDE DEF x, row
    <2> QED
      BY <1>1, <1>2, <1>3, <1>5, <2>2, <2>4, UpdateStep
  <1> QED
    BY <1>3, <1>4, <1>5, <1>6

\* The loops that release or confirm the items of an order, and what ends them.
LEMMA StockItemStep ==
    ASSUME IInv, NEW h \in Requests, NEW p \in Products,
           ReleaseItem(h, p) \/ ConfirmItem(h, p)
    PROVE  IInv'
  <1> DEFINE x == [req[h] EXCEPT !.todo = @ \ {p}]
             u == orders[req[h].o].user
  <1>1. /\ req[h] \in UpdateReq /\ req[h].o \in Orders /\ req[h].pc = "stock"
        /\ req[h].op \in {"cancel", "paid"} /\ orders[req[h].o] # NoOrder
    BY ReqKinds DEF ReleaseItem, ConfirmItem, IInv, UpdateReq, VersionsTell
  <1>2. u \in Users
    BY <1>1 DEF IInv, TypeOK, Order
  <1>3. /\ Step(h, x) /\ UNCHANGED <<cart, orders, published, overdue>>
        /\ releaseStock(p, u) \/ confirmStock(p, u)
    BY DEF ReleaseItem, ConfirmItem, orderVars
  <1>4. resv' \in [Products -> [Users -> Reservation]] /\ stock' \in [Products -> Int]
    BY <1>2, <1>3, CatalogType DEF IInv
  <1>5. x \in AnyReq /\ x.op # "checkout" /\ x.pc = "stock" /\ x.o = req[h].o
    BY <1>1 DEF AnyReq, UpdateReq
  <1> HIDE DEF x
  <1> QED
    BY <1>1, <1>3, <1>4, <1>5, QuietStep, TypeParts DEF IInv

LEMMA FinishStep ==
    ASSUME IInv, NEW h \in Requests, FinishCancel(h) \/ FinishPaid(h)
    PROVE  IInv'
  <1>1. req[h].o \in Orders
    BY ReqKinds DEF FinishCancel, FinishPaid, IInv, UpdateReq
  <1>2. /\ published' \in [Orders -> [Events -> Nat]]
        /\ End(h) /\ UNCHANGED <<cart, orders, overdue, stock, resv>>
    BY <1>1, PublishType DEF FinishCancel, FinishPaid, IInv, Events, catalogVars
  <1> QED
    BY <1>2, EndStep, TypeParts DEF IInv

-----------------------------------------------------------------------------
(* The invariant and what follows from it *)

LEMMA AcceptStep ==
    ASSUME IInv, NEW h \in Requests, Accept(h)
    PROVE  IInv'
  <1>1. ASSUME NEW o \in Orders, CancelOrder(h, o)
        PROVE  IInv'
    BY <1>1, ReadStep DEF CancelOrder, Target
  <1>2. ASSUME NEW o \in Orders, PaymentSucceeded(h, o)
        PROVE  IInv'
    BY <1>2, ReadStep DEF PaymentSucceeded, Target
  <1> QED
    BY <1>1, <1>2, AddStep, CheckoutStep DEF Accept

LEMMA WorkStep ==
    ASSUME IInv, NEW h \in Requests, Work(h)
    PROVE  IInv'
  BY UpsertStep, ReserveItemStep, CompensateStep, StockItemStep, CommitStep, AbortStep,
     FinishCheckoutStep, UpdateCancelledStep, UpdatePaidStep, FinishStep DEF Work

LEMMA NextIInv == IInv /\ [Next]_vars => IInv'
  <1> SUFFICES ASSUME IInv, [Next]_vars
               PROVE  IInv'
    OBVIOUS
  <1>1. CASE UNCHANGED vars
    BY <1>1, EnvironmentStep, TypeParts DEF vars, IInv
  <1> QED
    BY <1>1, WorkStep, AcceptStep, AbortStep, CartStep, EventStep DEF Next

LEMMA Invariance == Spec => []IInv
  BY InitIInv, NextIInv, PTL DEF Spec

\* Every table and every request is well typed: in particular no request works on
\* an order that does not exist.
THEOREM TypeCorrect == Spec => []TypeOK
  BY Invariance, PTL DEF IInv

\* Whatever requests race, crash or fail, an order is created PENDING and follows
\* ValidTransitions.
THEOREM LifecycleImplemented == Spec => ImplementsLifecycle
  <1> DEFINE st == [o \in Orders |-> orders[o].status]
  <1>1. Init => Lifecycle!Init
    BY DEF Init, Lifecycle!Init, NoOrder
  <1>2. IInv /\ [Next]_vars => [Lifecycle!Next]_st
    <2> SUFFICES ASSUME IInv, [Next]_vars, orders' # orders
                 PROVE  Lifecycle!Next
      OBVIOUS
    <2>1. PICK h \in Requests : CommitOrder(h) \/ UpdateCancelled(h) \/ UpdatePaid(h)
      <3>1. \A h \in Requests : Accept(h) \/ Crash(h) => UNCHANGED orders
        BY DEF Accept, AddToCart, Checkout, CancelOrder, PaymentSucceeded, Crash, orderVars
      <3>2. EditCart => UNCHANGED orders
        BY DEF EditCart, UpdateCartItem, RemoveFromCart, ClearCart
      <3>3. \A o \in Orders : PaymentFailed(o) \/ TimePasses(o) => UNCHANGED orders
        BY DEF PaymentFailed, TimePasses
      <3>4. \A h \in Requests, p \in Products :
              ReserveItem(h, p) \/ CompensateItem(h, p) \/ ReleaseItem(h, p) \/ ConfirmItem(h, p)
                => UNCHANGED orders
        BY DEF ReserveItem, CompensateItem, ReleaseItem, ConfirmItem, orderVars
      <3>5. \A h \in Requests :
              UpsertCartItem(h) \/ AbortCheckout(h) \/ FinishCheckout(h) \/ FinishCancel(h)
                \/ FinishPaid(h) => UNCHANGED orders
        BY DEF UpsertCartItem, AbortCheckout, FinishCheckout, FinishCancel, FinishPaid, orderVars
      <3> QED
        BY <3>1, <3>2, <3>3, <3>4, <3>5 DEF Next, vars, Work
    <2> DEFINE o == req[h].o
    <2>2. CASE CommitOrder(h)
      <3>1. o \in Orders /\ orders[o] = NoOrder
        BY <2>2, ReqKinds DEF CommitOrder, IInv, CheckoutsOwnOrders, CheckoutReq
      <3>2. st' = [st EXCEPT ![o] = "PENDING"]
        <4>1. \A q \in Orders :
                orders'[q].status = IF q = o THEN "PENDING" ELSE orders[q].status
          BY <2>2, <3>1 DEF CommitOrder, IInv, TypeOK
        <4> QED
          BY <3>1, <4>1
      <3>3. st[o] = "NONE"
        BY <3>1 DEF NoOrder
      <3> QED
        BY <3>1, <3>2, <3>3 DEF Lifecycle!Next, Lifecycle!Create
    <2>3. ASSUME NEW target \in {"CANCELLED", "PAID"},
                 o \in Orders, orders[o] \in Order,
                 CanTransitionTo(orders[o].status, target),
                 st' = [st EXCEPT ![o] = target]
          PROVE  Lifecycle!Next
      BY <2>3 DEF Lifecycle!Next, Lifecycle!Move, CanTransitionTo, Lifecycle!CanTransitionTo,
                  Lifecycle!OrderStatus
    <2>4. CASE UpdateCancelled(h)
      <3>1. /\ o \in Orders /\ orders[o] \in Order
            /\ CanTransitionTo(orders[o].status, "CANCELLED")
        BY <2>4, ReqKinds
           DEF UpdateCancelled, VersionMatches, IInv, TypeOK, VersionsTell, UpdateReq, Target
      <3>2. st' = [st EXCEPT ![o] = "CANCELLED"]
        <4>1. \A q \in Orders :
                orders'[q].status = IF q = o THEN "CANCELLED" ELSE orders[q].status
          BY <2>4, <3>1 DEF UpdateCancelled, IInv, TypeOK, Order
        <4> QED
          BY <3>1, <4>1
      <3> QED
        BY <2>3, <3>1, <3>2
    <2>5. CASE UpdatePaid(h)
      <3>1. /\ o \in Orders /\ orders[o] \in Order
            /\ CanTransitionTo(orders[o].status, "PAID")
        BY <2>5, ReqKinds
           DEF UpdatePaid, VersionMatches, IInv, TypeOK, VersionsTell, UpdateReq, Target
      <3>2. st' = [st EXCEPT ![o] = "PAID"]
        <4>1. \A q \in Orders :
                orders'[q].status = IF q = o THEN "PAID" ELSE orders[q].status
          BY <2>5, <3>1 DEF UpdatePaid, IInv, TypeOK, Order
        <4> QED
          BY <3>1, <4>1
      <3> QED
        BY <2>3, <3>1, <3>2
    <2> QED
      BY <2>1, <2>2, <2>4, <2>5
  <1> QED
    BY <1>1, <1>2, Invariance, PTL DEF Spec, ImplementsLifecycle, Lifecycle!Spec

-----------------------------------------------------------------------------
(* One cancellation *)

Releasing(h) == req[h].op = "cancel" /\ req[h].pc = "stock"

\* A cancellation that won the UPDATE is the only one of its order, which stays
\* CANCELLED, and its event is still to come.
OneWinner ==
    /\ \A o \in Orders : /\ published[o]["cancelled"] <= 1
                         /\ published[o]["cancelled"] > 0 => orders[o].status = "CANCELLED"
    /\ \A h \in Requests : Releasing(h) =>
         orders[req[h].o].status = "CANCELLED" /\ published[req[h].o]["cancelled"] = 0
    /\ \A g, h \in Requests : Releasing(g) /\ Releasing(h) /\ req[g].o = req[h].o => g = h

\* Steps that decide no cancellation.
LEMMA BystanderStep ==
    ASSUME IInv, OneWinner,
           \A o \in Orders : orders[o].status = "CANCELLED" => orders'[o].status = "CANCELLED",
           \A o \in Orders : published'[o]["cancelled"] = published[o]["cancelled"],
           \A h \in Requests : Releasing(h)' => Releasing(h) /\ req'[h].o = req[h].o
    PROVE  OneWinner'
  <1>1. \A h \in Requests : Releasing(h) => req[h].o \in Orders
    BY ReqKinds DEF Releasing, IInv, UpdateReq
  <1> QED
    BY <1>1 DEF OneWinner

LEMMA OtherEvent ==
    ASSUME TypeOK, NEW o \in Orders, NEW e \in Events \ {"cancelled"}, publishOrderEvent(o, e)
    PROVE  \A q \in Orders : published'[q]["cancelled"] = published[q]["cancelled"]
  BY DEF publishOrderEvent, TypeOK, Events

LEMMA CancelDecides ==
    ASSUME IInv, OneWinner, NEW h \in Requests, UpdateCancelled(h)
    PROVE  OneWinner'
  <1> DEFINE o == req[h].o
             x == [req[h] EXCEPT !.pc = "stock", !.todo = InCart(orders[o].items)]
  <1>1. /\ req[h] \in UpdateReq /\ o \in Orders /\ orders[o] \in Order
        /\ req[h].op = "cancel" /\ req[h].pc = "update" /\ published' = published
    BY ReqKinds DEF UpdateCancelled, IInv, TypeOK, VersionsTell, UpdateReq
  <1>2. CASE End(h) /\ orders' = orders
    <2>1. \A g \in Requests : Releasing(g)' => Releasing(g) /\ req'[g].o = req[g].o
      BY <1>2, EndIs DEF Releasing, Idle, IInv
    <2> QED
      BY <1>1, <1>2, <2>1, BystanderStep
  <1>3. CASE ~(End(h) /\ orders' = orders)
    <2>1. /\ VersionMatches(req[h]) /\ Step(h, x)
          /\ orders' = [orders EXCEPT ![o].status = "CANCELLED", ![o].version = @ + 1]
      BY <1>3 DEF UpdateCancelled
    <2>2. orders[o].status # "CANCELLED"
      BY <1>1, <2>1
         DEF VersionMatches, IInv, VersionsTell, Target, CanTransitionTo,
             Lifecycle!CanTransitionTo, Lifecycle!OrderStatus, Lifecycle!ValidTransitions
    <2>3. \A q \in Orders :
            orders'[q].status = IF q = o THEN "CANCELLED" ELSE orders[q].status
      BY <1>1, <2>1 DEF IInv, TypeOK, Order
    <2>4. x \in AnyReq /\ x.op = "cancel" /\ x.pc = "stock" /\ x.o = o
      BY <1>1 DEF AnyReq, UpdateReq, InCart
    <2>5. \A g \in Requests : req'[g] = IF g = h THEN x ELSE req[g]
      BY <2>1, <2>4, StepIs DEF IInv
    <2>6. published[o]["cancelled"] = 0
      BY <1>1, <2>2 DEF OneWinner, IInv, TypeOK, Events
    <2>7. \A g \in Requests : Releasing(g) => req[g].o # o /\ req[g].o \in Orders
      BY <2>2, ReqKinds DEF OneWinner, Releasing, IInv, UpdateReq
    <2> HIDE DEF x, o
    <2> QED
      BY <1>1, <2>3, <2>4, <2>5, <2>6, <2>7 DEF OneWinner, Releasing
  <1> QED
    BY <1>2, <1>3

LEMMA CancelPublishes ==
    ASSUME IInv, OneWinner, NEW h \in Requests, FinishCancel(h)
    PROVE  OneWinner'
  <1> DEFINE o == req[h].o
  <1>1. /\ o \in Orders /\ Releasing(h) /\ orders' = orders
        /\ orders[o].status = "CANCELLED" /\ published[o]["cancelled"] = 0
    BY ReqKinds DEF FinishCancel, Releasing, IInv, UpdateReq, OneWinner
  <1>2. \A g \in Requests : req'[g] = IF g = h THEN Idle ELSE req[g]
    BY EndIs DEF FinishCancel, IInv
  <1>3. \A q \in Orders :
          /\ q # o => published'[q]["cancelled"] = published[q]["cancelled"]
          /\ published'[o]["cancelled"] \in {0, 1}
    BY <1>1 DEF FinishCancel, publishOrderEvent, IInv, TypeOK, Events
  <1>4. \A g \in Requests : Releasing(g)' => /\ Releasing(g) /\ req'[g] = req[g]
                                             /\ req[g].o # o /\ req[g].o \in Orders
    BY <1>1, <1>2, ReqKinds DEF Releasing, Idle, OneWinner, IInv, UpdateReq
  <1> HIDE DEF o
  <1> QED
    BY <1>1, <1>3, <1>4 DEF OneWinner

\* A request that moves on without entering the release loop.
LEMMA MoveOn ==
    ASSUME IInv, NEW h \in Requests, NEW x \in AnyReq, Step(h, x),
           x.op = "cancel" /\ x.pc = "stock" => Releasing(h) /\ x.o = req[h].o
    PROVE  \A g \in Requests : Releasing(g)' => Releasing(g) /\ req'[g].o = req[g].o
  BY StepIs DEF IInv, Releasing

LEMMA EndMovesOn ==
    ASSUME IInv, NEW h \in Requests, End(h)
    PROVE  \A g \in Requests : Releasing(g)' => Releasing(g) /\ req'[g].o = req[g].o
  BY EndIs DEF IInv, Releasing, Idle

LEMMA CheckoutMovesOn ==
    ASSUME IInv, NEW h \in Requests, req[h].op = "checkout",
           \/ \E p \in Products : ReserveItem(h, p) \/ CompensateItem(h, p)
           \/ CommitOrder(h) \/ AbortCheckout(h) \/ FinishCheckout(h)
    PROVE  \A g \in Requests : Releasing(g)' => Releasing(g) /\ req'[g].o = req[g].o
  <1>1. req[h] \in CheckoutReq
    BY ReqKinds DEF IInv
  <1>2. \A g \in Requests : g # h => req'[g] = req[g]
    BY DEF ReserveItem, RetryOrUndo, CompensateItem, CommitOrder, AbortCheckout, FinishCheckout,
           End, Step, IInv, TypeOK
  <1>3. req'[h].op # "cancel"
    <2>1. \A x : Step(h, x) => req'[h] = x
      BY DEF Step, IInv, TypeOK
    <2>2. End(h) => req'[h].op # "cancel"
      BY EndIs DEF IInv, Idle
    <2>3. RetryOrUndo(h, req[h]) => req'[h].op # "cancel"
      BY <1>1, <2>1 DEF RetryOrUndo, CheckoutReq
    <2>4. ASSUME NEW p \in Products, ReserveItem(h, p)
          PROVE  req'[h].op # "cancel"
      BY <1>1, <2>1, <2>2, <2>3, <2>4 DEF ReserveItem, CheckoutReq
    <2>5. ASSUME NEW p \in Products, CompensateItem(h, p)
          PROVE  req'[h].op # "cancel"
      BY <1>1, <2>1, <2>5 DEF CompensateItem, CheckoutReq
    <2>6. CommitOrder(h) => req'[h].op # "cancel"
      BY <1>1, <2>1 DEF CommitOrder, CheckoutReq
    <2> QED
      BY <2>2, <2>4, <2>5, <2>6 DEF AbortCheckout, FinishCheckout
  <1> QED
    BY <1>2, <1>3 DEF Releasing

LEMMA CheckoutBystander ==
    ASSUME IInv, OneWinner, NEW h \in Requests,
           \/ \E p \in Products : ReserveItem(h, p) \/ CompensateItem(h, p)
           \/ CommitOrder(h) \/ AbortCheckout(h) \/ FinishCheckout(h)
    PROVE  OneWinner'
  <1>1. req[h].op = "checkout" /\ req[h] \in CheckoutReq
    BY ReqKinds
       DEF ReserveItem, CompensateItem, CommitOrder, AbortCheckout, FinishCheckout, IInv
  <1>2. \A o \in Orders : orders[o].status = "CANCELLED" => orders'[o] = orders[o]
    <2>1. CommitOrder(h) => orders[req[h].o].status = "NONE"
      BY DEF CommitOrder, IInv, CheckoutsOwnOrders, NoOrder
    <2> QED
      BY <2>1 DEF ReserveItem, CompensateItem, CommitOrder, AbortCheckout, FinishCheckout,
                  orderVars, IInv, TypeOK
  <1>3. \A o \in Orders : published'[o]["cancelled"] = published[o]["cancelled"]
    BY <1>1, OtherEvent
       DEF ReserveItem, CompensateItem, CommitOrder, AbortCheckout, FinishCheckout, orderVars,
           IInv, Events, CheckoutReq
  <1> QED
    BY <1>1, <1>2, <1>3, CheckoutMovesOn, BystanderStep

LEMMA PaidBystander ==
    ASSUME IInv, OneWinner, NEW h \in Requests, UpdatePaid(h) \/ FinishPaid(h)
    PROVE  OneWinner'
  <1> DEFINE o == req[h].o
             x == [req[h] EXCEPT !.pc = "stock", !.todo = InCart(orders[o].items)]
  <1>1. /\ req[h] \in UpdateReq /\ req[h].op = "paid" /\ o \in Orders
        /\ orders[o] \in Order
    BY ReqKinds DEF UpdatePaid, FinishPaid, IInv, TypeOK, VersionsTell, UpdateReq
  <1>2. x \in AnyReq /\ x.op = "paid"
    BY <1>1 DEF AnyReq, UpdateReq, InCart
  <1>3. Step(h, x) \/ End(h)
    BY DEF UpdatePaid, FinishPaid
  <1>4. \A g \in Requests : Releasing(g)' => Releasing(g) /\ req'[g].o = req[g].o
    <2> HIDE DEF x
    <2> QED
      BY <1>2, <1>3, MoveOn, EndMovesOn
  <1>5. ASSUME UpdatePaid(h), orders' # orders
        PROVE  orders[o].status # "CANCELLED"
    BY <1>1, <1>5
       DEF UpdatePaid, VersionMatches, IInv, VersionsTell, Target, CanTransitionTo,
           Lifecycle!CanTransitionTo, Lifecycle!OrderStatus, Lifecycle!ValidTransitions
  <1>6. \A q \in Orders : orders[q].status = "CANCELLED" => orders'[q] = orders[q]
    BY <1>5 DEF UpdatePaid, FinishPaid, IInv, TypeOK
  <1>7. \A q \in Orders : published'[q]["cancelled"] = published[q]["cancelled"]
    BY <1>1, OtherEvent DEF UpdatePaid, FinishPaid, IInv, Events
  <1> QED
    BY <1>4, <1>6, <1>7, BystanderStep

LEMMA StockBystander ==
    ASSUME IInv, OneWinner, NEW h \in Requests, NEW p \in Products,
           ReleaseItem(h, p) \/ ConfirmItem(h, p)
    PROVE  OneWinner'
  <1> DEFINE x == [req[h] EXCEPT !.todo = @ \ {p}]
  <1>1. req[h] \in UpdateReq
    BY ReqKinds DEF ReleaseItem, ConfirmItem, IInv
  <1>2. x \in AnyReq /\ x.op = req[h].op /\ x.pc = req[h].pc /\ x.o = req[h].o
    BY <1>1 DEF AnyReq, UpdateReq
  <1>3. Step(h, x) /\ UNCHANGED <<orders, published>>
    BY DEF ReleaseItem, ConfirmItem, orderVars
  <1>4. \A g \in Requests : Releasing(g)' => Releasing(g) /\ req'[g].o = req[g].o
    <2>1. x.op = "cancel" /\ x.pc = "stock" => Releasing(h) /\ x.o = req[h].o
      BY <1>2 DEF Releasing
    <2> HIDE DEF x
    <2> QED
      BY <1>2, <1>3, <2>1, MoveOn
  <1> QED
    BY <1>3, <1>4, BystanderStep

LEMMA AcceptBystander ==
    ASSUME IInv, OneWinner, NEW h \in Requests, Accept(h) \/ UpsertCartItem(h) \/ Crash(h)
    PROVE  OneWinner'
  <1>1. UNCHANGED <<orders, published>>
    BY DEF Accept, AddToCart, Checkout, CancelOrder, PaymentSucceeded, UpsertCartItem, Crash,
           orderVars
  <1>2. \A x : Step(h, x) => \A g \in Requests : req'[g] = IF g = h THEN x ELSE req[g]
    BY DEF Step, IInv, TypeOK
  <1>3. \A g \in Requests : Releasing(g)' => Releasing(g) /\ req'[g].o = req[g].o
    <2>1. CASE UpsertCartItem(h) \/ Crash(h)
      BY <2>1, EndMovesOn DEF UpsertCartItem, Crash
    <2>2. CASE Accept(h)
      <3>1. ASSUME NEW x, Step(h, x), x.op = "cancel" => x.pc = "update"
            PROVE  \A g \in Requests : Releasing(g)' => Releasing(g) /\ req'[g].o = req[g].o
        BY <1>2, <3>1 DEF Releasing
      <3>2. \A u \in Users, p \in Products, n \in 1..MaxQtyPerItem :
              AddToCart(h, u, p, n) => \E x : Step(h, x) /\ x.op = "add"
        BY DEF AddToCart
      <3>3. \A u \in Users, o \in Orders, k \in Keys :
              Checkout(h, u, o, k) => \E x : Step(h, x) /\ x.op = "checkout"
        BY DEF Checkout
      <3>4. \A o \in Orders :
              CancelOrder(h, o) \/ PaymentSucceeded(h, o) => \E x : Step(h, x) /\ x.pc = "update"
        BY DEF CancelOrder, PaymentSucceeded, ReadOrder
      <3> QED
        BY <2>2, <3>1, <3>2, <3>3, <3>4 DEF Accept
    <2> QED
      BY <2>1, <2>2, EndMovesOn DEF UpsertCartItem, Crash
  <1> QED
    BY <1>1, <1>3, BystanderStep

LEMMA WinnerStep ==
    ASSUME IInv, OneWinner, [Next]_vars
    PROVE  OneWinner'
  <1>1. CASE UNCHANGED <<orders, published, req>>
    BY <1>1 DEF OneWinner, Releasing
  <1>2. ASSUME NEW o \in Orders, PaymentFailed(o)
        PROVE  OneWinner'
    <2>1. \A q \in Orders : published'[q]["cancelled"] = published[q]["cancelled"]
      BY <1>2, OtherEvent DEF PaymentFailed, IInv, Events
    <2>2. UNCHANGED <<orders, req>>
      BY <1>2 DEF PaymentFailed
    <2> QED
      BY <2>1, <2>2, BystanderStep DEF Releasing
  <1>3. ASSUME NEW h \in Requests, Work(h)
        PROVE  OneWinner'
    BY <1>3, CheckoutBystander, PaidBystander, StockBystander, AcceptBystander,
       CancelDecides, CancelPublishes DEF Work
  <1>4. EditCart => UNCHANGED <<orders, published, req>>
    BY DEF EditCart, UpdateCartItem, RemoveFromCart, ClearCart
  <1>5. \A o \in Orders : TimePasses(o) => UNCHANGED <<orders, published, req>>
    BY DEF TimePasses
  <1> QED
    BY <1>1, <1>2, <1>3, <1>4, <1>5, AcceptBystander DEF Next, vars

LEMMA WinnerInvariance == Spec => [](IInv /\ OneWinner)
  <1>1. Init => OneWinner
    BY DEF Init, OneWinner, Releasing, Idle, Events
  <1> QED
    BY <1>1, WinnerStep, Invariance, PTL DEF Spec

\* Of the cancellations of an order that run side by side, one wins the UPDATE and
\* publishes; the others fail.
THEOREM CancelledOnceAlways == Spec => []CancelledOnce
  <1>1. OneWinner => CancelledOnce
    BY DEF OneWinner, CancelledOnce
  <1> QED
    BY <1>1, WinnerInvariance, PTL

-----------------------------------------------------------------------------
(* What the reservations are for *)

Reserving(h) == req[h].op = "checkout" /\ req[h].pc = "reserve"
Open(h) == req[h].op = "checkout" /\ req[h].pc \in {"reserve", "undo"}
Confirming(h) == req[h].op = "paid" /\ req[h].pc = "stock"

\* The units of p that user u has in a PENDING order.
InPending(p, u) ==
    \E o \in Orders : /\ orders[o].status = "PENDING" /\ orders[o].user = u
                      /\ p \in InCart(orders[o].items)

\* A request that will still commit, release or confirm the reservation.
Answers(h, p, u) ==
    \/ Open(h) /\ req[h].u = u /\ p \in req[h].done
    \/ /\ Releasing(h) \/ Confirming(h)
       /\ orders[req[h].o].user = u /\ p \in req[h].todo

\* Whatever is reserved has an order that waits for its payment, or a request that
\* answers for it.
EachIsHeldFor ==
    \A p \in Products, u \in Users : resv[p][u].status = "ACTIVE" =>
        InPending(p, u) \/ \E h \in Requests : Answers(h, p, u)

LEMMA StepMoves ==
    ASSUME TypeOK, NEW h \in Requests
    PROVE  /\ \A x : Step(h, x) => \A g \in Requests : req'[g] = IF g = h THEN x ELSE req[g]
           /\ End(h) => \A g \in Requests : req'[g] = IF g = h THEN Idle ELSE req[g]
  BY DEF End, Step, TypeOK

\* What a call of catalog-service does when it is answered.
LEMMA CatalogMoves ==
    ASSUME TypeOK, NEW p \in Products, NEW u \in Users
    PROVE  /\ \A n \in Nat : CatalogReserve(p, u, n) =>
                resv'[p][u] = [status |-> "ACTIVE", quantity |-> n]
           /\ (\/ \E n \in Nat : CatalogReserve(p, u, n)
               \/ releaseStock(p, u) \/ confirmStock(p, u)) =>
                \A q \in Products, v \in Users :
                    q # p \/ v # u => resv'[q][v] = resv[q][v]
           /\ Faults = {} /\ releaseStock(p, u) =>
                IF resv[p][u].status = "ACTIVE" THEN resv'[p][u].status = "RELEASED"
                ELSE resv'[p][u] = resv[p][u]
           /\ Faults = {} /\ confirmStock(p, u) =>
                IF resv[p][u].status = "ACTIVE" THEN resv'[p][u].status = "CONFIRMED"
                ELSE resv'[p][u] = resv[p][u]
  <1>1. resv \in [Products -> [Users -> Reservation]] /\ resv[p][u] \in Reservation
    BY DEF TypeOK
  <1>2. ASSUME NEW r, resv' = [resv EXCEPT ![p][u] = r]
        PROVE  /\ resv'[p][u] = r
               /\ \A q \in Products, v \in Users :
                    q # p \/ v # u => resv'[q][v] = resv[q][v]
    BY <1>1, <1>2
  <1>3. ASSUME NEW s, resv' = [resv EXCEPT ![p][u].status = s]
        PROVE  /\ resv'[p][u].status = s
               /\ \A q \in Products, v \in Users :
                    q # p \/ v # u => resv'[q][v] = resv[q][v]
    BY <1>1, <1>3 DEF Reservation
  <1>4. releaseStock(p, u) => resv' = resv \/ resv' = [resv EXCEPT ![p][u].status = "RELEASED"]
    BY DEF releaseStock
  <1>5. confirmStock(p, u) => resv' = resv \/ resv' = [resv EXCEPT ![p][u].status = "CONFIRMED"]
    BY DEF confirmStock, catalogVars
  <1>6. Faults = {} /\ releaseStock(p, u) =>
          IF resv[p][u].status = "ACTIVE"
            THEN resv' = [resv EXCEPT ![p][u].status = "RELEASED"] ELSE resv' = resv
    BY DEF releaseStock
  <1>7. Faults = {} /\ confirmStock(p, u) =>
          IF resv[p][u].status = "ACTIVE"
            THEN resv' = [resv EXCEPT ![p][u].status = "CONFIRMED"] ELSE resv' = resv
    BY DEF confirmStock, catalogVars
  <1>8. \A n \in Nat : CatalogReserve(p, u, n) =>
          resv' = [resv EXCEPT ![p][u] = [status |-> "ACTIVE", quantity |-> n]]
    BY DEF CatalogReserve
  <1> QED
    BY <1>2, <1>3, <1>4, <1>5, <1>6, <1>7, <1>8

\* Steps that reserve nothing more and keep the requests that answer for what stays
\* reserved.
LEMMA HeldOn ==
    ASSUME EachIsHeldFor, UNCHANGED orders,
           \A p \in Products, u \in Users : resv'[p][u].status = "ACTIVE" =>
               /\ resv[p][u].status = "ACTIVE"
               /\ \A h \in Requests : Answers(h, p, u) => Answers(h, p, u)'
    PROVE  EachIsHeldFor'
  BY DEF EachIsHeldFor, InPending

\* Steps of a request that answers for nothing, and of the environment.
LEMMA IdleHolds ==
    ASSUME IInv, EachIsHeldFor, UNCHANGED <<orders, resv>>,
           \A g \in Requests :
               req'[g] = req[g] \/ \A p \in Products, u \in Users : ~Answers(g, p, u)
    PROVE  EachIsHeldFor'
  <1>1. \A p \in Products, u \in Users, g \in Requests : Answers(g, p, u) => Answers(g, p, u)'
    BY DEF Answers, Open, Releasing, Confirming
  <1> QED
    BY <1>1, HeldOn

\* Without failures, a request that is over answers for nothing.
LEMMA IdleSteps ==
    ASSUME IInv, Faults = {}, NEW h \in Requests,
           \/ Accept(h) \/ UpsertCartItem(h) \/ AbortCheckout(h) \/ FinishCheckout(h)
           \/ FinishCancel(h) \/ FinishPaid(h)
           \/ UpdateCancelled(h) /\ UNCHANGED orders
    PROVE  /\ UNCHANGED <<orders, resv>>
           /\ \A p \in Products, u \in Users : ~Answers(h, p, u)
           /\ \A g \in Requests : g # h => req'[g] = req[g]
  <1>1. UNCHANGED <<orders, resv>>
    BY DEF Accept, AddToCart, Checkout, CancelOrder, PaymentSucceeded, UpsertCartItem,
           AbortCheckout, FinishCheckout, FinishCancel, FinishPaid, UpdateCancelled,
           orderVars, catalogVars
  <1>2. \A p \in Products, u \in Users : ~Answers(h, p, u)
    <2>1. Accept(h) => req[h].op = "idle"
      <3>1. Idle.op = "idle"
        BY DEF Idle
      <3>2. Accept(h) => req[h] = Idle
        <4> HIDE DEF Idle
        <4> QED
          BY DEF Accept, AddToCart, Checkout, CancelOrder, PaymentSucceeded
      <3> QED
        BY <3>1, <3>2
    <2>2. \/ req[h].op \in {"idle", "add"}
          \/ req[h].op = "checkout" /\ req[h].pc = "undo" /\ req[h].done = {}
          \/ req[h].op = "checkout" /\ req[h].pc = "clear"
          \/ req[h].op \in {"cancel", "paid"} /\ req[h].pc = "update"
          \/ req[h].op \in {"cancel", "paid"} /\ req[h].todo = {}
      BY <2>1 DEF UpsertCartItem, AbortCheckout, FinishCheckout, FinishCancel, FinishPaid,
                  UpdateCancelled
    <2> QED
      BY <2>2 DEF Answers, Open, Releasing, Confirming
  <1>3. End(h) \/ \E x : Step(h, x)
    BY DEF Accept, AddToCart, Checkout, CancelOrder, PaymentSucceeded, UpsertCartItem,
           AbortCheckout, FinishCheckout, FinishCancel, FinishPaid, UpdateCancelled, ReadOrder
  <1> QED
    BY <1>1, <1>2, <1>3, StepMoves DEF IInv

\* An answered attempt of ReserveItem, when nothing fails.
LEMMA ReserveHolds ==
    ASSUME IInv, EachIsHeldFor, Faults = {}, NEW h \in Requests, NEW p \in Products,
           ReserveItem(h, p)
    PROVE  EachIsHeldFor'
  <1> DEFINE x == req[h]
             ok == [x EXCEPT !.done = @ \cup {p}, !.tries = 0]
  <1>1. /\ x \in CheckoutReq /\ x.op = "checkout" /\ x.pc = "reserve"
        /\ x.u \in Users /\ x.items[p] \in Nat /\ UNCHANGED orders
    BY ReqKinds DEF ReserveItem, IInv, orderVars, CheckoutReq, Items
  <1>2. CASE Step(h, ok) /\ CatalogReserve(p, x.u, x.items[p])
    <2>1. \A g \in Requests : req'[g] = IF g = h THEN ok ELSE req[g]
      BY <1>2, StepMoves DEF IInv
    <2>2. ok.op = x.op /\ ok.pc = x.pc /\ ok.u = x.u /\ ok.done = x.done \cup {p}
      BY <1>1 DEF CheckoutReq
    <2> HIDE DEF ok
    <2>3. \A q \in Products, u \in Users, g \in Requests : Answers(g, q, u) => Answers(g, q, u)'
      BY <1>1, <2>1, <2>2 DEF Answers, Open, Releasing, Confirming
    <2>4. PICK v \in Users : v = x.u
      BY <1>1
    <2>5. Answers(h, p, v)'
      BY <1>1, <2>1, <2>2, <2>4 DEF Answers, Open
    <2>6. \A q \in Products, u \in Users : q # p \/ u # v => resv'[q][u] = resv[q][u]
      BY <1>1, <1>2, <2>4, CatalogMoves DEF IInv
    <2> HIDE DEF x
    <2> QED
      BY <1>1, <2>3, <2>5, <2>6 DEF EachIsHeldFor, InPending
  <1>3. CASE UNCHANGED resv /\ \E y : /\ Step(h, y) /\ y.op = "checkout"
                                      /\ y.pc \in {"reserve", "undo"}
                                      /\ y.u = x.u /\ y.done = x.done
    <2>1. PICK y : /\ Step(h, y) /\ y.op = "checkout" /\ y.pc \in {"reserve", "undo"}
                   /\ y.u = x.u /\ y.done = x.done
      BY <1>3
    <2>2. \A g \in Requests : req'[g] = IF g = h THEN y ELSE req[g]
      BY <2>1, StepMoves DEF IInv
    <2>3. \A q \in Products, u \in Users, g \in Requests : Answers(g, q, u) => Answers(g, q, u)'
      BY <1>1, <2>1, <2>2 DEF Answers, Open, Releasing, Confirming
    <2> QED
      BY <1>1, <1>3, <2>3, HeldOn
  <1>4. ASSUME RetryOrUndo(h, x) \/ Step(h, [x EXCEPT !.pc = "undo", !.tries = 0])
        PROVE  \E y : /\ Step(h, y) /\ y.op = "checkout" /\ y.pc \in {"reserve", "undo"}
                      /\ y.u = x.u /\ y.done = x.done
    <2> DEFINE undo == [x EXCEPT !.pc = "undo", !.tries = 0]
               retry == [x EXCEPT !.tries = @ + 1]
    <2>1. /\ retry.op = "checkout" /\ retry.pc = "reserve"
          /\ retry.u = x.u /\ retry.done = x.done
      BY <1>1 DEF CheckoutReq
    <2>2. /\ undo.op = "checkout" /\ undo.pc = "undo"
          /\ undo.u = x.u /\ undo.done = x.done
      BY <1>1 DEF CheckoutReq
    <2>3. Step(h, undo) \/ Step(h, retry)
      BY <1>4 DEF RetryOrUndo
    <2> HIDE DEF undo, retry
    <2> QED
      BY <2>1, <2>2, <2>3
  <1>5. \/ Step(h, ok) /\ CatalogReserve(p, x.u, x.items[p])
        \/ /\ UNCHANGED resv
           /\ RetryOrUndo(h, x) \/ Step(h, [x EXCEPT !.pc = "undo", !.tries = 0])
    BY DEF ReserveItem
  <1> HIDE DEF ok
  <1> QED
    BY <1>2, <1>3, <1>4, <1>5

\* A compensation, a release or a confirmation, when nothing fails.
LEMMA ItemHolds ==
    ASSUME IInv, EachIsHeldFor, Faults = {}, NEW h \in Requests, NEW p \in Products,
           CompensateItem(h, p) \/ ReleaseItem(h, p) \/ ConfirmItem(h, p)
    PROVE  EachIsHeldFor'
  <1> DEFINE u == IF req[h].op = "checkout" THEN req[h].u ELSE orders[req[h].o].user
             x == IF req[h].op = "checkout" THEN [req[h] EXCEPT !.done = @ \ {p}]
                  ELSE [req[h] EXCEPT !.todo = @ \ {p}]
  <1>1. /\ req[h] \in CheckoutReq \cup UpdateReq
        /\ req[h].op = "checkout" => req[h] \in CheckoutReq
        /\ req[h].op # "checkout" => req[h] \in UpdateReq
        /\ u \in Users
    BY ReqKinds DEF CompensateItem, ReleaseItem, ConfirmItem, IInv, CheckoutReq, UpdateReq,
                    VersionsTell, TypeOK, Order
  <1>2. /\ Step(h, x) /\ UNCHANGED orders
        /\ releaseStock(p, u) \/ confirmStock(p, u)
    BY DEF CompensateItem, ReleaseItem, ConfirmItem, orderVars
  <1>3. /\ x.op = req[h].op /\ x.pc = req[h].pc
        /\ req[h].op = "checkout" => x.u = req[h].u /\ x.done = req[h].done \ {p}
        /\ req[h].op # "checkout" => x.o = req[h].o /\ x.todo = req[h].todo \ {p}
    BY <1>1 DEF CheckoutReq, UpdateReq
  <1>4. \A g \in Requests : req'[g] = IF g = h THEN x ELSE req[g]
    BY <1>2, StepMoves DEF IInv
  <1>5. /\ resv'[p][u].status # "ACTIVE"
        /\ \A q \in Products, v \in Users : q # p \/ v # u => resv'[q][v] = resv[q][v]
    BY <1>1, <1>2, CatalogMoves DEF IInv
  <1> HIDE DEF x
  <1>6. \A q \in Products, v \in Users, g \in Requests :
          (q # p \/ v # u) /\ Answers(g, q, v) => Answers(g, q, v)'
    BY <1>2, <1>3, <1>4 DEF Answers, Open, Releasing, Confirming
  <1> HIDE DEF u
  <1> QED
    BY <1>1, <1>2, <1>5, <1>6, HeldOn

\* The commit: what the checkout reserved is the order's from now on.
LEMMA CommitHolds ==
    ASSUME IInv, EachIsHeldFor, Faults = {}, NEW h \in Requests, CommitOrder(h)
    PROVE  EachIsHeldFor'
  <1> DEFINE x == req[h]
             row == [status |-> "PENDING", version |-> 1, user |-> x.u, items |-> x.items,
                     paymentId |-> FALSE, key |-> x.key]
             clear == [x EXCEPT !.pc = "clear"]
  <1>1. /\ x \in CheckoutReq /\ x.op = "checkout" /\ x.pc = "reserve" /\ x.o \in Orders
        /\ x.done = InCart(x.items) /\ UNCHANGED resv
        /\ orders' = [orders EXCEPT ![x.o] = row] /\ Step(h, clear)
    BY ReqKinds DEF CommitOrder, IInv, catalogVars, CheckoutReq
  <1>2. \A o \in Orders : orders'[o] = IF o = x.o THEN row ELSE orders[o]
    BY <1>1 DEF IInv, TypeOK
  <1>3. \A g \in Requests : req'[g] = IF g = h THEN clear ELSE req[g]
    BY <1>1, StepMoves DEF IInv
  <1>4. row.status = "PENDING" /\ row.user = x.u /\ row.items = x.items
    OBVIOUS
  <1>5. orders[x.o] = NoOrder
    BY <1>1 DEF IInv, CheckoutsOwnOrders
  <1> HIDE DEF row, clear
  <1>6. ASSUME NEW p \in Products, NEW u \in Users, InPending(p, u)
        PROVE  InPending(p, u)'
    BY <1>2, <1>5, <1>6 DEF InPending, NoOrder
  <1>7. ASSUME NEW p \in Products, NEW u \in Users, Answers(h, p, u)
        PROVE  InPending(p, u)'
    BY <1>1, <1>2, <1>4, <1>7 DEF InPending, Answers, Open, Releasing, Confirming
  <1>8. ASSUME NEW p \in Products, NEW u \in Users, NEW g \in Requests, g # h,
               Answers(g, p, u)
        PROVE  Answers(g, p, u)'
    <2>1. req[g].op \in {"cancel", "paid"} => req[g].o # x.o /\ req[g].o \in Orders
      BY <1>5, ReqKinds DEF IInv, VersionsTell, UpdateReq
    <2> QED
      BY <1>2, <1>3, <1>8, <2>1 DEF Answers, Open, Releasing, Confirming
  <1> HIDE DEF x
  <1> QED
    BY <1>1, <1>6, <1>7, <1>8 DEF EachIsHeldFor

\* The UPDATE of a cancellation or of a payment, when nothing fails: the request
\* answers for the items of the order, whether it won or not.
LEMMA UpdateHolds ==
    ASSUME IInv, EachIsHeldFor, Faults = {}, NEW h \in Requests,
           (UpdateCancelled(h) /\ orders' # orders) \/ UpdatePaid(h)
    PROVE  EachIsHeldFor'
  <1> DEFINE o == req[h].o
             x == [req[h] EXCEPT !.pc = "stock", !.todo = InCart(orders[o].items)]
  <1>1. /\ req[h] \in UpdateReq /\ o \in Orders /\ req[h].op \in {"cancel", "paid"}
        /\ orders[o] \in Order /\ req[h].pc = "update" /\ resv' = resv
    BY ReqKinds DEF UpdateCancelled, UpdatePaid, IInv, TypeOK, UpdateReq, VersionsTell,
                    catalogVars
  <1>2. /\ Step(h, x)
        /\ \/ orders' = orders
           \/ orders' = [orders EXCEPT ![o].status = "CANCELLED", ![o].version = @ + 1]
           \/ orders' = [orders EXCEPT ![o].status = "PAID", ![o].paymentId = TRUE,
                                       ![o].version = @ + 1]
    BY DEF UpdateCancelled, UpdatePaid
  <1>3. \A q \in Orders : /\ q # o => orders'[q] = orders[q]
                          /\ orders'[o].user = orders[o].user
                          /\ orders'[o].items = orders[o].items
    BY <1>1, <1>2 DEF IInv, TypeOK, Order
  <1>4. /\ x.op = req[h].op /\ x.pc = "stock" /\ x.o = o /\ x.todo = InCart(orders[o].items)
    BY <1>1 DEF UpdateReq, InCart
  <1>5. \A g \in Requests : req'[g] = IF g = h THEN x ELSE req[g]
    BY <1>2, StepMoves DEF IInv
  <1> HIDE DEF x
  <1>6. ASSUME NEW p \in Products, NEW u \in Users, InPending(p, u)
        PROVE  InPending(p, u)' \/ Answers(h, p, u)'
    BY <1>1, <1>3, <1>4, <1>5, <1>6 DEF InPending, Answers, Releasing, Confirming
  <1>7. ASSUME NEW p \in Products, NEW u \in Users, NEW g \in Requests, Answers(g, p, u)
        PROVE  Answers(g, p, u)'
    <2>1. g # h
      BY <1>1, <1>7 DEF Answers, Open, Releasing, Confirming
    <2>2. req[g].op \in {"cancel", "paid"} => req[g].o \in Orders
      BY ReqKinds DEF IInv, UpdateReq
    <2>3. req[g].op \in {"cancel", "paid"} => orders'[req[g].o].user = orders[req[g].o].user
      BY <1>3, <2>2
    <2> QED
      BY <1>5, <1>7, <2>1, <2>3 DEF Answers, Open, Releasing, Confirming
  <1> QED
    BY <1>1, <1>6, <1>7 DEF EachIsHeldFor

LEMMA HeldStep ==
    ASSUME IInv, EachIsHeldFor, Faults = {}, [Next]_vars
    PROVE  EachIsHeldFor'
  <1>1. CASE UNCHANGED <<orders, resv, req>>
    BY <1>1, IdleHolds
  <1>2. EditCart \/ (\E o \in Orders : PaymentFailed(o) \/ TimePasses(o))
          => UNCHANGED <<orders, resv, req>>
    BY DEF EditCart, UpdateCartItem, RemoveFromCart, ClearCart, PaymentFailed, TimePasses,
           catalogVars
  <1>3. ASSUME NEW h \in Requests, Work(h) \/ Accept(h) \/ Crash(h)
        PROVE  EachIsHeldFor'
    <2>1. ~Crash(h)
      BY DEF Crash
    <2>2. \/ Accept(h) \/ UpsertCartItem(h) \/ AbortCheckout(h) \/ FinishCheckout(h)
          \/ FinishCancel(h) \/ FinishPaid(h)
          \/ UpdateCancelled(h) /\ UNCHANGED orders
          \/ UpdateCancelled(h) /\ orders' # orders
          \/ UpdatePaid(h)
          \/ CommitOrder(h)
          \/ \E p \in Products : ReserveItem(h, p) \/ CompensateItem(h, p)
                                 \/ ReleaseItem(h, p) \/ ConfirmItem(h, p)
      BY <1>3, <2>1 DEF Work
    <2> QED
      BY <2>2, IdleSteps, IdleHolds, UpdateHolds, CommitHolds, ReserveHolds, ItemHolds
  <1> QED
    BY <1>1, <1>2, <1>3 DEF Next, vars

\* With no failure, a saga that went wrong and an order that was cancelled or paid
\* leave nothing reserved, also when a user checks out again and again.
THEOREM HoldsAreAnswered == ASSUME Faults = {} PROVE Spec => []NothingHeldInVain
  <1>1. Init => EachIsHeldFor
    BY DEF Init, EachIsHeldFor
  <1>2. IInv /\ EachIsHeldFor /\ [Next]_vars => EachIsHeldFor'
    BY HeldStep
  <1>3. EachIsHeldFor => NothingHeldInVain
    BY DEF EachIsHeldFor, NothingHeldInVain, Quiescent, InPending, InCart, Answers, Open,
           Releasing, Confirming, Idle
  <1> QED
    BY <1>1, <1>2, <1>3, Invariance, PTL DEF Spec

-----------------------------------------------------------------------------
(* The units of a PENDING order, when a user checks out once *)

\* A user has one order, or one checkout that may still create it.
OneOfEachUser ==
    /\ \A o1, o2 \in Orders :
         (/\ orders[o1] # NoOrder /\ orders[o2] # NoOrder
          /\ orders[o1].user = orders[o2].user) => o1 = o2
    /\ \A h \in Requests, o \in Orders :
         Open(h) /\ orders[o] # NoOrder => orders[o].user # req[h].u
    /\ \A g, h \in Requests : Open(g) /\ Open(h) /\ req[g].u = req[h].u => g = h

\* A payment callback that lost the UPDATE, and confirms all the same, lost it to a
\* request that moved the order: the version of a PENDING order is the first one.
VersionsCount ==
    /\ \A o \in Orders : orders[o] # NoOrder =>
         /\ orders[o].version >= 1
         /\ orders[o].status = "PENDING" => orders[o].version = 1
    /\ \A h \in Requests :
         /\ req[h].op \in {"cancel", "paid"} => req[h].version >= 1
         /\ Confirming(h) => orders[req[h].o].status # "PENDING"

\* A checkout that may still commit holds the items it is done with.
DoneIsHeld ==
    \A h \in Requests : Reserving(h) =>
        \A p \in req[h].done :
            /\ p \in InCart(req[h].items)
            /\ resv[p][req[h].u] = [status |-> "ACTIVE", quantity |-> req[h].items[p]]

PendingInv == OneOfEachUser /\ VersionsCount /\ DoneIsHeld /\ PendingIsReserved

\* A reservation the invariant speaks of.
Counted(p, u) ==
    InPending(p, u) \/ \E h \in Requests : Reserving(h) /\ req[h].u = u /\ p \in req[h].done

\* The request x carries on from y, or gives up; it has no more to show than y.
Follows(x, y) ==
    /\ x.op = "checkout" /\ x.pc \in {"reserve", "undo"} =>
         y.op = "checkout" /\ y.pc \in {"reserve", "undo"} /\ x.u = y.u
    /\ x.op = "checkout" /\ x.pc = "reserve" =>
         y.pc = "reserve" /\ x.items = y.items /\ x.done \subseteq y.done
    /\ x.op \in {"cancel", "paid"} =>
         /\ x.op = y.op /\ x.o = y.o /\ x.version = y.version
         /\ x.pc = "stock" => y.pc = "stock"

LEMMA PendingOn ==
    ASSUME IInv, PendingInv, UNCHANGED orders,
           resv' \in [Products -> [Users -> Reservation]],
           \A g \in Requests : Follows(req'[g], req[g]),
           \A p \in Products, u \in Users : Counted(p, u) => resv'[p][u] = resv[p][u]
    PROVE  PendingInv'
  <1>1. OneOfEachUser'
    BY DEF PendingInv, OneOfEachUser, Follows, Open
  <1>2. VersionsCount'
    BY DEF PendingInv, VersionsCount, Follows, Confirming
  <1>3. DoneIsHeld'
    <2> SUFFICES ASSUME NEW h \in Requests, Reserving(h)', NEW p \in req'[h].done
                 PROVE  /\ p \in InCart(req'[h].items)
                        /\ resv'[p][req'[h].u] =
                             [status |-> "ACTIVE", quantity |-> req'[h].items[p]]
      BY DEF DoneIsHeld, InCart
    <2>1. /\ Reserving(h) /\ req'[h].u = req[h].u /\ req'[h].items = req[h].items
          /\ p \in req[h].done
      BY DEF Follows, Reserving
    <2>2. p \in Products /\ req[h].u \in Users
      BY <2>1, ReqKinds DEF IInv, CheckoutReq, Reserving
    <2>3. Counted(p, req[h].u)
      BY <2>1 DEF Counted
    <2>4. /\ p \in InCart(req[h].items)
          /\ resv[p][req[h].u] = [status |-> "ACTIVE", quantity |-> req[h].items[p]]
      BY <2>1 DEF PendingInv, DoneIsHeld
    <2>5. resv'[p][req[h].u] = resv[p][req[h].u]
      BY <2>2, <2>3
    <2> QED
      BY <2>1, <2>4, <2>5 DEF InCart
  <1>4. PendingIsReserved'
    <2> SUFFICES ASSUME NEW o \in Orders, orders[o].status = "PENDING",
                        NEW p \in InCart(orders[o].items)
                 PROVE  resv'[p][orders[o].user] =
                          [status |-> "ACTIVE", quantity |-> orders[o].items[p]]
      BY DEF PendingIsReserved, InCart
    <2>1. p \in Products /\ orders[o].user \in Users
      BY DEF InCart, IInv, TypeOK, Order, NoOrder
    <2>2. Counted(p, orders[o].user)
      BY DEF Counted, InPending
    <2> QED
      BY <2>1, <2>2 DEF PendingInv, PendingIsReserved
  <1> QED
    BY <1>1, <1>2, <1>3, <1>4 DEF PendingInv

\* One request moves on.
LEMMA OneFollows ==
    ASSUME IInv, NEW h \in Requests, NEW x, Follows(x, req[h]), Step(h, x)
    PROVE  \A g \in Requests : Follows(req'[g], req[g])
  <1>1. \A g \in Requests : req'[g] = IF g = h THEN x ELSE req[g]
    BY StepMoves DEF IInv
  <1> QED
    BY <1>1 DEF Follows

LEMMA EndFollows ==
    ASSUME IInv, NEW h \in Requests, End(h)
    PROVE  \A g \in Requests : Follows(req'[g], req[g])
  BY StepMoves DEF IInv, Follows, Idle

\* Nobody counts on the reservations of a checkout in progress but itself.
LEMMA OpenAlone ==
    ASSUME IInv, PendingInv, NEW h \in Requests, Open(h)
    PROVE  \A p \in Products : Counted(p, req[h].u) => Reserving(h) /\ p \in req[h].done
  BY DEF PendingInv, OneOfEachUser, Counted, InPending, Open, Reserving, NoOrder

\* Nobody counts on the reservations of an order that is not PENDING.
LEMMA MovedAlone ==
    ASSUME IInv, PendingInv, NEW o \in Orders, orders[o] # NoOrder,
           orders[o].status # "PENDING"
    PROVE  \A p \in Products : ~Counted(p, orders[o].user)
  BY DEF PendingInv, OneOfEachUser, Counted, InPending, Open, Reserving, NoOrder

\* Steps that touch neither an order nor a reservation.
LEMMA QuietPending ==
    ASSUME IInv, PendingInv, NEW h \in Requests,
           \/ UpsertCartItem(h) \/ AbortCheckout(h) \/ FinishCheckout(h)
           \/ FinishCancel(h) \/ FinishPaid(h) \/ Crash(h)
           \/ (UpdateCancelled(h) \/ UpdatePaid(h)) /\ End(h) /\ UNCHANGED orders
    PROVE  PendingInv'
  <1>1. UNCHANGED <<orders, resv>> /\ End(h)
    BY DEF UpsertCartItem, AbortCheckout, FinishCheckout, FinishCancel, FinishPaid, Crash,
           UpdateCancelled, UpdatePaid, orderVars, catalogVars
  <1> QED
    BY <1>1, EndFollows, PendingOn DEF IInv, TypeOK

LEMMA AcceptPending ==
    ASSUME IInv, PendingInv, NEW h \in Requests,
           \/ \E u \in Users, p \in Products, n \in 1..MaxQtyPerItem : AddToCart(h, u, p, n)
           \/ \E o \in Orders : CancelOrder(h, o) \/ PaymentSucceeded(h, o)
    PROVE  PendingInv'
  <1>1. UNCHANGED <<orders, resv>>
    BY DEF AddToCart, CancelOrder, PaymentSucceeded, orderVars, catalogVars
  <1>2. PICK x : /\ Step(h, x)
                 /\ \/ x.op = "add"
                    \/ /\ x.op \in {"cancel", "paid"} /\ x.pc = "update"
                       /\ \E o \in Orders : /\ orders[o] # NoOrder
                                            /\ x.version = orders[o].version
    <2>1. ASSUME NEW o \in Orders, NEW op \in {"cancel", "paid"}, orders[o] # NoOrder,
                 ReadOrder(h, o, op)
          PROVE  \E x : /\ Step(h, x) /\ x.op \in {"cancel", "paid"} /\ x.pc = "update"
                        /\ \E q \in Orders : /\ orders[q] # NoOrder
                                             /\ x.version = orders[q].version
      <3> DEFINE x == [op |-> op, pc |-> "update", o |-> o, status |-> orders[o].status,
                       version |-> orders[o].version, todo |-> {}]
      <3>1. x.op = op /\ x.pc = "update" /\ x.version = orders[o].version
        OBVIOUS
      <3>2. Step(h, x)
        BY <2>1 DEF ReadOrder
      <3> HIDE DEF x
      <3> QED
        BY <2>1, <3>1, <3>2
    <2>2. ASSUME NEW u \in Users, NEW p \in Products, NEW n \in 1..MaxQtyPerItem,
                 AddToCart(h, u, p, n)
          PROVE  \E x : Step(h, x) /\ x.op = "add"
      BY <2>2 DEF AddToCart
    <2>3. \A o \in Orders :
            /\ CancelOrder(h, o) => orders[o] # NoOrder /\ ReadOrder(h, o, "cancel")
            /\ PaymentSucceeded(h, o) => orders[o] # NoOrder /\ ReadOrder(h, o, "paid")
      BY DEF CancelOrder, PaymentSucceeded
    <2> QED
      BY <2>1, <2>2, <2>3
  <1>3. \A g \in Requests : req'[g] = IF g = h THEN x ELSE req[g]
    BY <1>2, StepMoves DEF IInv
  <1>4. OneOfEachUser'
    BY <1>1, <1>2, <1>3 DEF PendingInv, OneOfEachUser, Open
  <1>5. VersionsCount'
    BY <1>1, <1>2, <1>3 DEF PendingInv, VersionsCount, Confirming
  <1>6. DoneIsHeld'
    BY <1>1, <1>2, <1>3 DEF PendingInv, DoneIsHeld, Reserving
  <1>7. PendingIsReserved'
    BY <1>1 DEF PendingInv, PendingIsReserved
  <1> QED
    BY <1>4, <1>5, <1>6, <1>7 DEF PendingInv

LEMMA CheckoutPending ==
    ASSUME IInv, PendingInv, OneOrderPerUser, NEW h \in Requests, NEW u \in Users,
           NEW o \in Orders, NEW k \in Keys, Checkout(h, u, o, k)
    PROVE  PendingInv'
  <1> DEFINE x == [op |-> "checkout", pc |-> "reserve", u |-> u, o |-> o, key |-> k,
                   items |-> cart[u], done |-> {}, tries |-> 0]
  <1>1. UNCHANGED <<orders, resv>> /\ Step(h, x) /\ ~HasOrder(u)
    BY DEF Checkout, orderVars, catalogVars
  <1>2. x.op = "checkout" /\ x.u = u /\ x.done = {}
    OBVIOUS
  <1>3. \A g \in Requests : req'[g] = IF g = h THEN x ELSE req[g]
    BY <1>1, StepMoves DEF IInv
  <1> HIDE DEF x
  <1>4. OneOfEachUser'
    BY <1>1, <1>2, <1>3 DEF PendingInv, OneOfEachUser, Open, HasOrder
  <1>5. VersionsCount'
    BY <1>1, <1>2, <1>3 DEF PendingInv, VersionsCount, Confirming
  <1>6. DoneIsHeld' /\ PendingIsReserved'
    BY <1>1, <1>2, <1>3 DEF PendingInv, DoneIsHeld, PendingIsReserved, Reserving
  <1> QED
    BY <1>4, <1>5, <1>6 DEF PendingInv

LEMMA ReservePending ==
    ASSUME IInv, IInv', PendingInv, NEW h \in Requests, NEW p \in Products, ReserveItem(h, p)
    PROVE  PendingInv'
  <1> DEFINE x == req[h]
             ok == [x EXCEPT !.done = @ \cup {p}, !.tries = 0]
             undo == [x EXCEPT !.pc = "undo", !.tries = 0]
             retry == [x EXCEPT !.tries = @ + 1]
  <1>1. /\ x \in CheckoutReq /\ Reserving(h) /\ Open(h) /\ p \in InCart(x.items) \ x.done
        /\ x.u \in Users /\ x.items[p] \in Nat /\ UNCHANGED orders
    BY ReqKinds DEF ReserveItem, IInv, orderVars, CheckoutReq, Items, Open, Reserving
  <1>2. /\ Follows(undo, x) /\ Follows(retry, x)
        /\ ok.op = "checkout" /\ ok.pc = "reserve" /\ ok.u = x.u /\ ok.items = x.items
        /\ ok.done = x.done \cup {p}
    <2>1. /\ undo.op = "checkout" /\ undo.pc = "undo" /\ undo.u = x.u
          /\ x.op = "checkout" /\ x.pc = "reserve"
      BY <1>1 DEF CheckoutReq, Reserving
    <2>2. /\ retry.op = "checkout" /\ retry.pc = "reserve" /\ retry.u = x.u
          /\ retry.items = x.items /\ retry.done = x.done
      BY <1>1, <2>1 DEF CheckoutReq
    <2>3. /\ ok.op = "checkout" /\ ok.pc = "reserve" /\ ok.u = x.u /\ ok.items = x.items
          /\ ok.done = x.done \cup {p}
      BY <1>1, <2>1 DEF CheckoutReq
    <2> HIDE DEF undo, retry, ok, x
    <2> QED
      BY <2>1, <2>2, <2>3 DEF Follows
  <1>3. /\ resv' = resv \/ CatalogReserve(p, x.u, x.items[p])
        /\ \/ Step(h, ok) /\ CatalogReserve(p, x.u, x.items[p])
           \/ Step(h, undo) \/ Step(h, retry) \/ End(h)
    BY DEF ReserveItem, RetryOrUndo
  <1> HIDE DEF ok, undo, retry
  <1>4. \A q \in Products, v \in Users :
          q # p \/ v # x.u => resv'[q][v] = resv[q][v]
    BY <1>1, <1>3, CatalogMoves DEF IInv
  <1>5. ~Counted(p, x.u)
    BY <1>1, OpenAlone
  <1>6. CASE Step(h, undo) \/ Step(h, retry) \/ End(h)
    <2>1. \A g \in Requests : Follows(req'[g], req[g])
      BY <1>2, <1>6, OneFollows, EndFollows
    <2>2. \A q \in Products, v \in Users : Counted(q, v) => resv'[q][v] = resv[q][v]
      BY <1>4, <1>5
    <2> QED
      BY <1>1, <2>1, <2>2, PendingOn DEF IInv, TypeOK
  <1>7. CASE Step(h, ok) /\ CatalogReserve(p, x.u, x.items[p])
    <2>1. \A g \in Requests : req'[g] = IF g = h THEN ok ELSE req[g]
      BY <1>7, StepMoves DEF IInv
    <2>2. resv'[p][x.u] = [status |-> "ACTIVE", quantity |-> x.items[p]]
      BY <1>1, <1>7, CatalogMoves DEF IInv
    <2>3. OneOfEachUser'
      BY <1>1, <1>2, <2>1 DEF PendingInv, OneOfEachUser, Open
    <2>4. VersionsCount'
      BY <1>1, <1>2, <2>1 DEF PendingInv, VersionsCount, Confirming
    <2>5. DoneIsHeld'
      <3> SUFFICES ASSUME NEW g \in Requests, Reserving(g)', NEW q \in req'[g].done
                   PROVE  /\ q \in InCart(req'[g].items)
                          /\ resv'[q][req'[g].u] =
                               [status |-> "ACTIVE", quantity |-> req'[g].items[q]]
        BY DEF DoneIsHeld, InCart
      <3>1. /\ Reserving(g) /\ req'[g].u = req[g].u /\ req'[g].items = req[g].items
            /\ q \in req[g].done \/ (g = h /\ q = p)
            /\ req[g].u \in Users
        <4>1. Reserving(g) /\ req'[g].u = req[g].u /\ req'[g].items = req[g].items
          BY <1>1, <1>2, <2>1 DEF Reserving
        <4>2. q \in req[g].done \/ (g = h /\ q = p)
          BY <1>2, <2>1
        <4>3. req[g].u \in Users
          BY <4>1, ReqKinds DEF Reserving, IInv, CheckoutReq
        <4> QED
          BY <4>1, <4>2, <4>3
      <3>2. CASE g = h /\ q = p
        BY <1>1, <2>2, <3>1, <3>2
      <3>3. CASE q \in req[g].done
        <4>1. q \in Products /\ Counted(q, req[g].u)
          BY <3>1, <3>3, ReqKinds DEF IInv, CheckoutReq, Reserving, Counted
        <4> QED
          BY <1>4, <1>5, <3>1, <3>3, <4>1 DEF PendingInv, DoneIsHeld
      <3> QED
        BY <3>1, <3>2, <3>3
    <2>6. PendingIsReserved'
      <3> SUFFICES ASSUME NEW o \in Orders, orders[o].status = "PENDING",
                          NEW q \in InCart(orders[o].items)
                   PROVE  resv'[q][orders[o].user] =
                            [status |-> "ACTIVE", quantity |-> orders[o].items[q]]
        BY <1>1 DEF PendingIsReserved, InCart
      <3>1. q \in Products /\ orders[o].user \in Users /\ Counted(q, orders[o].user)
        BY DEF InCart, IInv, TypeOK, Order, NoOrder, Counted, InPending
      <3> QED
        BY <1>4, <1>5, <3>1 DEF PendingInv, PendingIsReserved
    <2> QED
      BY <2>3, <2>4, <2>5, <2>6 DEF PendingInv
  <1> QED
    BY <1>3, <1>6, <1>7

LEMMA CommitPending ==
    ASSUME IInv, PendingInv, NEW h \in Requests, CommitOrder(h)
    PROVE  PendingInv'
  <1> DEFINE x == req[h]
             row == [status |-> "PENDING", version |-> 1, user |-> x.u, items |-> x.items,
                     paymentId |-> FALSE, key |-> x.key]
             clear == [x EXCEPT !.pc = "clear"]
             undo == [x EXCEPT !.pc = "undo"]
  <1>1. /\ x \in CheckoutReq /\ Reserving(h) /\ Open(h) /\ x.o \in Orders /\ x.u \in Users
        /\ x.done = InCart(x.items) /\ UNCHANGED resv
        /\ \/ orders' = [orders EXCEPT ![x.o] = row] /\ Step(h, clear)
           \/ orders' = orders /\ Step(h, undo)
    BY ReqKinds DEF CommitOrder, IInv, catalogVars, CheckoutReq, Reserving, Open
  <1>2. /\ Follows(undo, x) /\ clear.op = "checkout" /\ clear.pc = "clear"
        /\ row.status = "PENDING" /\ row.version = 1 /\ row.user = x.u /\ row.items = x.items
        /\ orders[x.o] = NoOrder
    BY <1>1 DEF Follows, CheckoutReq, Reserving, IInv, CheckoutsOwnOrders
  <1> HIDE DEF row, clear, undo
  <1>3. CASE orders' = orders /\ Step(h, undo)
    BY <1>1, <1>2, <1>3, OneFollows, PendingOn DEF IInv, TypeOK
  <1>4. CASE orders' = [orders EXCEPT ![x.o] = row] /\ Step(h, clear)
    <2>1. \A o \in Orders : orders'[o] = IF o = x.o THEN row ELSE orders[o]
      BY <1>4 DEF IInv, TypeOK
    <2>2. \A g \in Requests : req'[g] = IF g = h THEN clear ELSE req[g]
      BY <1>4, StepMoves DEF IInv
    <2>3. OneOfEachUser'
      BY <1>1, <1>2, <2>1, <2>2 DEF PendingInv, OneOfEachUser, Open
    <2>4. VersionsCount'
      <3>1. \A g \in Requests : req[g].op \in {"cancel", "paid"} =>
              req[g].o \in Orders /\ req[g].o # x.o
        BY <1>2, ReqKinds DEF IInv, VersionsTell, UpdateReq
      <3> QED
        BY <1>2, <2>1, <2>2, <3>1 DEF PendingInv, VersionsCount, Confirming
    <2>5. DoneIsHeld'
      BY <1>1, <1>2, <2>2 DEF PendingInv, DoneIsHeld, Reserving
    <2>6. PendingIsReserved'
      BY <1>1, <1>2, <2>1 DEF PendingInv, DoneIsHeld, PendingIsReserved
    <2> QED
      BY <2>3, <2>4, <2>5, <2>6 DEF PendingInv
  <1> QED
    BY <1>1, <1>3, <1>4

\* A compensation, a release or a confirmation takes nothing that is counted on.
LEMMA ItemPending ==
    ASSUME IInv, IInv', OneWinner, PendingInv, NEW h \in Requests, NEW p \in Products,
           CompensateItem(h, p) \/ ReleaseItem(h, p) \/ ConfirmItem(h, p)
    PROVE  PendingInv'
  <1> DEFINE u == IF req[h].op = "checkout" THEN req[h].u ELSE orders[req[h].o].user
             x == IF req[h].op = "checkout" THEN [req[h] EXCEPT !.done = @ \ {p}]
                  ELSE [req[h] EXCEPT !.todo = @ \ {p}]
  <1>1. /\ req[h].op = "checkout" => req[h] \in CheckoutReq /\ req[h].pc = "undo"
        /\ req[h].op # "checkout" =>
             /\ req[h] \in UpdateReq /\ req[h].op \in {"cancel", "paid"}
             /\ req[h].o \in Orders /\ orders[req[h].o] # NoOrder
             /\ Releasing(h) \/ Confirming(h)
        /\ u \in Users
    BY ReqKinds DEF CompensateItem, ReleaseItem, ConfirmItem, IInv, CheckoutReq, UpdateReq,
                    VersionsTell, TypeOK, Order, Releasing, Confirming
  <1>2. /\ Step(h, x) /\ UNCHANGED orders
        /\ releaseStock(p, u) \/ confirmStock(p, u)
    BY DEF CompensateItem, ReleaseItem, ConfirmItem, orderVars
  <1>3. Follows(x, req[h])
    BY <1>1 DEF Follows, CheckoutReq, UpdateReq
  <1>4. \A q \in Products, v \in Users : q # p \/ v # u => resv'[q][v] = resv[q][v]
    BY <1>1, <1>2, CatalogMoves DEF IInv
  <1>5. ~Counted(p, u)
    <2>1. CASE req[h].op = "checkout"
      BY <1>1, <2>1, OpenAlone DEF Open, Reserving
    <2>2. CASE req[h].op # "checkout"
      <3>1. orders[req[h].o].status # "PENDING"
        BY <1>1, <2>2 DEF PendingInv, VersionsCount, OneWinner
      <3> QED
        BY <1>1, <2>2, <3>1, MovedAlone
    <2> QED
      BY <2>1, <2>2
  <1> HIDE DEF x, u
  <1>6. \A q \in Products, v \in Users : Counted(q, v) => resv'[q][v] = resv[q][v]
    BY <1>4, <1>5
  <1> QED
    BY <1>2, <1>3, <1>6, OneFollows, PendingOn DEF IInv, TypeOK

\* The UPDATE of a cancellation or of a payment leaves the order moved on, also when
\* it lost.
LEMMA UpdatePending ==
    ASSUME IInv, PendingInv, NEW h \in Requests,
           \/ UpdateCancelled(h) /\ ~(End(h) /\ UNCHANGED orders)
           \/ UpdatePaid(h) /\ ~(End(h) /\ UNCHANGED orders)
    PROVE  PendingInv'
  <1> DEFINE o == req[h].o
             x == [req[h] EXCEPT !.pc = "stock", !.todo = InCart(orders[o].items)]
  <1>1. /\ req[h] \in UpdateReq /\ o \in Orders /\ req[h].op \in {"cancel", "paid"}
        /\ orders[o] \in Order /\ orders[o] # NoOrder /\ req[h].pc = "update" /\ resv' = resv
    BY ReqKinds DEF UpdateCancelled, UpdatePaid, IInv, TypeOK, UpdateReq, VersionsTell,
                    catalogVars
  <1>2. /\ Step(h, x)
        /\ \/ orders' = orders /\ ~VersionMatches(req[h])
           \/ orders' = [orders EXCEPT ![o].status = "CANCELLED", ![o].version = @ + 1]
           \/ orders' = [orders EXCEPT ![o].status = "PAID", ![o].paymentId = TRUE,
                                       ![o].version = @ + 1]
    BY DEF UpdateCancelled, UpdatePaid
  <1>3. /\ x.op = req[h].op /\ x.pc = "stock" /\ x.o = o /\ x.version = req[h].version
    BY <1>1 DEF UpdateReq, InCart
  <1>4. \A g \in Requests : req'[g] = IF g = h THEN x ELSE req[g]
    BY <1>2, StepMoves DEF IInv
  <1>5. /\ orders[o].version >= 1 /\ orders[o].version \in Nat
        /\ req[h].version >= 1 /\ req[h].version \in Nat
        /\ req[h].version <= orders[o].version
    BY <1>1 DEF PendingInv, VersionsCount, Order, UpdateReq, IInv, VersionsTell
  <1>6. /\ \A q \in Orders : q # o => orders'[q] = orders[q]
        /\ orders'[o].user = orders[o].user /\ orders'[o].items = orders[o].items
        /\ orders'[o].status # "PENDING" /\ orders'[o].version >= 1
        /\ orders'[o] # NoOrder
    <2>1. CASE orders' = orders /\ ~VersionMatches(req[h])
      BY <1>1, <1>5, <2>1 DEF VersionMatches, PendingInv, VersionsCount
    <2>2. ASSUME NEW s \in {"CANCELLED", "PAID"}, NEW b \in BOOLEAN, NEW n \in Nat,
                 n = orders[o].version + 1,
                 orders' = [orders EXCEPT ![o] = [orders[o] EXCEPT !.status = s,
                                                  !.paymentId = b, !.version = n]]
          PROVE  /\ \A q \in Orders : q # o => orders'[q] = orders[q]
                 /\ orders'[o].user = orders[o].user /\ orders'[o].items = orders[o].items
                 /\ orders'[o].status # "PENDING" /\ orders'[o].version >= 1
                 /\ orders'[o] # NoOrder
      <3>1. orders'[o] = [orders[o] EXCEPT !.status = s, !.paymentId = b, !.version = n]
        BY <1>1, <2>2 DEF IInv, TypeOK
      <3>2. /\ orders'[o].user = orders[o].user /\ orders'[o].items = orders[o].items
            /\ orders'[o].status = s /\ orders'[o].version = n
        BY <1>1, <3>1 DEF Order
      <3>3. \A q \in Orders : q # o => orders'[q] = orders[q]
        BY <2>2 DEF IInv, TypeOK
      <3>4. n >= 1
        BY <1>5, <2>2
      <3>5. orders'[o].status # "NONE" /\ orders'[o].status # "PENDING"
        BY <3>2
      <3> HIDE DEF o
      <3> QED
        BY <3>2, <3>3, <3>4, <3>5 DEF NoOrder
    <2>3. PICK n \in Nat : n = orders[o].version + 1
      BY <1>5
    <2>4. CASE orders' = [orders EXCEPT ![o].status = "CANCELLED", ![o].version = @ + 1]
      <3>1. orders[o].paymentId \in BOOLEAN
        BY <1>1 DEF Order
      <3>2. orders' = [orders EXCEPT ![o] =
              [orders[o] EXCEPT !.status = "CANCELLED", !.paymentId = orders[o].paymentId,
                                !.version = n]]
        BY <1>1, <2>3, <2>4 DEF IInv, TypeOK, Order
      <3> QED
        BY <2>2, <2>3, <3>1, <3>2
    <2>5. CASE orders' = [orders EXCEPT ![o].status = "PAID", ![o].paymentId = TRUE,
                                        ![o].version = @ + 1]
      <3>1. orders' = [orders EXCEPT ![o] =
              [orders[o] EXCEPT !.status = "PAID", !.paymentId = TRUE, !.version = n]]
        BY <1>1, <2>3, <2>5 DEF IInv, TypeOK, Order
      <3> QED
        BY <2>2, <2>3, <3>1
    <2> QED
      BY <1>2, <2>1, <2>4, <2>5
  <1> HIDE DEF x
  <1>7. OneOfEachUser'
    BY <1>1, <1>3, <1>4, <1>6 DEF PendingInv, OneOfEachUser, Open
  <1>8. VersionsCount'
    <2>1. \A g \in Requests : req[g].op \in {"cancel", "paid"} => req[g].o \in Orders
      BY ReqKinds DEF IInv, UpdateReq
    <2> QED
      BY <1>1, <1>3, <1>4, <1>5, <1>6, <2>1 DEF PendingInv, VersionsCount, Confirming
  <1>9. DoneIsHeld'
    BY <1>1, <1>3, <1>4 DEF PendingInv, DoneIsHeld, Reserving
  <1>10. PendingIsReserved'
    BY <1>1, <1>6 DEF PendingInv, PendingIsReserved
  <1> QED
    BY <1>7, <1>8, <1>9, <1>10 DEF PendingInv

LEMMA PendingStep ==
    ASSUME IInv, OneWinner, PendingInv, OneOrderPerUser, [Next]_vars
    PROVE  PendingInv'
  <1>1. CASE UNCHANGED <<orders, resv, req>>
    <2>1. \A g \in Requests : Follows(req'[g], req[g])
      BY <1>1 DEF Follows
    <2> QED
      BY <1>1, <2>1, PendingOn DEF IInv, TypeOK
  <1>2. EditCart \/ (\E o \in Orders : PaymentFailed(o) \/ TimePasses(o))
          => UNCHANGED <<orders, resv, req>>
    BY DEF EditCart, UpdateCartItem, RemoveFromCart, ClearCart, PaymentFailed, TimePasses,
           catalogVars
  <1>3. ASSUME NEW h \in Requests, Work(h)
        PROVE  PendingInv'
    BY <1>3, NextIInv, QuietPending, ReservePending, CommitPending, ItemPending, UpdatePending
       DEF Work
  <1>4. ASSUME NEW h \in Requests, Accept(h)
        PROVE  PendingInv'
    BY <1>4, AcceptPending, CheckoutPending DEF Accept
  <1> QED
    BY <1>1, <1>2, <1>3, <1>4, QuietPending DEF Next, vars

LEMMA PendingInvariance ==
    ASSUME OneOrderPerUser
    PROVE  Spec => [](IInv /\ OneWinner /\ PendingInv)
  <1>1. Init => PendingInv
    BY DEF Init, PendingInv, OneOfEachUser, VersionsCount, DoneIsHeld, PendingIsReserved,
           NoOrder, Idle, Open, Confirming, Reserving
  <1>2. IInv /\ OneWinner /\ PendingInv /\ [Next]_vars => PendingInv'
    BY PendingStep
  <1> QED
    BY <1>1, <1>2, WinnerInvariance, PTL DEF Spec

\* Whatever crashes, fails or races, every item of a PENDING order is reserved with
\* its quantity, when a user checks out once.
THEOREM PendingKeepsItsUnits == ASSUME OneOrderPerUser PROVE Spec => []PendingIsReserved
  <1>1. PendingInv => PendingIsReserved
    BY DEF PendingInv
  <1> QED
    BY <1>1, PendingInvariance, PTL

-----------------------------------------------------------------------------
(* The units of a PAID order, when nothing fails *)

Confirms(h, o, p) == Confirming(h) /\ req[h].o = o /\ p \in req[h].todo

\* A PAID order has sold its units, or the callback that will is still at work.
PaidIsSettled ==
    \A o \in Orders : orders[o].status = "PAID" =>
        \A p \in InCart(orders[o].items) :
            \/ resv[p][orders[o].user].status = "CONFIRMED"
            \/ /\ resv[p][orders[o].user].status = "ACTIVE"
               /\ \E h \in Requests : Confirms(h, o, p)

\* No order but a PAID one loses or gains anything by what becomes of its units.
LEMMA PaidOn ==
    ASSUME IInv, PaidIsSettled,
           \A o \in Orders : orders'[o].status = "PAID" => orders'[o] = orders[o],
           \A o \in Orders, p \in Products : orders'[o].status = "PAID" =>
               LET s == resv[p][orders[o].user].status
                   t == resv'[p][orders[o].user].status
               IN  /\ s = "CONFIRMED" => t = "CONFIRMED"
                   /\ s = "ACTIVE" =>
                        \/ t = "CONFIRMED"
                        \/ t = "ACTIVE" /\ \A h \in Requests :
                                             Confirms(h, o, p) => Confirms(h, o, p)'
    PROVE  PaidIsSettled'
  <1> SUFFICES ASSUME NEW o \in Orders, orders'[o].status = "PAID",
                      NEW p \in InCart(orders'[o].items)
               PROVE  \/ resv'[p][orders'[o].user].status = "CONFIRMED"
                      \/ /\ resv'[p][orders'[o].user].status = "ACTIVE"
                         /\ \E h \in Requests : Confirms(h, o, p)'
    BY DEF PaidIsSettled, InCart
  <1>1. orders'[o] = orders[o] /\ p \in InCart(orders[o].items) /\ p \in Products
    BY DEF InCart
  <1> QED
    BY <1>1 DEF PaidIsSettled

\* Steps of requests that confirm nothing and leave the orders' units alone.
LEMMA OthersPaid ==
    ASSUME IInv, PaidIsSettled, UNCHANGED orders, NEW h \in Requests,
           \A p \in Products, o \in Orders : ~Confirms(h, o, p),
           \A g \in Requests : g # h => req'[g] = req[g],
           \A o \in Orders, p \in Products : orders[o].status = "PAID" =>
               resv'[p][orders[o].user] = resv[p][orders[o].user]
    PROVE  PaidIsSettled'
  <1>1. \A g \in Requests, o \in Orders, p \in Products : Confirms(g, o, p) => Confirms(g, o, p)'
    BY DEF Confirms, Confirming
  <1> QED
    BY <1>1, PaidOn

LEMMA IdlePaid ==
    ASSUME IInv, PaidIsSettled, Faults = {}, NEW h \in Requests,
           \/ Accept(h) \/ UpsertCartItem(h) \/ AbortCheckout(h) \/ FinishCheckout(h)
           \/ FinishCancel(h) \/ FinishPaid(h)
           \/ UpdateCancelled(h) /\ UNCHANGED orders
    PROVE  PaidIsSettled'
  <1>1. /\ UNCHANGED <<orders, resv>>
        /\ \A p \in Products, u \in Users : ~Answers(h, p, u)
        /\ \A g \in Requests : g # h => req'[g] = req[g]
    BY IdleSteps
  <1>2. \A p \in Products, o \in Orders : ~Confirms(h, o, p)
    <2>1. Confirming(h) => orders[req[h].o].user \in Users
      <3>1. Confirming(h) => req[h].o \in Orders /\ orders[req[h].o] # NoOrder
        BY ReqKinds DEF IInv, VersionsTell, Confirming, UpdateReq
      <3> QED
        BY <3>1 DEF IInv, TypeOK, Order
    <2> QED
      BY <1>1, <2>1 DEF Answers, Confirms
  <1> QED
    BY <1>1, <1>2, OthersPaid

\* A checkout in progress: its user has no order.
LEMMA OpenPaid ==
    ASSUME IInv, PendingInv, PaidIsSettled, NEW h \in Requests, NEW p \in Products,
           ReserveItem(h, p) \/ CompensateItem(h, p)
    PROVE  PaidIsSettled'
  <1>1. /\ Open(h) /\ req[h] \in CheckoutReq /\ req[h].u \in Users /\ UNCHANGED orders
        /\ req[h].items[p] \in Nat
    BY ReqKinds DEF ReserveItem, CompensateItem, IInv, CheckoutReq, Items, Open, orderVars
  <1>2. \A g \in Requests : g # h => req'[g] = req[g]
    <2>1. End(h) \/ \E x : Step(h, x)
      BY DEF ReserveItem, CompensateItem, RetryOrUndo
    <2> QED
      BY <2>1, StepMoves DEF IInv
  <1>3. \A q \in Products, v \in Users : v # req[h].u => resv'[q][v] = resv[q][v]
    <2>1. \/ resv' = resv \/ CatalogReserve(p, req[h].u, req[h].items[p])
          \/ releaseStock(p, req[h].u)
      BY DEF ReserveItem, CompensateItem
    <2> QED
      BY <1>1, <2>1, CatalogMoves DEF IInv
  <1>4. \A o \in Orders : orders[o].status = "PAID" =>
          orders[o].user \in Users /\ orders[o].user # req[h].u
    BY <1>1 DEF PendingInv, OneOfEachUser, IInv, TypeOK, Order, NoOrder
  <1>5. \A q \in Products, o \in Orders : ~Confirms(h, o, q)
    BY <1>1 DEF Confirms, Confirming, Open
  <1> QED
    BY <1>1, <1>2, <1>3, <1>4, <1>5, OthersPaid

\* A cancellation: its order is the only one of the user, and CANCELLED.
LEMMA ReleasePaid ==
    ASSUME IInv, OneWinner, PendingInv, PaidIsSettled, NEW h \in Requests,
           NEW p \in Products, ReleaseItem(h, p)
    PROVE  PaidIsSettled'
  <1> DEFINE o == req[h].o
  <1>1. /\ Releasing(h) /\ o \in Orders /\ orders[o] # NoOrder /\ UNCHANGED orders
        /\ orders[o].user \in Users /\ orders[o].status = "CANCELLED"
    BY ReqKinds DEF ReleaseItem, IInv, UpdateReq, VersionsTell, TypeOK, Order, Releasing,
                    OneWinner, orderVars
  <1>2. \A g \in Requests : g # h => req'[g] = req[g]
    BY StepMoves DEF ReleaseItem, IInv
  <1>3. \A q \in Products, v \in Users : v # orders[o].user => resv'[q][v] = resv[q][v]
    BY <1>1, CatalogMoves DEF ReleaseItem, IInv
  <1>4. \A q \in Orders : orders[q].status = "PAID" =>
          orders[q].user \in Users /\ orders[q].user # orders[o].user
    <2>1. \A q \in Orders : orders[q].status = "PAID" =>
            q # o /\ orders[q] # NoOrder /\ orders[q].user \in Users
      BY <1>1 DEF IInv, TypeOK, Order, NoOrder
    <2> QED
      BY <1>1, <2>1 DEF PendingInv, OneOfEachUser
  <1>5. \A q \in Products, r \in Orders : ~Confirms(h, r, q)
    BY <1>1 DEF Confirms, Confirming, Releasing
  <1> QED
    BY <1>1, <1>2, <1>3, <1>4, <1>5, OthersPaid

LEMMA ConfirmPaid ==
    ASSUME IInv, PaidIsSettled, Faults = {}, NEW h \in Requests, NEW p \in Products,
           ConfirmItem(h, p)
    PROVE  PaidIsSettled'
  <1> DEFINE o == req[h].o
             x == [req[h] EXCEPT !.todo = @ \ {p}]
  <1>1. /\ Confirming(h) /\ req[h] \in UpdateReq /\ o \in Orders /\ orders[o] # NoOrder
        /\ UNCHANGED orders /\ orders[o].user \in Users
    BY ReqKinds DEF ConfirmItem, IInv, UpdateReq, VersionsTell, TypeOK, Order, Confirming,
                    orderVars
  <1>2. PICK u \in Users : u = orders[o].user
    BY <1>1
  <1>3. /\ x.op = req[h].op /\ x.pc = req[h].pc /\ x.o = o /\ x.todo = req[h].todo \ {p}
    BY <1>1 DEF UpdateReq
  <1>4. \A g \in Requests : req'[g] = IF g = h THEN x ELSE req[g]
    BY StepMoves DEF ConfirmItem, IInv
  <1>5. /\ resv[p][u].status = "ACTIVE" => resv'[p][u].status = "CONFIRMED"
        /\ resv[p][u].status # "ACTIVE" => resv'[p][u] = resv[p][u]
        /\ \A q \in Products, v \in Users : q # p \/ v # u => resv'[q][v] = resv[q][v]
    BY <1>2, CatalogMoves DEF ConfirmItem, IInv
  <1> HIDE DEF x
  <1>6. ASSUME NEW g \in Requests, NEW r \in Orders, NEW q \in Products,
               Confirms(g, r, q), q # p \/ orders[r].user # u
        PROVE  Confirms(g, r, q)'
    BY <1>2, <1>3, <1>4, <1>6 DEF Confirms, Confirming
  <1>7. ASSUME NEW r \in Orders, NEW q \in Products, orders[r].status = "PAID"
        PROVE  LET s == resv[q][orders[r].user].status
                   t == resv'[q][orders[r].user].status
               IN  /\ s = "CONFIRMED" => t = "CONFIRMED"
                   /\ s = "ACTIVE" =>
                        \/ t = "CONFIRMED"
                        \/ t = "ACTIVE" /\ \A g \in Requests :
                                             Confirms(g, r, q) => Confirms(g, r, q)'
    <2>1. orders[r].user \in Users
      BY <1>7 DEF IInv, TypeOK, Order, NoOrder
    <2>2. CASE q = p /\ orders[r].user = u
      BY <1>5, <2>2
    <2>3. CASE q # p \/ orders[r].user # u
      BY <1>5, <1>6, <2>1, <2>3
    <2> QED
      BY <2>2, <2>3
  <1> QED
    BY <1>1, <1>7, PaidOn

LEMMA CommitPaid ==
    ASSUME IInv, PaidIsSettled, NEW h \in Requests, CommitOrder(h)
    PROVE  PaidIsSettled'
  <1> DEFINE x == req[h]
             row == [status |-> "PENDING", version |-> 1, user |-> x.u, items |-> x.items,
                     paymentId |-> FALSE, key |-> x.key]
  <1>1. /\ x.op = "checkout" /\ resv' = resv
        /\ orders' = orders \/ orders' = [orders EXCEPT ![x.o] = row]
        /\ \E y : Step(h, y)
    BY DEF CommitOrder, catalogVars
  <1>2. \A o \in Orders : orders'[o].status = "PAID" => orders'[o] = orders[o]
    BY <1>1 DEF IInv, TypeOK
  <1>3. \A g \in Requests : g # h => req'[g] = req[g]
    BY <1>1, StepMoves DEF IInv
  <1>4. \A g \in Requests, o \in Orders, p \in Products : Confirms(g, o, p) => Confirms(g, o, p)'
    BY <1>1, <1>3 DEF Confirms, Confirming
  <1> QED
    BY <1>1, <1>2, <1>4, PaidOn

\* The UPDATE: an order that becomes PAID was PENDING, so that its units are held.
LEMMA UpdatedPaid ==
    ASSUME IInv, PendingInv, PaidIsSettled, Faults = {}, NEW h \in Requests,
           (UpdateCancelled(h) /\ orders' # orders) \/ UpdatePaid(h)
    PROVE  PaidIsSettled'
  <1> DEFINE o == req[h].o
             x == [req[h] EXCEPT !.pc = "stock", !.todo = InCart(orders[o].items)]
  <1>1. /\ req[h] \in UpdateReq /\ o \in Orders /\ req[h].op \in {"cancel", "paid"}
        /\ orders[o] \in Order /\ req[h].pc = "update" /\ resv' = resv
    BY ReqKinds DEF UpdateCancelled, UpdatePaid, IInv, TypeOK, UpdateReq, VersionsTell,
                    catalogVars
  <1>2. Step(h, x)
    BY DEF UpdateCancelled, UpdatePaid
  <1>3. /\ x.op = req[h].op /\ x.pc = "stock" /\ x.o = o /\ x.todo = InCart(orders[o].items)
    BY <1>1 DEF UpdateReq, InCart
  <1>4. \A g \in Requests : req'[g] = IF g = h THEN x ELSE req[g]
    BY <1>2, StepMoves DEF IInv
  <1>5. \/ orders' = orders
        \/ orders' = [orders EXCEPT ![o].status = "CANCELLED", ![o].version = @ + 1]
        \/ /\ orders' = [orders EXCEPT ![o].status = "PAID", ![o].paymentId = TRUE,
                                       ![o].version = @ + 1]
           /\ req[h].op = "paid" /\ VersionMatches(req[h])
    BY DEF UpdateCancelled, UpdatePaid
  <1> HIDE DEF x
  <1>6. ASSUME NEW g \in Requests, NEW r \in Orders, NEW p \in Products, Confirms(g, r, p)
        PROVE  Confirms(g, r, p)'
    BY <1>1, <1>4, <1>6 DEF Confirms, Confirming
  <1>7. CASE \/ orders' = orders
             \/ orders' = [orders EXCEPT ![o].status = "CANCELLED", ![o].version = @ + 1]
    <2>1. \A r \in Orders : orders'[r].status = "PAID" => orders'[r] = orders[r]
      BY <1>1, <1>7 DEF IInv, TypeOK, Order
    <2> QED
      BY <1>1, <1>6, <2>1, PaidOn
  <1>8. CASE /\ orders' = [orders EXCEPT ![o].status = "PAID", ![o].paymentId = TRUE,
                                         ![o].version = @ + 1]
             /\ req[h].op = "paid" /\ VersionMatches(req[h])
    <2>1. orders[o].status = "PENDING"
      BY <1>1, <1>8
         DEF VersionMatches, IInv, VersionsTell, Target, CanTransitionTo,
             Lifecycle!CanTransitionTo, Lifecycle!OrderStatus, Lifecycle!ValidTransitions
    <2>2. /\ \A r \in Orders : r # o => orders'[r] = orders[r]
          /\ orders'[o].user = orders[o].user /\ orders'[o].items = orders[o].items
      BY <1>1, <1>8 DEF IInv, TypeOK, Order
    <2>3. PICK k \in Orders : k = o
      BY <1>1
    <2> HIDE DEF o
    <2>4. ASSUME NEW p \in InCart(orders[k].items)
          PROVE  resv[p][orders[k].user].status = "ACTIVE" /\ Confirms(h, k, p)'
      <3>1. resv[p][orders[k].user] = [status |-> "ACTIVE", quantity |-> orders[k].items[p]]
        BY <2>1, <2>3 DEF PendingInv, PendingIsReserved
      <3>2. Confirms(h, k, p)'
        BY <1>1, <1>3, <1>4, <1>8, <2>3 DEF Confirms, Confirming
      <3> QED
        BY <3>1, <3>2
    <2> SUFFICES ASSUME NEW r \in Orders, orders'[r].status = "PAID",
                        NEW p \in InCart(orders'[r].items)
                 PROVE  \/ resv'[p][orders'[r].user].status = "CONFIRMED"
                        \/ /\ resv'[p][orders'[r].user].status = "ACTIVE"
                           /\ \E g \in Requests : Confirms(g, r, p)'
      BY DEF PaidIsSettled, InCart
    <2>5. p \in Products
      BY DEF InCart
    <2>6. CASE r = k
      BY <1>1, <2>2, <2>3, <2>4, <2>6
    <2>7. CASE r # k
      BY <1>1, <1>6, <2>2, <2>3, <2>5, <2>7 DEF PaidIsSettled
    <2> QED
      BY <2>6, <2>7
  <1> QED
    BY <1>5, <1>7, <1>8

LEMMA PaidStep ==
    ASSUME IInv, OneWinner, PendingInv, PaidIsSettled, Faults = {}, [Next]_vars
    PROVE  PaidIsSettled'
  <1>1. CASE UNCHANGED <<orders, resv, req>>
    BY <1>1 DEF PaidIsSettled, Confirms, Confirming
  <1>2. EditCart \/ (\E o \in Orders : PaymentFailed(o) \/ TimePasses(o))
          => UNCHANGED <<orders, resv, req>>
    BY DEF EditCart, UpdateCartItem, RemoveFromCart, ClearCart, PaymentFailed, TimePasses,
           catalogVars
  <1>3. ASSUME NEW h \in Requests, Work(h) \/ Accept(h) \/ Crash(h)
        PROVE  PaidIsSettled'
    <2>1. ~Crash(h)
      BY DEF Crash
    <2>2. \/ Accept(h) \/ UpsertCartItem(h) \/ AbortCheckout(h) \/ FinishCheckout(h)
          \/ FinishCancel(h) \/ FinishPaid(h)
          \/ UpdateCancelled(h) /\ UNCHANGED orders
          \/ UpdateCancelled(h) /\ orders' # orders
          \/ UpdatePaid(h)
          \/ CommitOrder(h)
          \/ \E p \in Products : ReserveItem(h, p) \/ CompensateItem(h, p)
                                 \/ ReleaseItem(h, p) \/ ConfirmItem(h, p)
      BY <1>3, <2>1 DEF Work
    <2> QED
      BY <2>2, IdlePaid, UpdatedPaid, CommitPaid, OpenPaid, ReleasePaid, ConfirmPaid
  <1> QED
    BY <1>1, <1>2, <1>3 DEF Next, vars

\* With no failure, and a user who checks out once, a payment sells the units of its
\* order: when the requests are done, every reservation of a PAID order is CONFIRMED.
THEOREM PaidSellsItsUnits ==
    ASSUME Faults = {}, OneOrderPerUser PROVE Spec => []PaidIsConfirmed
  <1>1. Init => PaidIsSettled
    BY DEF Init, PaidIsSettled, NoOrder
  <1>2. IInv /\ OneWinner /\ PendingInv /\ PaidIsSettled /\ [Next]_vars => PaidIsSettled'
    BY PaidStep
  <1>3. PaidIsSettled => PaidIsConfirmed
    BY DEF PaidIsSettled, PaidIsConfirmed, Quiescent, Confirms, Confirming, Idle
  <1> QED
    BY <1>1, <1>2, <1>3, PendingInvariance, PTL DEF Spec
=============================================================================
