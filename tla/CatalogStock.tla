---------------------------- MODULE CatalogStock ----------------------------
(***************************************************************************)
(* The inventory of catalog-service: product rows, stock reservations and   *)
(* the transactions of ProductService.java that read and write them.        *)
(*                                                                          *)
(* Every service method is a database transaction, modelled by two steps: a *)
(* Begin step that loads the rows the method reads, and a commit step that  *)
(* applies its UPDATEs.  The UPDATE of the product row takes the row lock,   *)
(* which is held to the commit, so a method's writes are one step.          *)
(*                                                                          *)
(* reserveStock runs at SERIALIZABLE: it reads one snapshot, and fails when *)
(* a row it writes was written by another transaction after that snapshot   *)
(* ("stale").  The other methods run at READ COMMITTED: the native UPDATEs  *)
(* see the current product row, while a JPA save writes back every column   *)
(* of the entity as it was loaded (the entities have no @DynamicUpdate).    *)
(***************************************************************************)
EXTENDS Integers, FiniteSetsExt

CONSTANTS
    Products,     \* product ids
    Carts,        \* cart ids, one per user
    Sessions,     \* database sessions of catalog-service
    MaxStock,     \* bound: the largest stock a seller enters
    MaxVersion,   \* bound: the number of JPA saves of one product row
    Edits,        \* seller operations in the environment, of EditOps
    EditStatuses, \* statuses a seller sets
    SingleFlight, \* TRUE: callers have one call per reservation in flight
    EditsAlone,   \* TRUE: no call about a product is in flight while it is edited
    ExpiryJob     \* TRUE: something calls the SQL function expire_reservations

EditOps == {"update", "delete", "adjust"}
ProductStatus == {"DRAFT", "ACTIVE", "INACTIVE", "ARCHIVED"}
ReservationStatus == {"ACTIVE", "CONFIRMED", "RELEASED", "EXPIRED"}

ASSUME CatalogAssumption ==
    /\ MaxStock \in Nat
    /\ MaxVersion \in Nat
    /\ IsFiniteSet(Carts)
    /\ Edits \subseteq EditOps
    /\ EditStatuses \subseteq ProductStatus
    /\ SingleFlight \in BOOLEAN
    /\ EditsAlone \in BOOLEAN
    /\ ExpiryJob \in BOOLEAN

VARIABLES
    product,  \* catalog.products, by id
    resv,     \* catalog.stock_reservations, by UNIQUE(product_id, cart_id)
    due,      \* the <<product, cart>> whose expires_at has passed
    txn       \* the transaction open in each session

vars == <<product, resv, due, txn>>

-----------------------------------------------------------------------------
(* Rows and transactions *)

Quantity == 1..MaxStock

Product == [stock: Nat, reservedStock: Nat, status: ProductStatus \cup {"NONE"},
            isActive: BOOLEAN, version: Nat]
StockReservation == [status: ReservationStatus \cup {"NONE"}, quantity: Nat]

NoProduct == [stock |-> 0, reservedStock |-> 0, status |-> "NONE",
              isActive |-> FALSE, version |-> 0]
NoReservation == [status |-> "NONE", quantity |-> 0]

Idle == [op |-> "idle"]

\* reserveStock keeps its snapshot of the product and of the cart's row.
ReserveTxn == [op: {"reserve"}, p: Products, c: Carts, quantity: Quantity,
               prod: Product, row: StockReservation, stale: BOOLEAN]
\* releaseStock and confirmStock keep the reservation entity they loaded.
FinishTxn == [op: {"release", "confirm"}, p: Products, c: Carts,
              row: StockReservation]
\* The seller operations keep the product entity they loaded.
EditTxn == [op: EditOps, p: Products, prod: {r \in Product : r.status # "NONE"}]

TypeOK ==
    /\ product \in [Products -> Product]
    /\ resv \in [Products -> [Carts -> StockReservation]]
    /\ due \subseteq Products \X Carts
    /\ txn \in [Sessions -> {Idle} \cup ReserveTxn \cup FinishTxn \cup EditTxn]

Init ==
    /\ product = [p \in Products |-> NoProduct]
    /\ resv = [p \in Products |-> [c \in Carts |-> NoReservation]]
    /\ due = {}
    /\ txn = [t \in Sessions |-> Idle]

-----------------------------------------------------------------------------
(* What the native UPDATEs and the CHECK constraints do to a product row *)

getAvailableStock(prod) ==
    IF prod.stock > prod.reservedStock THEN prod.stock - prod.reservedStock ELSE 0

\* Mutant: the schema without chk_stock_reserved.
BugRowChecks(prod) == 0 <= prod.reservedStock

\* chk_stock_reserved and the CHECKs of the two columns
RowChecks(prod) == 0 <= prod.reservedStock /\ prod.reservedStock <= prod.stock

\* UPDATE ... SET reserved_stock = reserved_stock + n WHERE stock - reserved_stock >= n
\* (n is negative when a reservation shrinks: the CHECK then bounds it)
AddReserved(prod, n) == [prod EXCEPT !.reservedStock = @ + n]
CanReserve(prod, n) ==
    /\ prod.stock - prod.reservedStock >= n
    /\ RowChecks(AddReserved(prod, n))

\* Mutant: the WHERE clause left out.
BugReleaseUnchecked(prod, n) == [prod EXCEPT !.reservedStock = @ - n]

\* UPDATE ... SET reserved_stock = reserved_stock - n WHERE reserved_stock >= n
releaseReservation(prod, n) ==
    IF prod.reservedStock >= n
    THEN [prod EXCEPT !.reservedStock = @ - n]
    ELSE prod

\* UPDATE ... SET stock = stock - n, reserved_stock = reserved_stock - n WHERE ...
CanDeduct(prod, n) == prod.stock >= n /\ prod.reservedStock >= n
Deduct(prod, n) == [prod EXCEPT !.stock = @ - n, !.reservedStock = @ - n]

-----------------------------------------------------------------------------
(* Sessions *)

Finishing(p, c) ==
    \E t \in Sessions :
        txn[t].op \in {"reserve", "release", "confirm"} /\ txn[t].p = p /\ txn[t].c = c

\* A transaction about p is open.
Open(p, ops) == \E t \in Sessions : txn[t].op \in ops /\ txn[t].p = p

\* Session t may start a call about the reservation of p in cart c.
MayCall(t, p, c) ==
    /\ txn[t].op = "idle"
    /\ SingleFlight => ~Finishing(p, c)
    /\ EditsAlone => ~Open(p, EditOps)

\* Mutant: reserveStock at READ COMMITTED, where no snapshot grows stale.
BugOutdated(u, ps, rs) == txn[u]

\* The transaction of session u after the products ps and the reservations rs were
\* written: a reserve transaction that read one of these rows is stale.
Outdated(u, ps, rs) ==
    IF /\ txn[u].op = "reserve"
       /\ txn[u].p \in ps \/ <<txn[u].p, txn[u].c>> \in rs
    THEN [txn[u] EXCEPT !.stale = TRUE]
    ELSE txn[u]

\* Session t ends, having written the products ps and the reservations rs.
EndTxn(t, ps, rs) ==
    txn' = [u \in Sessions |-> IF u = t THEN Idle ELSE Outdated(u, ps, rs)]

Rollback(t) ==
    /\ txn' = [txn EXCEPT ![t] = Idle]
    /\ UNCHANGED <<product, resv, due>>

-----------------------------------------------------------------------------
(* reserveStock *)

BeginReserve(t, p, c, n) ==
    /\ MayCall(t, p, c)
    /\ product[p].status # "NONE"
    /\ txn' = [txn EXCEPT ![t] =
                 [op |-> "reserve", p |-> p, c |-> c, quantity |-> n,
                  prod |-> product[p], row |-> resv[p][c], stale |-> FALSE]]
    /\ UNCHANGED <<product, resv, due>>

\* The checks reserveStock makes on its snapshot before any UPDATE.
Reservable(x) ==
    /\ x.prod.status = "ACTIVE"
    /\ x.prod.isActive
    /\ getAvailableStock(x.prod) >= x.quantity

\* Mutant: the new quantity is added where the difference should be.
BugResize(t, x, delta) ==
    /\ product' = [product EXCEPT ![x.p] = AddReserved(@, x.quantity)]
    /\ resv' = [resv EXCEPT ![x.p][x.c] = [x.row EXCEPT !.quantity = x.quantity]]
    /\ due' = due \ {<<x.p, x.c>>}
    /\ EndTxn(t, {x.p}, {<<x.p, x.c>>})

\* The cart holds an ACTIVE reservation: move it to the new quantity.
Resize(t, x, delta) ==
    /\ product' = [product EXCEPT ![x.p] = AddReserved(@, delta)]
    /\ resv' = [resv EXCEPT ![x.p][x.c] = [x.row EXCEPT !.quantity = x.quantity]]
    /\ due' = due \ {<<x.p, x.c>>}
    /\ EndTxn(t, {x.p}, {<<x.p, x.c>>})

\* No row for the pair yet: reserve and insert one.
Insert(t, x) ==
    /\ product' = [product EXCEPT ![x.p] = AddReserved(@, x.quantity)]
    /\ resv' = [resv EXCEPT ![x.p][x.c] = [status |-> "ACTIVE", quantity |-> x.quantity]]
    /\ due' = due \ {<<x.p, x.c>>}
    /\ EndTxn(t, {x.p}, {<<x.p, x.c>>})

\* A stale transaction fails at its first UPDATE; a row of the pair that is not
\* ACTIVE makes the INSERT violate UNIQUE(product_id, cart_id).
reserveStock(t) ==
    /\ txn[t].op = "reserve"
    /\ LET x == txn[t]
           delta == x.quantity - x.row.quantity
       IN  \/ /\ Reservable(x)
              /\ x.row.status = "ACTIVE" /\ delta # 0
              /\ ~x.stale /\ CanReserve(product[x.p], delta)
              /\ Resize(t, x, delta)
           \/ /\ Reservable(x)
              /\ x.row.status = "NONE"
              /\ ~x.stale /\ CanReserve(product[x.p], x.quantity)
              /\ Insert(t, x)
           \/ /\ \/ ~Reservable(x)
                 \/ x.row.status = "ACTIVE" /\ delta = 0
                 \/ x.row.status \notin {"ACTIVE", "NONE"}
                 \/ x.stale
                 \/ x.row.status = "ACTIVE" /\ ~CanReserve(product[x.p], delta)
              /\ Rollback(t)

-----------------------------------------------------------------------------
(* releaseStock and confirmStock *)

BeginFinish(t, p, c, op) ==
    /\ MayCall(t, p, c)
    /\ resv[p][c].status # "NONE"
    /\ txn' = [txn EXCEPT ![t] = [op |-> op, p |-> p, c |-> c, row |-> resv[p][c]]]
    /\ UNCHANGED <<product, resv, due>>

\* Mutants: a reservation that is not ACTIVE is released, or confirmed, again.
BugReleaseStock(t) ==
    /\ txn[t].op = "release"
    /\ LET x == txn[t]
       IN  /\ product' = [product EXCEPT ![x.p] = releaseReservation(@, x.row.quantity)]
           /\ resv' = [resv EXCEPT ![x.p][x.c] = [x.row EXCEPT !.status = "RELEASED"]]
           /\ EndTxn(t, {x.p}, {<<x.p, x.c>>})
           /\ UNCHANGED due

BugConfirmStock(t) ==
    /\ txn[t].op = "confirm"
    /\ LET x == txn[t]
       IN  \/ /\ ~CanDeduct(product[x.p], x.row.quantity)
              /\ Rollback(t)
           \/ /\ CanDeduct(product[x.p], x.row.quantity)
              /\ product' = [product EXCEPT ![x.p] = Deduct(@, x.row.quantity)]
              /\ resv' = [resv EXCEPT ![x.p][x.c] = [x.row EXCEPT !.status = "CONFIRMED"]]
              /\ EndTxn(t, {x.p}, {<<x.p, x.c>>})
              /\ UNCHANGED due

releaseStock(t) ==
    /\ txn[t].op = "release"
    /\ LET x == txn[t]
           prod == releaseReservation(product[x.p], x.row.quantity)
       IN  \/ /\ x.row.status # "ACTIVE"
              /\ Rollback(t)
           \/ /\ x.row.status = "ACTIVE"
              /\ product' = [product EXCEPT ![x.p] = prod]
              /\ resv' = [resv EXCEPT ![x.p][x.c] = [x.row EXCEPT !.status = "RELEASED"]]
              /\ EndTxn(t, {p \in {x.p} : prod # product[p]}, {<<x.p, x.c>>})
              /\ UNCHANGED due

confirmStock(t) ==
    /\ txn[t].op = "confirm"
    /\ LET x == txn[t]
       IN  \/ /\ x.row.status # "ACTIVE" \/ ~CanDeduct(product[x.p], x.row.quantity)
              /\ Rollback(t)
           \/ /\ x.row.status = "ACTIVE" /\ CanDeduct(product[x.p], x.row.quantity)
              /\ product' = [product EXCEPT ![x.p] = Deduct(@, x.row.quantity)]
              /\ resv' = [resv EXCEPT ![x.p][x.c] = [x.row EXCEPT !.status = "CONFIRMED"]]
              /\ EndTxn(t, {x.p}, {<<x.p, x.c>>})
              /\ UNCHANGED due

-----------------------------------------------------------------------------
(* Seller operations *)

createProduct(p, n, s) ==
    /\ product[p].status = "NONE"
    /\ product' = [product EXCEPT ![p] = [stock |-> n, reservedStock |-> 0,
                                          status |-> s, isActive |-> TRUE, version |-> 0]]
    /\ UNCHANGED <<resv, due, txn>>

BeginEdit(t, p, op) ==
    /\ txn[t].op = "idle"
    /\ product[p].status # "NONE" /\ product[p].version < MaxVersion
    /\ EditsAlone => ~Open(p, {"reserve", "release", "confirm"} \cup EditOps)
    /\ txn' = [txn EXCEPT ![t] = [op |-> op, p |-> p, prod |-> product[p]]]
    /\ UNCHANGED <<product, resv, due>>

\* productRepo.save at commit: nothing when the entity is not dirty, an optimistic
\* lock exception when version moved, a CHECK violation, or a write of all columns.
SaveProduct(t, edited) ==
    LET x == txn[t]
    IN  \/ /\ \/ edited = x.prod
              \/ product[x.p].version # x.prod.version
              \/ ~RowChecks(edited)
           /\ Rollback(t)
        \/ /\ edited # x.prod
           /\ product[x.p].version = x.prod.version
           /\ RowChecks(edited)
           /\ product' = [product EXCEPT ![x.p] = [edited EXCEPT !.version = @ + 1]]
           /\ EndTxn(t, {x.p}, {})
           /\ UNCHANGED <<resv, due>>

updateProduct(t, n, s) ==
    /\ txn[t].op = "update"
    /\ SaveProduct(t, [txn[t].prod EXCEPT !.stock = n, !.status = s])

deleteProduct(t) ==
    /\ txn[t].op = "delete"
    /\ SaveProduct(t, [txn[t].prod EXCEPT !.isActive = FALSE, !.status = "ARCHIVED"])

adjustStock(t, n) ==
    /\ txn[t].op = "adjust"
    /\ SaveProduct(t, [txn[t].prod EXCEPT !.stock = n])

-----------------------------------------------------------------------------
(* Expiry *)

\* The 15 minutes of an ACTIVE reservation pass.
TimePasses(p, c) ==
    /\ ExpiryJob
    /\ resv[p][c].status = "ACTIVE" /\ <<p, c>> \notin due
    /\ due' = due \cup {<<p, c>>}
    /\ UNCHANGED <<product, resv, txn>>

QuantityIn(rows, p, status) ==
    MapThenSumSet(LAMBDA c : rows[p][c].quantity,
                  {c \in Carts : rows[p][c].status = status})

\* The SQL function: mark the due rows, then subtract from each product the
\* quantity of all its EXPIRED rows.  A CHECK violation aborts the whole call.
expire_reservations ==
    /\ ExpiryJob
    /\ LET rows == [p \in Products |-> [c \in Carts |->
                      IF resv[p][c].status = "ACTIVE" /\ <<p, c>> \in due
                      THEN [resv[p][c] EXCEPT !.status = "EXPIRED"]
                      ELSE resv[p][c]]]
           left(p) == product[p].reservedStock - QuantityIn(rows, p, "EXPIRED")
       IN  /\ \A p \in Products : left(p) \in 0..product[p].stock
           /\ resv' = rows
           /\ product' = [p \in Products |-> [product[p] EXCEPT !.reservedStock = left(p)]]
           /\ txn' = [u \in Sessions |->
                        Outdated(u, {p \in Products : left(p) # product[p].reservedStock},
                                 {r \in due : rows[r[1]][r[2]] # resv[r[1]][r[2]]})]
           /\ UNCHANGED due

-----------------------------------------------------------------------------

ReservationCalls(t) ==
    \/ \E p \in Products, c \in Carts :
        \/ \E n \in Quantity : BeginReserve(t, p, c, n)
        \/ BeginFinish(t, p, c, "release")
        \/ BeginFinish(t, p, c, "confirm")
    \/ reserveStock(t)
    \/ releaseStock(t)
    \/ confirmStock(t)

SellerCalls(t) ==
    \/ \E p \in Products, op \in Edits : BeginEdit(t, p, op)
    \/ \E n \in 0..MaxStock, s \in EditStatuses : updateProduct(t, n, s)
    \/ deleteProduct(t)
    \/ \E n \in 0..MaxStock : adjustStock(t, n)

Next ==
    \/ \E t \in Sessions : ReservationCalls(t) \/ SellerCalls(t)
    \/ \E p \in Products, n \in 0..MaxStock, s \in EditStatuses : createProduct(p, n, s)
    \/ \E p \in Products, c \in Carts : TimePasses(p, c)
    \/ expire_reservations

Spec == Init /\ [][Next]_vars

-----------------------------------------------------------------------------
(* Properties *)

\* reserved_stock counts exactly the units of the ACTIVE reservations: the
\* counter updated by ProductRepository and the rows written by ProductService
\* never drift apart.
ReservedIsSumOfActive ==
    \A p \in Products : product[p].reservedStock = QuantityIn(resv, p, "ACTIVE")

\* No double booking: the units promised to carts exist, so that every ACTIVE
\* reservation can still be confirmed.
NoDoubleBooking ==
    \A p \in Products : QuantityIn(resv, p, "ACTIVE") <= product[p].stock

\* A reservation that was released, confirmed or expired never becomes ACTIVE
\* again: no late write of reserveStock, which stores the whole row as it read
\* it, brings back units that were already returned or sold.
FinishedStaysFinished ==
    [][\A p \in Products, c \in Carts :
         resv[p][c].status \in ReservationStatus \ {"ACTIVE"}
           => resv'[p][c].status # "ACTIVE"]_vars

\* Units leave the stock by a seller's count, or by the confirmation of a
\* reservation: once, and in the quantity reserved. The sale is final: the
\* reservation stays CONFIRMED, whatever call comes late.
SoldIsConfirmed ==
    [][\A p \in Products :
         /\ product'[p].stock < product[p].stock
              => \/ Open(p, EditOps)
                 \/ \E c \in Carts :
                      /\ resv[p][c].status = "ACTIVE" /\ resv'[p][c].status = "CONFIRMED"
                      /\ product[p].stock - product'[p].stock = resv[p][c].quantity
         /\ \A c \in Carts : resv[p][c].status = "CONFIRMED" => resv'[p][c] = resv[p][c]]_vars

\* Units return to sale once: reserved_stock only falls when an ACTIVE reservation
\* shrinks or ends, so a second releaseStock of a reservation, which the code
\* takes for "Already released/expired", gives nothing back.
ReturnedOnce ==
    [][\A p \in Products :
         product'[p].reservedStock < product[p].reservedStock
           => \E c \in Carts :
                /\ resv[p][c].status = "ACTIVE"
                /\ \/ resv'[p][c].status # "ACTIVE"
                   \/ resv'[p][c].quantity < resv[p][c].quantity]_vars

\* The two services' view: what a cart holds is its ACTIVE reservation.
Ledger == INSTANCE StockLedger WITH
    stock <- [p \in Products |-> product[p].stock],
    held <- [p \in Products |-> [c \in Carts |->
               IF resv[p][c].status = "ACTIVE" THEN resv[p][c].quantity ELSE 0]]

\* CatalogStock implements the ledger of units held and sold.
ImplementsLedger == Ledger!Spec
=============================================================================
