------------------------- MODULE CatalogStockProofs -------------------------
(***************************************************************************)
(* Theorems about CatalogStock, for any number of products, carts and       *)
(* sessions: first with every call, race and job of the model switched on,   *)
(* then what holds of the reserved units while calls do not overlap.         *)
(***************************************************************************)
EXTENDS CatalogStock, SetSums, TLAPS

\* What SERIALIZABLE gives reserveStock: as long as no row it will write was
\* written since its snapshot, the snapshot is the current state of the rows.
SnapshotIsCurrent ==
    \A t \in Sessions :
        txn[t].op = "reserve" =>
            /\ product[txn[t].p].status # "NONE"
            /\ ~txn[t].stale =>
                 /\ txn[t].prod = product[txn[t].p]
                 /\ txn[t].row = resv[txn[t].p][txn[t].c]

IInv == TypeOK /\ SnapshotIsCurrent

-----------------------------------------------------------------------------
(* The kinds of open transactions *)

LEMMA TxnKinds ==
    ASSUME TypeOK, NEW t \in Sessions
    PROVE  /\ txn[t].op = "reserve" => txn[t] \in ReserveTxn
           /\ txn[t].op \in {"release", "confirm"} => txn[t] \in FinishTxn
           /\ txn[t].op \in EditOps => txn[t] \in EditTxn
  BY DEF TypeOK, Idle, ReserveTxn, FinishTxn, EditTxn, EditOps

LEMMA OutdatedType ==
    ASSUME TypeOK, NEW u \in Sessions, NEW ps \in SUBSET Products, NEW rs \in SUBSET (Products \X Carts)
    PROVE  /\ Outdated(u, ps, rs) \in {Idle} \cup ReserveTxn \cup FinishTxn \cup EditTxn
           /\ Outdated(u, ps, rs).op = txn[u].op
  <1>1. CASE txn[u].op = "reserve"
    <2>1. txn[u] \in ReserveTxn
      BY <1>1, TxnKinds
    <2>2. [txn[u] EXCEPT !.stale = TRUE] \in ReserveTxn
      BY <2>1 DEF ReserveTxn
    <2> QED
      BY <2>1, <2>2 DEF Outdated, ReserveTxn
  <1>2. CASE txn[u].op # "reserve"
    BY <1>2 DEF Outdated, TypeOK
  <1> QED
    BY <1>1, <1>2

\* A write that tells the open transactions of every row it changes keeps the
\* snapshots that are not stale current.
LEMMA OutdatedSnapshot ==
    ASSUME IInv, NEW u \in Sessions, NEW ps \in SUBSET Products, NEW rs \in SUBSET (Products \X Carts),
           txn'[u] = Outdated(u, ps, rs),
           \A q \in Products : product[q].status # "NONE" => product'[q].status # "NONE",
           \A q \in Products : q \in ps \/ product'[q] = product[q],
           \A q \in Products, c \in Carts : <<q, c>> \in rs \/ resv'[q][c] = resv[q][c],
           txn'[u].op = "reserve"
    PROVE  /\ product'[txn'[u].p].status # "NONE"
           /\ ~txn'[u].stale =>
                /\ txn'[u].prod = product'[txn'[u].p]
                /\ txn'[u].row = resv'[txn'[u].p][txn'[u].c]
  <1>1. txn[u].op = "reserve"
    BY OutdatedType DEF IInv
  <1>2. txn[u] \in ReserveTxn
    BY <1>1, TxnKinds DEF IInv
  <1>3. CASE txn[u].p \in ps \/ <<txn[u].p, txn[u].c>> \in rs
    <2>1. txn'[u] = [txn[u] EXCEPT !.stale = TRUE]
      BY <1>1, <1>3 DEF Outdated
    <2> QED
      BY <1>1, <1>2, <2>1 DEF ReserveTxn, IInv, SnapshotIsCurrent
  <1>4. CASE ~(txn[u].p \in ps \/ <<txn[u].p, txn[u].c>> \in rs)
    <2>1. txn'[u] = txn[u]
      BY <1>1, <1>4 DEF Outdated
    <2> QED
      BY <1>1, <1>2, <1>4, <2>1 DEF ReserveTxn, IInv, SnapshotIsCurrent
  <1> QED
    BY <1>3, <1>4

-----------------------------------------------------------------------------
(* One lemma per call: the invariant is preserved *)

LEMMA InitIInv == Init => IInv
  BY CatalogAssumption DEF Init, IInv, TypeOK, SnapshotIsCurrent, Product,
     StockReservation, NoProduct, NoReservation, Idle

\* A call that fails, or finds nothing to do, writes nothing.
LEMMA RollbackStep ==
    ASSUME IInv, NEW t \in Sessions, Rollback(t)
    PROVE  IInv'
  <1>1. TypeOK'
    BY DEF IInv, TypeOK, Rollback
  <1>2. ASSUME NEW u \in Sessions, (txn[u].op = "reserve")'
        PROVE  u # t /\ txn'[u] = txn[u]
    BY <1>2 DEF IInv, TypeOK, Rollback, Idle
  <1>3. SnapshotIsCurrent'
    BY <1>2 DEF IInv, SnapshotIsCurrent, Rollback
  <1> QED
    BY <1>1, <1>3 DEF IInv

\* Opening a transaction adds one record to txn; the rows stay as they are.
LEMMA BeginStep ==
    ASSUME IInv, NEW t \in Sessions, NEW x \in ReserveTxn \cup FinishTxn \cup EditTxn,
           txn' = [txn EXCEPT ![t] = x],
           UNCHANGED <<product, resv, due>>,
           x.op = "reserve" => /\ product[x.p].status # "NONE"
                               /\ x.prod = product[x.p] /\ x.row = resv[x.p][x.c]
    PROVE  IInv'
  <1>1. TypeOK'
    BY DEF IInv, TypeOK
  <1>2. ASSUME NEW u \in Sessions
        PROVE  txn'[u] = IF u = t THEN x ELSE txn[u]
    BY DEF IInv, TypeOK
  <1>3. SnapshotIsCurrent'
    BY <1>2 DEF IInv, SnapshotIsCurrent
  <1> QED
    BY <1>1, <1>3 DEF IInv

LEMMA BeginReserveStep ==
    ASSUME IInv, NEW t \in Sessions, NEW p \in Products, NEW c \in Carts,
           NEW n \in Quantity, BeginReserve(t, p, c, n)
    PROVE  IInv'
  <1> DEFINE x == [op |-> "reserve", p |-> p, c |-> c, quantity |-> n,
                   prod |-> product[p], row |-> resv[p][c], stale |-> FALSE]
  <1>1. x \in ReserveTxn
    BY DEF IInv, TypeOK, ReserveTxn
  <1>2. txn' = [txn EXCEPT ![t] = x] /\ UNCHANGED <<product, resv, due>>
    BY DEF BeginReserve
  <1>3. /\ product[x.p].status # "NONE"
        /\ x.prod = product[x.p] /\ x.row = resv[x.p][x.c]
    BY DEF BeginReserve
  <1> HIDE DEF x
  <1> QED
    BY <1>1, <1>2, <1>3, BeginStep

LEMMA BeginFinishStep ==
    ASSUME IInv, NEW t \in Sessions, NEW p \in Products, NEW c \in Carts,
           NEW op \in {"release", "confirm"}, BeginFinish(t, p, c, op)
    PROVE  IInv'
  <1> DEFINE x == [op |-> op, p |-> p, c |-> c, row |-> resv[p][c]]
  <1>1. x \in FinishTxn /\ x.op # "reserve"
    BY DEF IInv, TypeOK, FinishTxn
  <1>2. txn' = [txn EXCEPT ![t] = x] /\ UNCHANGED <<product, resv, due>>
    BY DEF BeginFinish
  <1> HIDE DEF x
  <1> QED
    BY <1>1, <1>2, BeginStep

LEMMA BeginEditStep ==
    ASSUME IInv, NEW t \in Sessions, NEW p \in Products, NEW op \in Edits,
           BeginEdit(t, p, op)
    PROVE  IInv'
  <1> DEFINE x == [op |-> op, p |-> p, prod |-> product[p]]
  <1>1. x \in EditTxn /\ x.op # "reserve"
    BY CatalogAssumption DEF BeginEdit, IInv, TypeOK, EditTxn, EditOps
  <1>2. txn' = [txn EXCEPT ![t] = x] /\ UNCHANGED <<product, resv, due>>
    BY DEF BeginEdit
  <1> HIDE DEF x
  <1> QED
    BY <1>1, <1>2, BeginStep

\* The writes of the products ps and the reservations rs, told to every session.
LEMMA WriteStep ==
    ASSUME IInv, NEW ps \in SUBSET Products, NEW rs \in SUBSET (Products \X Carts),
           product' \in [Products -> Product],
           resv' \in [Products -> [Carts -> StockReservation]],
           due' \subseteq due,
           \A q \in Products : product[q].status # "NONE" => product'[q].status # "NONE",
           \A q \in Products : q \in ps \/ product'[q] = product[q],
           \A q \in Products, c \in Carts : <<q, c>> \in rs \/ resv'[q][c] = resv[q][c],
           txn' \in [Sessions -> {Idle} \cup ReserveTxn \cup FinishTxn \cup EditTxn],
           \A u \in Sessions : txn'[u] = Idle \/ txn'[u] = Outdated(u, ps, rs)
    PROVE  IInv'
  <1>1. TypeOK'
    BY DEF IInv, TypeOK
  <1>2. ASSUME NEW u \in Sessions, txn'[u].op = "reserve"
        PROVE  /\ product'[txn'[u].p].status # "NONE"
               /\ ~txn'[u].stale =>
                    /\ txn'[u].prod = product'[txn'[u].p]
                    /\ txn'[u].row = resv'[txn'[u].p][txn'[u].c]
    <2>1. txn'[u] = Outdated(u, ps, rs)
      BY <1>2 DEF Idle
    <2> QED
      BY <1>2, <2>1, OutdatedSnapshot
  <1> QED
    BY <1>1, <1>2 DEF IInv, SnapshotIsCurrent

\* A call that ends with these writes.
LEMMA CallStep ==
    ASSUME IInv, NEW t \in Sessions,
           NEW ps \in SUBSET Products, NEW rs \in SUBSET (Products \X Carts),
           product' \in [Products -> Product],
           resv' \in [Products -> [Carts -> StockReservation]],
           due' \subseteq due,
           \A q \in Products : product[q].status # "NONE" => product'[q].status # "NONE",
           \A q \in Products : q \in ps \/ product'[q] = product[q],
           \A q \in Products, c \in Carts : <<q, c>> \in rs \/ resv'[q][c] = resv[q][c],
           EndTxn(t, ps, rs)
    PROVE  IInv'
  <1>1. /\ txn' \in [Sessions -> {Idle} \cup ReserveTxn \cup FinishTxn \cup EditTxn]
        /\ \A u \in Sessions : txn'[u] = Idle \/ txn'[u] = Outdated(u, ps, rs)
    BY OutdatedType DEF EndTxn, IInv
  <1> QED
    BY <1>1, WriteStep

\* The writes of reserveStock.  Its snapshot is current, so what it stores is
\* typed and the row it replaces is the one it read.
LEMMA ResizeStep ==
    ASSUME IInv, NEW t \in Sessions, txn[t].op = "reserve", ~txn[t].stale,
           txn[t].row.status = "ACTIVE",
           CanReserve(product[txn[t].p], txn[t].quantity - txn[t].row.quantity),
           Resize(t, txn[t], txn[t].quantity - txn[t].row.quantity)
    PROVE  IInv'
  <1> DEFINE x == txn[t]
             prod == AddReserved(product[x.p], x.quantity - x.row.quantity)
             row == [x.row EXCEPT !.quantity = x.quantity]
             rs == {<<x.p, x.c>>}
             ps == {x.p}
  <1>1. x \in ReserveTxn /\ x.p \in Products
    BY TxnKinds DEF IInv, ReserveTxn
  <1>2. product[x.p] \in Product /\ x.prod = product[x.p]
    BY <1>1 DEF IInv, TypeOK, SnapshotIsCurrent, ReserveTxn
  <1>3. prod \in Product /\ prod.status = product[x.p].status
    BY <1>1, <1>2, CatalogAssumption
       DEF CanReserve, RowChecks, AddReserved, Product, ReserveTxn, Quantity, StockReservation
  <1>4. row \in StockReservation
    BY <1>1, CatalogAssumption
       DEF ReserveTxn, StockReservation, ReservationStatus, Quantity
  <1>5. /\ product' = [product EXCEPT ![x.p] = prod]
        /\ resv' = [resv EXCEPT ![x.p][x.c] = row]
        /\ due' \subseteq due
        /\ EndTxn(t, ps, rs)
    BY <1>1 DEF Resize, IInv, TypeOK
  <1>6. /\ product' \in [Products -> Product]
        /\ \A q \in Products : product[q].status # "NONE" => product'[q].status # "NONE"
        /\ \A q \in Products : q \in ps \/ product'[q] = product[q]
    BY <1>1, <1>3, <1>5 DEF IInv, TypeOK
  <1>7. /\ resv' \in [Products -> [Carts -> StockReservation]]
        /\ \A q \in Products, c \in Carts : <<q, c>> \in rs \/ resv'[q][c] = resv[q][c]
    BY <1>1, <1>4, <1>5 DEF IInv, TypeOK, ReserveTxn
  <1>8. ps \in SUBSET Products /\ rs \in SUBSET (Products \X Carts)
    BY <1>1 DEF ReserveTxn
  <1> HIDE DEF x, prod, row, ps, rs
  <1> QED
    BY <1>5, <1>6, <1>7, <1>8, CallStep

LEMMA InsertStep ==
    ASSUME IInv, NEW t \in Sessions, txn[t].op = "reserve", ~txn[t].stale,
           CanReserve(product[txn[t].p], txn[t].quantity),
           Insert(t, txn[t])
    PROVE  IInv'
  <1> DEFINE x == txn[t]
             prod == AddReserved(product[x.p], x.quantity)
             row == [status |-> "ACTIVE", quantity |-> x.quantity]
             rs == {<<x.p, x.c>>}
             ps == {x.p}
  <1>1. x \in ReserveTxn /\ x.p \in Products
    BY TxnKinds DEF IInv, ReserveTxn
  <1>2. product[x.p] \in Product /\ x.prod = product[x.p]
    BY <1>1 DEF IInv, TypeOK, SnapshotIsCurrent, ReserveTxn
  <1>3. prod \in Product /\ prod.status = product[x.p].status
    BY <1>1, <1>2, CatalogAssumption
       DEF CanReserve, RowChecks, AddReserved, Product, ReserveTxn, Quantity, StockReservation
  <1>4. row \in StockReservation
    BY <1>1, CatalogAssumption
       DEF ReserveTxn, StockReservation, ReservationStatus, Quantity
  <1>5. /\ product' = [product EXCEPT ![x.p] = prod]
        /\ resv' = [resv EXCEPT ![x.p][x.c] = row]
        /\ due' \subseteq due
        /\ EndTxn(t, ps, rs)
    BY <1>1 DEF Insert, IInv, TypeOK
  <1>6. /\ product' \in [Products -> Product]
        /\ \A q \in Products : product[q].status # "NONE" => product'[q].status # "NONE"
        /\ \A q \in Products : q \in ps \/ product'[q] = product[q]
    BY <1>1, <1>3, <1>5 DEF IInv, TypeOK
  <1>7. /\ resv' \in [Products -> [Carts -> StockReservation]]
        /\ \A q \in Products, c \in Carts : <<q, c>> \in rs \/ resv'[q][c] = resv[q][c]
    BY <1>1, <1>4, <1>5 DEF IInv, TypeOK, ReserveTxn
  <1>8. ps \in SUBSET Products /\ rs \in SUBSET (Products \X Carts)
    BY <1>1 DEF ReserveTxn
  <1> HIDE DEF x, prod, row, ps, rs
  <1> QED
    BY <1>5, <1>6, <1>7, <1>8, CallStep

LEMMA ReserveStep ==
    ASSUME IInv, NEW t \in Sessions, reserveStock(t)
    PROVE  IInv'
  BY ResizeStep, InsertStep, RollbackStep DEF reserveStock

LEMMA ReleaseStep ==
    ASSUME IInv, NEW t \in Sessions, releaseStock(t)
    PROVE  IInv'
  <1> DEFINE x == txn[t]
             prod == releaseReservation(product[x.p], x.row.quantity)
             row == [x.row EXCEPT !.status = "RELEASED"]
             rs == {<<x.p, x.c>>}
             ps == {p \in {x.p} : prod # product[p]}
  <1>1. /\ x \in FinishTxn /\ x.p \in Products /\ x.row.quantity \in Nat
        /\ product[x.p] \in Product
    BY TxnKinds DEF releaseStock, IInv, TypeOK, FinishTxn, StockReservation
  <1>2. CASE x.row.status # "ACTIVE"
    BY <1>2, RollbackStep DEF releaseStock
  <1>3. CASE x.row.status = "ACTIVE"
    <2>1. prod \in Product /\ prod.status = product[x.p].status
      BY <1>1, <1>3 DEF releaseReservation, Product
    <2>2. row \in StockReservation
      BY <1>1 DEF FinishTxn, StockReservation, ReservationStatus
    <2>3. /\ product' = [product EXCEPT ![x.p] = prod]
          /\ resv' = [resv EXCEPT ![x.p][x.c] = row]
          /\ due' \subseteq due
          /\ EndTxn(t, ps, rs)
      BY <1>1, <1>3 DEF releaseStock, IInv, TypeOK
    <2>5. /\ resv' \in [Products -> [Carts -> StockReservation]]
          /\ \A q \in Products, c \in Carts : <<q, c>> \in rs \/ resv'[q][c] = resv[q][c]
      BY <1>1, <2>2, <2>3 DEF IInv, TypeOK, FinishTxn
    <2>4. /\ product' \in [Products -> Product]
          /\ \A q \in Products : product[q].status # "NONE" => product'[q].status # "NONE"
          /\ \A q \in Products : q \in ps \/ product'[q] = product[q]
      BY <1>1, <2>1, <2>3 DEF IInv, TypeOK
    <2>6. ps \in SUBSET Products /\ rs \in SUBSET (Products \X Carts)
      BY <1>1 DEF FinishTxn
    <2> HIDE DEF x, prod, row, ps, rs
    <2> QED
      BY <2>3, <2>4, <2>5, <2>6, CallStep
  <1> QED
    BY <1>2, <1>3

LEMMA ConfirmStep ==
    ASSUME IInv, NEW t \in Sessions, confirmStock(t)
    PROVE  IInv'
  <1> DEFINE x == txn[t]
             prod == Deduct(product[x.p], x.row.quantity)
             row == [x.row EXCEPT !.status = "CONFIRMED"]
             rs == {<<x.p, x.c>>}
             ps == {x.p}
  <1>1. /\ x \in FinishTxn /\ x.p \in Products /\ x.row.quantity \in Nat
        /\ product[x.p] \in Product
    BY TxnKinds DEF confirmStock, IInv, TypeOK, FinishTxn, StockReservation
  <1>2. CASE x.row.status # "ACTIVE" \/ ~CanDeduct(product[x.p], x.row.quantity)
    BY <1>2, RollbackStep DEF confirmStock
  <1>3. CASE x.row.status = "ACTIVE" /\ CanDeduct(product[x.p], x.row.quantity)
    <2>1. prod \in Product /\ prod.status = product[x.p].status
      <3> DEFINE r == product[x.p]
                 n == x.row.quantity
      <3>1. r.stock - n \in Nat /\ r.reservedStock - n \in Nat
        BY <1>1, <1>3 DEF CanDeduct, Product
      <3> QED
        BY <1>1, <3>1 DEF Deduct, Product
    <2>2. row \in StockReservation
      BY <1>1 DEF FinishTxn, StockReservation, ReservationStatus
    <2>3. /\ product' = [product EXCEPT ![x.p] = prod]
          /\ resv' = [resv EXCEPT ![x.p][x.c] = row]
          /\ due' \subseteq due
          /\ EndTxn(t, ps, rs)
      BY <1>1, <1>3 DEF confirmStock, IInv, TypeOK
    <2>5. /\ resv' \in [Products -> [Carts -> StockReservation]]
          /\ \A q \in Products, c \in Carts : <<q, c>> \in rs \/ resv'[q][c] = resv[q][c]
      BY <1>1, <2>2, <2>3 DEF IInv, TypeOK, FinishTxn
    <2>4. /\ product' \in [Products -> Product]
          /\ \A q \in Products : product[q].status # "NONE" => product'[q].status # "NONE"
          /\ \A q \in Products : q \in ps \/ product'[q] = product[q]
      BY <1>1, <2>1, <2>3 DEF IInv, TypeOK
    <2>6. ps \in SUBSET Products /\ rs \in SUBSET (Products \X Carts)
      BY <1>1 DEF FinishTxn
    <2> HIDE DEF x, prod, row, ps, rs
    <2> QED
      BY <2>3, <2>4, <2>5, <2>6, CallStep
  <1> QED
    BY <1>2, <1>3

\* The seller operations: a JPA save of the entity, with every column.
LEMMA SaveStep ==
    ASSUME IInv, NEW t \in Sessions, txn[t].op \in EditOps,
           NEW edited \in Product, edited.status # "NONE", SaveProduct(t, edited)
    PROVE  IInv'
  <1> DEFINE x == txn[t]
             prod == [edited EXCEPT !.version = @ + 1]
             ps == {x.p}
             rs == {}
  <1>1. x \in EditTxn /\ x.p \in Products
    BY TxnKinds DEF IInv, EditTxn
  <1>2. CASE Rollback(t)
    BY <1>2, RollbackStep
  <1>3. CASE ~Rollback(t)
    <2>1. prod \in Product /\ prod.status # "NONE"
      BY DEF Product
    <2>2. /\ product' = [product EXCEPT ![x.p] = prod]
          /\ UNCHANGED <<resv, due>>
          /\ EndTxn(t, ps, rs)
      BY <1>3 DEF SaveProduct
    <2>3. /\ product' \in [Products -> Product]
          /\ \A q \in Products : product[q].status # "NONE" => product'[q].status # "NONE"
          /\ \A q \in Products : q \in ps \/ product'[q] = product[q]
      BY <1>1, <2>1, <2>2 DEF IInv, TypeOK
    <2>4. /\ resv' \in [Products -> [Carts -> StockReservation]]
          /\ \A q \in Products, c \in Carts : <<q, c>> \in rs \/ resv'[q][c] = resv[q][c]
          /\ due' \subseteq due
      BY <2>2 DEF IInv, TypeOK
    <2>5. ps \in SUBSET Products /\ rs \in SUBSET (Products \X Carts)
      BY <1>1
    <2> HIDE DEF x, prod, ps, rs
    <2> QED
      BY <2>2, <2>3, <2>4, <2>5, CallStep
  <1> QED
    BY <1>2, <1>3

LEMMA SellerStep ==
    ASSUME IInv, NEW t \in Sessions, SellerCalls(t)
    PROVE  IInv'
  <1>1. CASE \E p \in Products, op \in Edits : BeginEdit(t, p, op)
    BY <1>1, BeginEditStep
  <1>2. ASSUME txn[t].op \in EditOps
        PROVE  txn[t].prod \in Product /\ txn[t].prod.status # "NONE"
    BY <1>2, TxnKinds DEF IInv, EditTxn
  <1>3. ASSUME NEW n \in 0..MaxStock, NEW s \in EditStatuses, updateProduct(t, n, s)
        PROVE  IInv'
    <2> DEFINE edited == [txn[t].prod EXCEPT !.stock = n, !.status = s]
    <2>1. txn[t].op \in EditOps /\ SaveProduct(t, edited)
      BY <1>3 DEF updateProduct, EditOps
    <2>2. edited \in Product /\ edited.status # "NONE"
      <3>1. n \in Nat /\ s \in ProductStatus /\ s # "NONE"
        BY CatalogAssumption DEF ProductStatus
      <3> QED
        BY <1>2, <2>1, <3>1 DEF Product
    <2> HIDE DEF edited
    <2> QED
      BY <2>1, <2>2, SaveStep
  <1>4. CASE deleteProduct(t)
    <2> DEFINE edited == [txn[t].prod EXCEPT !.isActive = FALSE, !.status = "ARCHIVED"]
    <2>1. txn[t].op \in EditOps /\ SaveProduct(t, edited)
      BY <1>4 DEF deleteProduct, EditOps
    <2>2. edited \in Product /\ edited.status # "NONE"
      BY <1>2, <2>1 DEF Product, ProductStatus
    <2> HIDE DEF edited
    <2> QED
      BY <2>1, <2>2, SaveStep
  <1>5. ASSUME NEW n \in 0..MaxStock, adjustStock(t, n)
        PROVE  IInv'
    <2> DEFINE edited == [txn[t].prod EXCEPT !.stock = n]
    <2>1. txn[t].op \in EditOps /\ SaveProduct(t, edited)
      BY <1>5 DEF adjustStock, EditOps
    <2>2. edited \in Product /\ edited.status # "NONE"
      BY <1>2, <2>1, CatalogAssumption DEF Product
    <2> HIDE DEF edited
    <2> QED
      BY <2>1, <2>2, SaveStep
  <1> QED
    BY <1>1, <1>3, <1>4, <1>5 DEF SellerCalls

LEMMA CreateStep ==
    ASSUME IInv, NEW p \in Products, NEW n \in 0..MaxStock, NEW s \in EditStatuses,
           createProduct(p, n, s)
    PROVE  IInv'
  <1>1. s \in ProductStatus /\ n \in Nat
    BY CatalogAssumption
  <1>2. product' \in [Products -> Product]
    BY <1>1 DEF createProduct, IInv, TypeOK, Product
  <1>3. \A q \in Products : product[q].status # "NONE" => product'[q] = product[q]
    BY DEF createProduct, IInv, TypeOK
  <1>4. \A t \in Sessions : txn[t].op = "reserve" => txn[t].p \in Products
    BY TxnKinds DEF IInv, ReserveTxn
  <1>5. TypeOK'
    BY <1>2 DEF createProduct, IInv, TypeOK
  <1>6. SnapshotIsCurrent'
    BY <1>3, <1>4 DEF createProduct, IInv, SnapshotIsCurrent
  <1> QED
    BY <1>5, <1>6 DEF IInv

LEMMA TimeStep ==
    ASSUME IInv, NEW p \in Products, NEW c \in Carts, TimePasses(p, c)
    PROVE  IInv'
  BY DEF TimePasses, IInv, TypeOK, SnapshotIsCurrent

LEMMA ExpireStep ==
    ASSUME IInv, expire_reservations
    PROVE  IInv'
  <1> DEFINE rows == [p \in Products |-> [c \in Carts |->
                        IF resv[p][c].status = "ACTIVE" /\ <<p, c>> \in due
                        THEN [resv[p][c] EXCEPT !.status = "EXPIRED"]
                        ELSE resv[p][c]]]
             left(p) == product[p].reservedStock - QuantityIn(rows, p, "EXPIRED")
             ps == {p \in Products : left(p) # product[p].reservedStock}
             rs == {r \in due : rows[r[1]][r[2]] # resv[r[1]][r[2]]}
  <1>1. /\ \A p \in Products : left(p) \in 0..product[p].stock
        /\ resv' = rows
        /\ product' = [p \in Products |-> [product[p] EXCEPT !.reservedStock = left(p)]]
        /\ txn' = [u \in Sessions |-> Outdated(u, ps, rs)]
        /\ due' \subseteq due
    BY DEF expire_reservations
  <1>2. ASSUME NEW p \in Products, NEW c \in Carts
        PROVE  /\ rows[p][c] \in StockReservation
               /\ <<p, c>> \in rs \/ rows[p][c] = resv[p][c]
    BY DEF IInv, TypeOK, StockReservation, ReservationStatus
  <1>3. /\ resv' \in [Products -> [Carts -> StockReservation]]
        /\ \A q \in Products, c \in Carts : <<q, c>> \in rs \/ resv'[q][c] = resv[q][c]
    <2> HIDE DEF rs
    <2> QED
      BY <1>1, <1>2
  <1>4. rs \in SUBSET (Products \X Carts)
    BY DEF IInv, TypeOK
  <1> HIDE DEF rows, left, rs
  <1>5. ASSUME NEW p \in Products
        PROVE  left(p) \in Nat
    BY <1>1 DEF IInv, TypeOK, Product
  <1>6. /\ product' \in [Products -> Product]
        /\ \A q \in Products : product[q].status # "NONE" => product'[q].status # "NONE"
    BY <1>1, <1>5 DEF IInv, TypeOK, Product
  <1>7. \A q \in Products : q \in ps \/ product'[q] = product[q]
    BY <1>1 DEF IInv, TypeOK, Product
  <1>8. ps \in SUBSET Products
    OBVIOUS
  <1> HIDE DEF ps
  <1>9. /\ txn' \in [Sessions -> {Idle} \cup ReserveTxn \cup FinishTxn \cup EditTxn]
        /\ \A u \in Sessions : txn'[u] = Idle \/ txn'[u] = Outdated(u, ps, rs)
    BY <1>1, <1>4, <1>8, OutdatedType DEF IInv
  <1> QED
    BY <1>1, <1>3, <1>4, <1>6, <1>7, <1>8, <1>9, WriteStep

-----------------------------------------------------------------------------
(* The invariant and what follows from it *)

LEMMA NextIInv == IInv /\ [Next]_vars => IInv'
  <1> SUFFICES ASSUME IInv, [Next]_vars
               PROVE  IInv'
    OBVIOUS
  <1>1. CASE UNCHANGED vars
    BY <1>1 DEF vars, IInv, TypeOK, SnapshotIsCurrent
  <1>2. ASSUME NEW t \in Sessions, ReservationCalls(t)
        PROVE  IInv'
    BY <1>2, BeginReserveStep, BeginFinishStep, ReserveStep, ReleaseStep, ConfirmStep
       DEF ReservationCalls
  <1> QED
    BY <1>1, <1>2, SellerStep, CreateStep, TimeStep, ExpireStep DEF Next

LEMMA Invariance == Spec => []IInv
  BY InitIInv, NextIInv, PTL DEF Spec

\* Every row and every open transaction is well typed: in particular no race of
\* the service makes reserved_stock or stock negative.
THEOREM TypeCorrect == Spec => []TypeOK
  BY Invariance, PTL DEF IInv

\* A reservation that was released, confirmed or expired stays so, whatever calls
\* race: the only writes that store ACTIVE are those of reserveStock, and these
\* replace a row they read in a snapshot that is still current.
THEOREM FinishedIsFinal == Spec => FinishedStaysFinished
  <1> DEFINE Final(p, c) ==
               resv[p][c].status \in ReservationStatus \ {"ACTIVE"}
                 => resv'[p][c].status # "ACTIVE"
  <1>1. ASSUME IInv, [Next]_vars, NEW p \in Products, NEW c \in Carts
        PROVE  Final(p, c)
    <2> USE <1>1
    <2>1. CASE UNCHANGED resv
      BY <2>1
    <2>2. ASSUME NEW t \in Sessions, reserveStock(t)
          PROVE  Final(p, c)
      <3> DEFINE x == txn[t]
      <3>1. x \in ReserveTxn
        BY <2>2, TxnKinds DEF reserveStock, IInv
      <3>2. CASE UNCHANGED resv
        BY <3>2
      <3>3. CASE ~x.stale /\ x.row.status \in {"ACTIVE", "NONE"}
                 /\ \E row : resv' = [resv EXCEPT ![x.p][x.c] = row]
        <4>1. x.row = resv[x.p][x.c]
          BY <2>2, <3>1, <3>3 DEF reserveStock, IInv, SnapshotIsCurrent
        <4> QED
          BY <3>1, <3>3, <4>1 DEF IInv, TypeOK, ReserveTxn, ReservationStatus
      <3> QED
        BY <2>2, <3>2, <3>3 DEF reserveStock, Resize, Insert, Rollback
    <2>3. ASSUME NEW t \in Sessions, releaseStock(t) \/ confirmStock(t)
          PROVE  Final(p, c)
      <3> DEFINE x == txn[t]
      <3>1. x \in FinishTxn
        BY <2>3, TxnKinds DEF releaseStock, confirmStock, IInv
      <3>2. \/ UNCHANGED resv
            \/ resv' = [resv EXCEPT ![x.p][x.c] = [x.row EXCEPT !.status = "RELEASED"]]
            \/ resv' = [resv EXCEPT ![x.p][x.c] = [x.row EXCEPT !.status = "CONFIRMED"]]
        BY <2>3 DEF releaseStock, confirmStock, Rollback
      <3>3. /\ x.p \in Products /\ x.c \in Carts
            /\ [x.row EXCEPT !.status = "RELEASED"].status # "ACTIVE"
            /\ [x.row EXCEPT !.status = "CONFIRMED"].status # "ACTIVE"
        BY <3>1 DEF FinishTxn, StockReservation
      <3>4. \/ UNCHANGED resv
            \/ \E row : row.status # "ACTIVE" /\ resv' = [resv EXCEPT ![x.p][x.c] = row]
        BY <3>2, <3>3
      <3>5. ASSUME NEW row, row.status # "ACTIVE", resv' = [resv EXCEPT ![x.p][x.c] = row]
            PROVE  Final(p, c)
        <4>1. resv'[p][c] = resv[p][c] \/ resv'[p][c] = row
          BY <3>3, <3>5 DEF IInv, TypeOK
        <4> QED
          BY <3>5, <4>1
      <3> QED
        BY <2>1, <3>4, <3>5
    <2>4. CASE expire_reservations
      BY <2>4 DEF expire_reservations, IInv, TypeOK, StockReservation
    <2>5. ASSUME NEW t \in Sessions, SellerCalls(t)
          PROVE  UNCHANGED resv
      BY <2>5 DEF SellerCalls, BeginEdit, updateProduct, deleteProduct, adjustStock,
                  SaveProduct, Rollback
    <2> QED
      BY <2>1, <2>2, <2>3, <2>4, <2>5
         DEF Next, vars, ReservationCalls, BeginReserve, BeginFinish, createProduct, TimePasses
  <1>2. IInv /\ [Next]_vars => [\A p \in Products, c \in Carts : Final(p, c)]_vars
    BY <1>1
  <1> QED
    BY <1>2, Invariance, PTL DEF Spec, FinishedStaysFinished

-----------------------------------------------------------------------------
(* Where calls do not overlap: the books of reserved units *)

CallOps == {"reserve", "release", "confirm"}

\* The units that a row of stock_reservations holds, and those that every cart holds.
Units(row) == IF row.status = "ACTIVE" THEN row.quantity ELSE 0
HeldAt(p) == [c \in Carts |-> Units(resv[p][c])]

\* Callers have one call per reservation in flight.
CallsAreAlone ==
    \A t, u \in Sessions :
        /\ txn[t].op \in CallOps /\ txn[u].op \in CallOps
        /\ txn[t].p = txn[u].p /\ txn[t].c = txn[u].c
        => t = u

\* ... so that the reservation a call read is the one that is there ...
RowsAreRead ==
    \A t \in Sessions :
        txn[t].op \in {"release", "confirm"} =>
            /\ txn[t].row = resv[txn[t].p][txn[t].c]
            /\ txn[t].row.status # "NONE"

\* ... as is the product a seller edits, which no call is about.
EditsAreAlone ==
    \A t \in Sessions :
        txn[t].op \in EditOps =>
            /\ txn[t].prod = product[txn[t].p]
            /\ \A u \in Sessions :
                 txn[u].op \in CallOps \cup EditOps /\ txn[u].p = txn[t].p => u = t

ProductsAreChecked ==
    \A p \in Products :
        /\ RowChecks(product[p])
        /\ product[p].status = "NONE" => product[p] = NoProduct
        /\ \A c \in Carts : resv[p][c].status # "NONE" => product[p].status # "NONE"

Counted == \A p \in Products : product[p].reservedStock = SumOver(HeldAt(p), Carts)



-----------------------------------------------------------------------------
(* What a step does to the rows *)

\* reserveStock: the reservation becomes ACTIVE with n units in place of what it held.
Reserves(p, c, n) ==
    /\ resv[p][c].status \in {"ACTIVE", "NONE"}
    /\ product[p].reservedStock - Units(resv[p][c]) + n <= product[p].stock
    /\ product' = [product EXCEPT ![p].reservedStock = @ - Units(resv[p][c]) + n]
    /\ resv' = [resv EXCEPT ![p][c] = [status |-> "ACTIVE", quantity |-> n]]

\* releaseStock: an ACTIVE reservation gives its units back.
Releases(p, c) ==
    /\ resv[p][c].status = "ACTIVE"
    /\ product' = [product EXCEPT ![p].reservedStock = @ - resv[p][c].quantity]
    /\ resv' = [resv EXCEPT ![p][c].status = "RELEASED"]

\* confirmStock: the units of an ACTIVE reservation leave the stock.
Confirms(p, c) ==
    /\ resv[p][c].status = "ACTIVE"
    /\ resv[p][c].quantity <= product[p].stock
    /\ product' = [product EXCEPT ![p] = Deduct(@, resv[p][c].quantity)]
    /\ resv' = [resv EXCEPT ![p][c].status = "CONFIRMED"]

\* A seller creates or edits the product: what is reserved stays.
Recounts(p) ==
    /\ \E new \in Product :
         /\ new.reservedStock = product[p].reservedStock
         /\ RowChecks(new) /\ new.status # "NONE"
         /\ new.stock < product[p].stock => Open(p, EditOps)
         /\ product' = [product EXCEPT ![p] = new]
    /\ UNCHANGED resv

RowsStep ==
    \/ UNCHANGED <<product, resv>>
    \/ \E p \in Products :
         \/ Recounts(p)
         \/ \E c \in Carts :
              (\E n \in Quantity : Reserves(p, c, n)) \/ Releases(p, c) \/ Confirms(p, c)

-----------------------------------------------------------------------------
(* Sums of what is held *)

LEMMA HeldFacts ==
    ASSUME TypeOK, NEW p \in Products
    PROVE  /\ IsFiniteSet(Carts)
           /\ \A c \in Carts : HeldAt(p)[c] = Units(resv[p][c]) /\ HeldAt(p)[c] \in Nat
  BY CatalogAssumption DEF HeldAt, Units, TypeOK, StockReservation

\* One reservation changes: the sum changes by its units.
HeldChange(p, c, row) ==
    /\ SumOver(HeldAt(p)', Carts)
         = SumOver(HeldAt(p), Carts) - Units(resv[p][c]) + Units(row)
    /\ \A q \in Products : q # p => HeldAt(q)' = HeldAt(q)
    /\ \A q \in Products, d \in Carts :
         resv'[q][d] = IF q = p /\ d = c THEN row ELSE resv[q][d]

LEMMA HeldChanges ==
    ASSUME TypeOK, NEW p \in Products, NEW c \in Carts, NEW row \in StockReservation,
           resv' = [resv EXCEPT ![p][c] = row]
    PROVE  HeldChange(p, c, row)
  <1>1. \A q \in Products, d \in Carts :
          resv'[q][d] = IF q = p /\ d = c THEN row ELSE resv[q][d]
    BY DEF TypeOK
  <1>2. \A d \in Carts : HeldAt(p)'[d] = IF d = c THEN Units(row) ELSE HeldAt(p)[d]
    BY <1>1 DEF HeldAt, Units
  <1>3. Units(row) \in Nat
    BY DEF Units, StockReservation
  <1>4. \A d \in Carts : HeldAt(p)[d] \in Nat /\ HeldAt(p)'[d] \in Nat
    BY <1>2, <1>3, HeldFacts
  <1>5. PICK f, h : f = HeldAt(p) /\ h = HeldAt(p)'
    OBVIOUS
  <1>6. /\ \A d \in Carts : f[d] \in Nat /\ h[d] \in Nat
        /\ \A d \in Carts : d # c => f[d] = h[d]
        /\ IsFiniteSet(Carts)
    BY <1>2, <1>4, <1>5, HeldFacts
  <1>7. SumOver(h, Carts) = SumOver(f, Carts) - f[c] + h[c]
    BY <1>6, SumUpdate
  <1>8. f[c] = Units(resv[p][c]) /\ h[c] = Units(row)
    BY <1>2, <1>5, HeldFacts
  <1>9. \A q \in Products : q # p => HeldAt(q)' = HeldAt(q)
    BY <1>1 DEF HeldAt
  <1> QED
    BY <1>1, <1>5, <1>7, <1>8, <1>9 DEF HeldChange

\* What the properties speak of is the same sum.
LEMMA QuantityIsHeld ==
    ASSUME TypeOK, NEW p \in Products
    PROVE  QuantityIn(resv, p, "ACTIVE") = SumOver(HeldAt(p), Carts)
  <1> DEFINE S == {c \in Carts : resv[p][c].status = "ACTIVE"}
             Recurs(g) ==
               g = [s \in SUBSET S |->
                      IF s = {} THEN 0 ELSE resv[p][Pick(s)].quantity + g[s \ {Pick(s)}]]
             k == CHOOSE g : Recurs(g)
  <1>1. QuantityIn(resv, p, "ACTIVE") = k[S]
    BY DEF QuantityIn, MapThenSumSet, MapThenFoldSet, Pick
  <1>2. ASSUME NEW g
        PROVE  Recurs(g) <=> Sums(g, HeldAt(p), S)
    <2>1. \A s \in SUBSET S : s # {} => resv[p][Pick(s)].quantity = HeldAt(p)[Pick(s)]
      BY PickIsIn DEF HeldAt, Units
    <2>2. [s \in SUBSET S |->
             IF s = {} THEN 0 ELSE resv[p][Pick(s)].quantity + g[s \ {Pick(s)}]]
            = [s \in SUBSET S |-> IF s = {} THEN 0 ELSE HeldAt(p)[Pick(s)] + g[s \ {Pick(s)}]]
      BY <2>1
    <2> QED
      BY <2>2 DEF Sums
  <1>3. /\ IsFiniteSet(Carts) /\ S \in SUBSET Carts
        /\ \A c \in Carts : HeldAt(p)[c] \in Nat
        /\ \A c \in Carts \ S : HeldAt(p)[c] = 0
    BY HeldFacts DEF Units
  <1> HIDE DEF Recurs, S
  <1>4. IsFiniteSet(S)
    BY <1>3, FS_Subset
  <1>5. Recurs(k)
    BY <1>2, <1>4, SumsExist
  <1>6. SumOver(HeldAt(p), S) = k[S]
    BY <1>2, <1>4, <1>5, SumIsFunction
  <1>7. SumOver(HeldAt(p), Carts) = SumOver(HeldAt(p), S)
    BY <1>3, SumWhere
  <1> QED
    BY <1>1, <1>6, <1>7

-----------------------------------------------------------------------------
(* The steps keep the books *)

RowsInv == ProductsAreChecked /\ Counted

LEMMA HeldOfOne ==
    ASSUME TypeOK, Counted, NEW p \in Products, NEW c \in Carts
    PROVE  /\ product[p] \in Product /\ resv[p][c] \in StockReservation
           /\ Units(resv[p][c]) \in Nat /\ Units(resv[p][c]) <= product[p].reservedStock
  <1>1. product[p] \in Product /\ resv[p][c] \in StockReservation
    BY DEF TypeOK
  <1>2. HeldAt(p)[c] = Units(resv[p][c]) /\ HeldAt(p)[c] <= SumOver(HeldAt(p), Carts)
    BY HeldFacts, SumBounds
  <1> QED
    BY <1>1, <1>2, HeldFacts DEF Counted

\* A call changes one product and one reservation of it.
LEMMA CallKeepsBooks ==
    ASSUME TypeOK, RowsInv, NEW p \in Products, NEW c \in Carts,
           NEW row \in StockReservation, NEW prod \in Product,
           resv' = [resv EXCEPT ![p][c] = row],
           product' = [product EXCEPT ![p] = prod],
           prod.reservedStock = product[p].reservedStock - Units(resv[p][c]) + Units(row),
           prod.reservedStock <= prod.stock,
           prod.status # "NONE"
    PROVE  RowsInv'
  <1>1. /\ SumOver(HeldAt(p)', Carts) = SumOver(HeldAt(p), Carts) - Units(resv[p][c]) + Units(row)
        /\ \A q \in Products : q # p => HeldAt(q)' = HeldAt(q)
        /\ \A q \in Products, d \in Carts :
             resv'[q][d] = IF q = p /\ d = c THEN row ELSE resv[q][d]
    <2>1. HeldChange(p, c, row)
      BY HeldChanges
    <2> QED
      BY <2>1 DEF HeldChange
  <1>2. \A q \in Products : product'[q] = IF q = p THEN prod ELSE product[q]
    BY DEF TypeOK
  <1>3. Counted'
    <2> SUFFICES ASSUME NEW q \in Products
                 PROVE  product'[q].reservedStock = SumOver(HeldAt(q)', Carts)
      BY DEF Counted
    <2>1. CASE q = p
      BY <1>1, <1>2, <2>1 DEF RowsInv, Counted
    <2>2. CASE q # p
      <3>1. HeldAt(q)' = HeldAt(q) /\ product'[q] = product[q]
        BY <1>1, <1>2, <2>2
      <3> QED
        BY <3>1 DEF RowsInv, Counted
    <2> QED
      BY <2>1, <2>2
  <1>4. RowChecks(prod)
    BY DEF RowChecks, Product
  <1>5. ProductsAreChecked'
    BY <1>1, <1>2, <1>4 DEF RowsInv, ProductsAreChecked, RowChecks
  <1> QED
    BY <1>3, <1>5 DEF RowsInv

LEMMA RowsKept ==
    ASSUME TypeOK, RowsInv, RowsStep
    PROVE  RowsInv'
  <1>1. CASE UNCHANGED <<product, resv>>
    BY <1>1 DEF RowsInv, ProductsAreChecked, Counted, HeldAt, RowChecks
  <1>2. ASSUME NEW p \in Products, Recounts(p)
        PROVE  RowsInv'
    <2>1. PICK new \in Product :
            /\ new.reservedStock = product[p].reservedStock
            /\ RowChecks(new) /\ new.status # "NONE"
            /\ product' = [product EXCEPT ![p] = new]
      BY <1>2 DEF Recounts
    <2>2. \A q \in Products : product'[q] = IF q = p THEN new ELSE product[q]
      BY <2>1 DEF TypeOK
    <2>3. UNCHANGED resv
      BY <1>2 DEF Recounts
    <2>4. \A q \in Products : HeldAt(q)' = HeldAt(q)
      BY <2>3 DEF HeldAt
    <2>5. Counted'
      BY <2>1, <2>2, <2>4 DEF RowsInv, Counted
    <2>6. ProductsAreChecked'
      BY <2>1, <2>2, <2>3 DEF RowsInv, ProductsAreChecked, RowChecks
    <2> QED
      BY <2>5, <2>6 DEF RowsInv
  <1>3. ASSUME NEW p \in Products, NEW c \in Carts, NEW n \in Quantity, Reserves(p, c, n)
        PROVE  RowsInv'
    <2> DEFINE row == [status |-> "ACTIVE", quantity |-> n]
               prod == [product[p] EXCEPT !.reservedStock = @ - Units(resv[p][c]) + n]
    <2>1. /\ product[p] \in Product
          /\ Units(resv[p][c]) \in Nat /\ Units(resv[p][c]) <= product[p].reservedStock
      BY HeldOfOne DEF RowsInv
    <2>2. n \in Nat
      BY CatalogAssumption DEF Quantity
    <2>3. product[p].reservedStock - Units(resv[p][c]) + n \in Nat
      BY <2>1, <2>2 DEF Product
    <2>4. row \in StockReservation /\ Units(row) = n
      BY <2>2 DEF StockReservation, ReservationStatus, Units
    <2>5. /\ prod \in Product
          /\ prod.reservedStock = product[p].reservedStock - Units(resv[p][c]) + n
          /\ prod.stock = product[p].stock /\ prod.status = product[p].status
      BY <2>1, <2>3 DEF Product
    <2>6. /\ resv' = [resv EXCEPT ![p][c] = row]
          /\ product' = [product EXCEPT ![p] = prod]
      BY <1>3 DEF Reserves
    <2>7. product[p].status # "NONE"
      BY <2>2, <2>1, <1>3 DEF Reserves, RowsInv, ProductsAreChecked, NoProduct, Quantity
    <2>8. prod.reservedStock <= prod.stock
      BY <1>3, <2>5 DEF Reserves
    <2> HIDE DEF row, prod
    <2>9. prod.reservedStock = product[p].reservedStock - Units(resv[p][c]) + Units(row)
      BY <2>4, <2>5
    <2> QED
      BY <2>4, <2>5, <2>6, <2>7, <2>8, <2>9, CallKeepsBooks
  <1>4. ASSUME NEW p \in Products, NEW c \in Carts, Releases(p, c)
        PROVE  RowsInv'
    <2> DEFINE row == [resv[p][c] EXCEPT !.status = "RELEASED"]
               prod == [product[p] EXCEPT !.reservedStock = @ - resv[p][c].quantity]
    <2>1. /\ product[p] \in Product /\ resv[p][c] \in StockReservation
          /\ Units(resv[p][c]) \in Nat /\ Units(resv[p][c]) <= product[p].reservedStock
          /\ Units(resv[p][c]) = resv[p][c].quantity
      BY <1>4, HeldOfOne DEF RowsInv, Releases, Units
    <2>2. row \in StockReservation /\ Units(row) = 0
      BY <2>1 DEF StockReservation, ReservationStatus, Units
    <2>3. product[p].reservedStock - resv[p][c].quantity \in Nat
      BY <2>1 DEF Product
    <2>4. /\ prod \in Product
          /\ prod.reservedStock = product[p].reservedStock - resv[p][c].quantity
          /\ prod.stock = product[p].stock /\ prod.status = product[p].status
      BY <2>1, <2>3 DEF Product
    <2>5. /\ resv' = [resv EXCEPT ![p][c] = row]
          /\ product' = [product EXCEPT ![p] = prod]
      BY <1>4 DEF Releases
    <2>6. product[p].status # "NONE" /\ product[p].reservedStock <= product[p].stock
      BY <1>4 DEF Releases, RowsInv, ProductsAreChecked, RowChecks
    <2> HIDE DEF row, prod
    <2>7. prod.reservedStock <= prod.stock
      BY <2>1, <2>4, <2>6 DEF Product
    <2>8. prod.reservedStock = product[p].reservedStock - Units(resv[p][c]) + Units(row)
      BY <2>1, <2>2, <2>4 DEF Product
    <2> QED
      BY <2>2, <2>4, <2>5, <2>6, <2>7, <2>8, CallKeepsBooks
  <1>5. ASSUME NEW p \in Products, NEW c \in Carts, Confirms(p, c)
        PROVE  RowsInv'
    <2> DEFINE row == [resv[p][c] EXCEPT !.status = "CONFIRMED"]
               prod == Deduct(product[p], resv[p][c].quantity)
    <2>1. /\ product[p] \in Product /\ resv[p][c] \in StockReservation
          /\ Units(resv[p][c]) \in Nat /\ Units(resv[p][c]) <= product[p].reservedStock
          /\ Units(resv[p][c]) = resv[p][c].quantity
      BY <1>5, HeldOfOne DEF RowsInv, Confirms, Units
    <2>2. row \in StockReservation /\ Units(row) = 0
      BY <2>1 DEF StockReservation, ReservationStatus, Units
    <2>3. /\ product[p].reservedStock - resv[p][c].quantity \in Nat
          /\ product[p].stock - resv[p][c].quantity \in Nat
      BY <1>5, <2>1 DEF Product, Confirms
    <2>4. /\ prod \in Product
          /\ prod.reservedStock = product[p].reservedStock - resv[p][c].quantity
          /\ prod.stock = product[p].stock - resv[p][c].quantity
          /\ prod.status = product[p].status
      BY <2>1, <2>3 DEF Product, Deduct
    <2>5. /\ resv' = [resv EXCEPT ![p][c] = row]
          /\ product' = [product EXCEPT ![p] = prod]
      BY <1>5 DEF Confirms
    <2>6. product[p].status # "NONE" /\ product[p].reservedStock <= product[p].stock
      BY <1>5 DEF Confirms, RowsInv, ProductsAreChecked, RowChecks
    <2> HIDE DEF row, prod
    <2>7. prod.reservedStock <= prod.stock
      BY <2>1, <2>4, <2>6 DEF Product
    <2>8. prod.reservedStock = product[p].reservedStock - Units(resv[p][c]) + Units(row)
      BY <2>1, <2>2, <2>4 DEF Product
    <2> QED
      BY <2>2, <2>4, <2>5, <2>6, <2>7, <2>8, CallKeepsBooks
  <1> QED
    BY <1>1, <1>2, <1>3, <1>4, <1>5 DEF RowsStep

-----------------------------------------------------------------------------
(* The steps keep sessions apart *)

SessionsInv == CallsAreAlone /\ RowsAreRead /\ EditsAreAlone

\* A step of session t that ends its transaction leaves those of the others as they
\* are, but for the mark that a snapshot is stale.
Ended(t) ==
    /\ txn'[t] = Idle
    /\ \A u \in Sessions \ {t} :
         /\ txn'[u].op = txn[u].op
         /\ txn[u].op \in CallOps => txn'[u].p = txn[u].p /\ txn'[u].c = txn[u].c
         /\ txn[u].op # "reserve" => txn'[u] = txn[u]

LEMMA EndIs ==
    ASSUME TypeOK, NEW t \in Sessions, NEW ps, NEW rs, EndTxn(t, ps, rs) \/ Rollback(t)
    PROVE  Ended(t)
  <1>1. ASSUME NEW u \in Sessions, u # t
        PROVE  txn'[u] = Outdated(u, ps, rs) \/ txn'[u] = txn[u]
    BY <1>1 DEF EndTxn, Rollback, TypeOK
  <1>2. txn'[t] = Idle
    BY DEF EndTxn, Rollback, TypeOK
  <1>3. ASSUME NEW u \in Sessions, u # t
        PROVE  /\ txn'[u].op = txn[u].op
               /\ txn[u].op \in CallOps => txn'[u].p = txn[u].p /\ txn'[u].c = txn[u].c
               /\ txn[u].op # "reserve" => txn'[u] = txn[u]
    <2>1. txn[u].op = "reserve" => txn[u] \in ReserveTxn
      BY TxnKinds
    <2>2. CASE txn[u].op = "reserve"
      BY <1>1, <1>3, <2>1, <2>2 DEF Outdated, ReserveTxn
    <2>3. CASE txn[u].op # "reserve"
      BY <1>1, <1>3, <2>3 DEF Outdated
    <2> QED
      BY <2>2, <2>3
  <1> QED
    BY <1>2, <1>3 DEF Ended

LEMMA SessionsKeptAtEnd ==
    ASSUME TypeOK, SessionsInv, NEW t \in Sessions, Ended(t),
           txn[t].op \in CallOps \cup EditOps,
           \A q \in Products : q = txn[t].p \/ product'[q] = product[q],
           \A q \in Products, c \in Carts :
             \/ txn[t].op \in CallOps /\ q = txn[t].p /\ c = txn[t].c
             \/ resv'[q][c] = resv[q][c]
    PROVE  SessionsInv'
  <1>1. ASSUME NEW u \in Sessions, txn'[u].op # "idle"
        PROVE  /\ u # t
               /\ txn'[u].op = txn[u].op
               /\ txn[u].op \in CallOps => txn'[u].p = txn[u].p /\ txn'[u].c = txn[u].c
               /\ txn[u].op # "reserve" => txn'[u] = txn[u]
    BY <1>1 DEF Ended, Idle
  <1>2. CallsAreAlone'
    BY <1>1 DEF SessionsInv, CallsAreAlone, CallOps
  <1>3. RowsAreRead'
    <2> SUFFICES ASSUME NEW u \in Sessions, txn'[u].op \in {"release", "confirm"}
                 PROVE  /\ txn'[u].row = resv'[txn'[u].p][txn'[u].c]
                        /\ txn'[u].row.status # "NONE"
      BY DEF RowsAreRead
    <2>1. u # t /\ txn'[u] = txn[u] /\ txn[u].op \in {"release", "confirm"}
      BY <1>1
    <2>2. txn[u].p \in Products /\ txn[u].c \in Carts
      BY <2>1, TxnKinds DEF FinishTxn
    <2>3. ~(txn[t].op \in CallOps /\ txn[u].p = txn[t].p /\ txn[u].c = txn[t].c)
      BY <2>1 DEF SessionsInv, CallsAreAlone, CallOps
    <2>4. resv'[txn[u].p][txn[u].c] = resv[txn[u].p][txn[u].c]
      BY <2>2, <2>3
    <2> QED
      BY <2>1, <2>4 DEF SessionsInv, RowsAreRead
  <1>4. EditsAreAlone'
    <2> SUFFICES ASSUME NEW u \in Sessions, txn'[u].op \in EditOps
                 PROVE  /\ txn'[u].prod = product'[txn'[u].p]
                        /\ \A v \in Sessions :
                             txn'[v].op \in CallOps \cup EditOps /\ txn'[v].p = txn'[u].p => v = u
      BY DEF EditsAreAlone
    <2>1. u # t /\ txn'[u] = txn[u] /\ txn[u].op \in EditOps
      BY <1>1 DEF EditOps
    <2>2. txn[u].p \in Products /\ txn[u].p # txn[t].p
      BY <2>1, TxnKinds DEF EditTxn, SessionsInv, EditsAreAlone
    <2>3. product'[txn[u].p] = product[txn[u].p]
      BY <2>2
    <2>4. ASSUME NEW v \in Sessions, txn'[v].op \in CallOps \cup EditOps, txn'[v].p = txn[u].p
          PROVE  v = u
      <3>1. txn[v].op \in CallOps \cup EditOps /\ txn[v].p = txn'[v].p
        BY <1>1, <2>4 DEF CallOps, EditOps
      <3> QED
        BY <2>1, <2>4, <3>1 DEF SessionsInv, EditsAreAlone
    <2> QED
      BY <2>1, <2>3, <2>4 DEF SessionsInv, EditsAreAlone
  <1> QED
    BY <1>2, <1>3, <1>4 DEF SessionsInv

LEMMA SessionsKeptAtBegin ==
    ASSUME TypeOK, SessionsInv, NEW t \in Sessions,
           NEW x \in ReserveTxn \cup FinishTxn \cup EditTxn,
           txn' = [txn EXCEPT ![t] = x],
           UNCHANGED <<product, resv>>,
           x.op \in CallOps => ~Finishing(x.p, x.c) /\ ~Open(x.p, EditOps),
           x.op \in {"release", "confirm"} => /\ x.row = resv[x.p][x.c]
                                              /\ x.row.status # "NONE",
           x.op \in EditOps => /\ ~Open(x.p, CallOps \cup EditOps)
                               /\ x.prod = product[x.p]
    PROVE  SessionsInv'
  <1>1. \A u \in Sessions : txn'[u] = IF u = t THEN x ELSE txn[u]
    BY DEF TypeOK
  <1>2. x.op \in CallOps \cup EditOps
    BY DEF ReserveTxn, FinishTxn, EditTxn, CallOps
  <1>3. CallsAreAlone'
    BY <1>1 DEF SessionsInv, CallsAreAlone, Finishing, CallOps
  <1>4. RowsAreRead'
    BY <1>1 DEF SessionsInv, RowsAreRead
  <1>5. EditsAreAlone'
    BY <1>1, <1>2 DEF SessionsInv, EditsAreAlone, Open
  <1> QED
    BY <1>3, <1>4, <1>5 DEF SessionsInv

-----------------------------------------------------------------------------
(* What the steps are, while calls do not overlap *)

BooksInv == IInv /\ SessionsInv /\ RowsInv

\* A step is one of RowsStep, and leaves the sessions apart.
Accounted == RowsStep /\ SessionsInv'

LEMMA RollbackAccounted ==
    ASSUME BooksInv, NEW t \in Sessions, Rollback(t), txn[t].op \in CallOps \cup EditOps
    PROVE  Accounted
  <1>1. Ended(t) /\ UNCHANGED <<product, resv>>
    BY EndIs DEF Rollback, BooksInv, IInv
  <1>2. SessionsInv'
    BY <1>1, SessionsKeptAtEnd DEF BooksInv, IInv
  <1> QED
    BY <1>1, <1>2 DEF Accounted, RowsStep

LEMMA BeginAccounted ==
    ASSUME BooksInv, SingleFlight, EditsAlone, NEW t \in Sessions,
           \/ \E p \in Products, c \in Carts, n \in Quantity : BeginReserve(t, p, c, n)
           \/ \E p \in Products, c \in Carts, op \in {"release", "confirm"} :
                BeginFinish(t, p, c, op)
           \/ \E p \in Products, op \in Edits : BeginEdit(t, p, op)
    PROVE  Accounted
  <1>1. TypeOK /\ SessionsInv
    BY DEF BooksInv, IInv
  <1>2. ASSUME NEW p \in Products, NEW c \in Carts, NEW n \in Quantity, BeginReserve(t, p, c, n)
        PROVE  Accounted
    <2> DEFINE x == [op |-> "reserve", p |-> p, c |-> c, quantity |-> n,
                     prod |-> product[p], row |-> resv[p][c], stale |-> FALSE]
    <2>1. x \in ReserveTxn
      BY <1>1 DEF TypeOK, ReserveTxn
    <2>2. /\ txn' = [txn EXCEPT ![t] = x] /\ UNCHANGED <<product, resv>>
          /\ ~Finishing(x.p, x.c) /\ ~Open(x.p, EditOps)
          /\ x.op = "reserve"
      BY <1>2 DEF BeginReserve, MayCall
    <2> HIDE DEF x
    <2>3. x.op \notin EditOps
      BY <2>2 DEF EditOps
    <2>4. SessionsInv'
      BY <1>1, <2>1, <2>2, <2>3, SessionsKeptAtBegin
    <2> QED
      BY <2>2, <2>4 DEF Accounted, RowsStep
  <1>3. ASSUME NEW p \in Products, NEW c \in Carts, NEW op \in {"release", "confirm"},
               BeginFinish(t, p, c, op)
        PROVE  Accounted
    <2> DEFINE x == [op |-> op, p |-> p, c |-> c, row |-> resv[p][c]]
    <2>1. x \in FinishTxn
      BY <1>1 DEF TypeOK, FinishTxn
    <2>2. /\ txn' = [txn EXCEPT ![t] = x] /\ UNCHANGED <<product, resv>>
          /\ ~Finishing(x.p, x.c) /\ ~Open(x.p, EditOps)
          /\ x.op \in {"release", "confirm"}
          /\ x.row = resv[x.p][x.c] /\ x.row.status # "NONE"
      BY <1>3 DEF BeginFinish, MayCall
    <2> HIDE DEF x
    <2>3. x.op \notin EditOps
      BY <2>2 DEF EditOps
    <2>4. SessionsInv'
      BY <1>1, <2>1, <2>2, <2>3, SessionsKeptAtBegin
    <2> QED
      BY <2>2, <2>4 DEF Accounted, RowsStep
  <1>4. ASSUME NEW p \in Products, NEW op \in Edits, BeginEdit(t, p, op)
        PROVE  Accounted
    <2> DEFINE x == [op |-> op, p |-> p, prod |-> product[p]]
    <2>1. x \in EditTxn /\ x.op \in EditOps
      BY <1>1, <1>4, CatalogAssumption DEF BeginEdit, TypeOK, EditTxn, EditOps
    <2>2. /\ txn' = [txn EXCEPT ![t] = x] /\ UNCHANGED <<product, resv>>
          /\ ~Open(x.p, CallOps \cup EditOps) /\ x.prod = product[x.p]
      BY <1>4 DEF BeginEdit, CallOps
    <2> HIDE DEF x
    <2>3. x.op \notin CallOps
      BY <2>1 DEF EditOps, CallOps
    <2>4. x.op \notin {"release", "confirm"}
      BY <2>3 DEF CallOps
    <2>5. SessionsInv'
      BY <1>1, <2>1, <2>2, <2>3, <2>4, SessionsKeptAtBegin
    <2> QED
      BY <2>2, <2>5 DEF Accounted, RowsStep
  <1> QED
    BY <1>2, <1>3, <1>4

\* A call that writes its product and its reservation.
LEMMA CallAccounted ==
    ASSUME BooksInv, NEW t \in Sessions, txn[t].op \in CallOps,
           NEW p \in Products, NEW c \in Carts, p = txn[t].p, c = txn[t].c,
           NEW ps, NEW rs, EndTxn(t, ps, rs),
           (\E n \in Quantity : Reserves(p, c, n)) \/ Releases(p, c) \/ Confirms(p, c)
    PROVE  Accounted
  <1>1. Ended(t)
    BY EndIs DEF BooksInv, IInv
  <1>2. /\ \A q \in Products : q = p \/ product'[q] = product[q]
        /\ \A q \in Products, d \in Carts : (q = p /\ d = c) \/ resv'[q][d] = resv[q][d]
    <2>1. (\E prod : product' = [product EXCEPT ![p] = prod])
          /\ (\E row : resv' = [resv EXCEPT ![p][c] = row])
      BY DEF Reserves, Releases, Confirms
    <2> QED
      BY <2>1 DEF BooksInv, IInv, TypeOK
  <1>3. SessionsInv'
    BY <1>1, <1>2, SessionsKeptAtEnd DEF BooksInv, IInv
  <1> QED
    BY <1>3 DEF Accounted, RowsStep

LEMMA ReserveAccounted ==
    ASSUME BooksInv, NEW t \in Sessions, reserveStock(t)
    PROVE  Accounted
  <1>1. PICK x \in ReserveTxn : x = txn[t] /\ x.op = "reserve"
    BY TxnKinds DEF reserveStock, BooksInv, IInv
  <1>2. PICK p \in Products, c \in Carts, n \in Quantity : p = x.p /\ c = x.c /\ n = x.quantity
    BY <1>1 DEF ReserveTxn
  <1>3. /\ n \in Nat /\ product[p] \in Product /\ resv[p][c] \in StockReservation
    BY CatalogAssumption DEF Quantity, BooksInv, IInv, TypeOK
  <1>4. CASE Rollback(t)
    BY <1>1, <1>4, RollbackAccounted DEF CallOps
  <1>5. CASE /\ x.row.status = "ACTIVE" /\ ~x.stale
             /\ CanReserve(product[x.p], x.quantity - x.row.quantity)
             /\ Resize(t, x, x.quantity - x.row.quantity)
    <2>1. x.row = resv[p][c] /\ resv[p][c].status = "ACTIVE"
      BY <1>1, <1>2, <1>5 DEF BooksInv, IInv, SnapshotIsCurrent
    <2>2. PICK k \in Nat : k = resv[p][c].quantity /\ k = Units(resv[p][c])
      BY <1>3, <2>1 DEF StockReservation, Units
    <2>3. /\ product' = [product EXCEPT ![p] = AddReserved(@, n - k)]
          /\ resv' = [resv EXCEPT ![p][c] = [resv[p][c] EXCEPT !.quantity = n]]
          /\ EndTxn(t, {p}, {<<p, c>>})
      BY <1>2, <1>5, <2>1, <2>2 DEF Resize
    <2>4. product' = [product EXCEPT ![p].reservedStock = @ - Units(resv[p][c]) + n]
      <3>1. product[p].reservedStock \in Nat
        BY <1>3 DEF Product
      <3>2. product[p].reservedStock + (n - k) = product[p].reservedStock - k + n
        BY <1>3, <3>1
      <3> QED
        BY <2>2, <2>3, <3>2 DEF AddReserved
    <2>5. [resv[p][c] EXCEPT !.quantity = n] = [status |-> "ACTIVE", quantity |-> n]
      BY <1>3, <2>1 DEF StockReservation
    <2>6. product[p].reservedStock - Units(resv[p][c]) + n <= product[p].stock
      BY <1>2, <1>3, <1>5, <2>1, <2>2 DEF CanReserve, Product
    <2>7. Reserves(p, c, n)
      BY <2>1, <2>3, <2>4, <2>5, <2>6 DEF Reserves
    <2> QED
      BY <1>1, <1>2, <2>3, <2>7, CallAccounted DEF CallOps
  <1>6. CASE /\ x.row.status = "NONE" /\ ~x.stale
             /\ CanReserve(product[x.p], x.quantity)
             /\ Insert(t, x)
    <2>1. x.row = resv[p][c] /\ resv[p][c].status = "NONE" /\ Units(resv[p][c]) = 0
      BY <1>1, <1>2, <1>6 DEF BooksInv, IInv, SnapshotIsCurrent, Units
    <2>2. /\ product' = [product EXCEPT ![p] = AddReserved(@, n)]
          /\ resv' = [resv EXCEPT ![p][c] = [status |-> "ACTIVE", quantity |-> n]]
          /\ EndTxn(t, {p}, {<<p, c>>})
      BY <1>2, <1>6 DEF Insert
    <2>3. /\ product[p].reservedStock + n = product[p].reservedStock - Units(resv[p][c]) + n
          /\ product[p].reservedStock - Units(resv[p][c]) + n <= product[p].stock
      BY <1>2, <1>3, <1>6, <2>1 DEF CanReserve, Product
    <2>4. Reserves(p, c, n)
      BY <2>1, <2>2, <2>3 DEF Reserves, AddReserved
    <2> QED
      BY <1>1, <1>2, <2>2, <2>4, CallAccounted DEF CallOps
  <1> QED
    BY <1>1, <1>4, <1>5, <1>6 DEF reserveStock

\* What a call to release or confirm has read is there, and the counter covers it.
LEMMA FinishAccounted ==
    ASSUME BooksInv, NEW t \in Sessions, releaseStock(t) \/ confirmStock(t)
    PROVE  Accounted
  <1>1. PICK x \in FinishTxn : x = txn[t] /\ x.op \in {"release", "confirm"}
    BY TxnKinds DEF releaseStock, confirmStock, BooksInv, IInv
  <1>2. PICK p \in Products, c \in Carts : p = x.p /\ c = x.c
    BY <1>1 DEF FinishTxn
  <1>3. x.row = resv[p][c]
    BY <1>1, <1>2 DEF BooksInv, SessionsInv, RowsAreRead
  <1>4. /\ product[p] \in Product /\ resv[p][c] \in StockReservation
        /\ Units(resv[p][c]) <= product[p].reservedStock
    BY HeldOfOne DEF BooksInv, IInv, RowsInv
  <1>5. CASE Rollback(t)
    BY <1>1, <1>5, RollbackAccounted DEF CallOps
  <1>6. CASE releaseStock(t) /\ ~Rollback(t)
    <2>1. /\ resv[p][c].status = "ACTIVE"
          /\ product' = [product EXCEPT ![p] =
                           releaseReservation(product[p], resv[p][c].quantity)]
          /\ resv' = [resv EXCEPT ![p][c] = [resv[p][c] EXCEPT !.status = "RELEASED"]]
          /\ \E ps : EndTxn(t, ps, {<<p, c>>})
      BY <1>1, <1>2, <1>3, <1>6 DEF releaseStock
    <2>2. product[p].reservedStock >= resv[p][c].quantity
      BY <1>4, <2>1 DEF Units, Product, StockReservation
    <2>3. Releases(p, c)
      BY <2>1, <2>2 DEF Releases, releaseReservation
    <2> QED
      BY <1>1, <1>2, <2>1, <2>3, CallAccounted DEF CallOps
  <1>7. CASE confirmStock(t) /\ ~Rollback(t)
    <2>1. /\ resv[p][c].status = "ACTIVE" /\ CanDeduct(product[p], resv[p][c].quantity)
          /\ product' = [product EXCEPT ![p] = Deduct(@, resv[p][c].quantity)]
          /\ resv' = [resv EXCEPT ![p][c] = [resv[p][c] EXCEPT !.status = "CONFIRMED"]]
          /\ EndTxn(t, {p}, {<<p, c>>})
      BY <1>1, <1>2, <1>3, <1>7 DEF confirmStock
    <2>2. resv[p][c].quantity <= product[p].stock
      BY <1>4, <2>1 DEF CanDeduct, Product, StockReservation
    <2>3. Confirms(p, c)
      BY <2>1, <2>2 DEF Confirms
    <2> QED
      BY <1>1, <1>2, <2>1, <2>3, CallAccounted DEF CallOps
  <1> QED
    BY <1>5, <1>6, <1>7

\* A seller saves the entity as it is in the table, but for stock, status and isActive.
LEMMA SaveAccounted ==
    ASSUME BooksInv, NEW t \in Sessions, txn[t].op \in EditOps,
           NEW edited \in Product, edited.status # "NONE",
           edited.reservedStock = txn[t].prod.reservedStock, SaveProduct(t, edited)
    PROVE  Accounted
  <1>1. PICK x \in EditTxn : x = txn[t]
    BY TxnKinds DEF BooksInv, IInv
  <1>2. PICK p \in Products : p = x.p
    BY <1>1 DEF EditTxn
  <1>3. x.prod = product[p]
    BY <1>1, <1>2 DEF BooksInv, SessionsInv, EditsAreAlone
  <1>4. CASE Rollback(t)
    BY <1>4, RollbackAccounted
  <1>5. CASE ~Rollback(t)
    <2> DEFINE new == [edited EXCEPT !.version = @ + 1]
    <2>1. /\ new \in Product /\ new.status # "NONE"
          /\ new.reservedStock = product[p].reservedStock
          /\ new.stock = edited.stock
      BY <1>1, <1>3 DEF Product
    <2>2. /\ product' = [product EXCEPT ![p] = new]
          /\ RowChecks(edited)
          /\ EndTxn(t, {p}, {}) /\ UNCHANGED resv
      BY <1>1, <1>2, <1>5 DEF SaveProduct
    <2>3. RowChecks(new)
      BY <2>2 DEF RowChecks, Product
    <2>4. Open(p, EditOps)
      BY <1>1, <1>2 DEF Open
    <2> HIDE DEF new
    <2>5. Recounts(p)
      BY <2>1, <2>2, <2>3, <2>4 DEF Recounts
    <2>6. Ended(t)
      BY <2>2, EndIs DEF BooksInv, IInv
    <2>7. \A q \in Products : q = txn[t].p \/ product'[q] = product[q]
      BY <1>1, <1>2, <2>2 DEF BooksInv, IInv, TypeOK
    <2>8. SessionsInv'
      BY <2>2, <2>6, <2>7, SessionsKeptAtEnd DEF BooksInv, IInv
    <2> QED
      BY <2>5, <2>8 DEF Accounted, RowsStep
  <1> QED
    BY <1>4, <1>5

LEMMA SellerAccounted ==
    ASSUME BooksInv, SingleFlight, EditsAlone, NEW t \in Sessions, SellerCalls(t)
    PROVE  Accounted
  <1>1. CASE \E p \in Products, op \in Edits : BeginEdit(t, p, op)
    BY <1>1, BeginAccounted
  <1>2. ASSUME txn[t].op \in EditOps
        PROVE  txn[t].prod \in Product /\ txn[t].prod.status # "NONE"
    BY <1>2, TxnKinds DEF BooksInv, IInv, EditTxn
  <1>3. ASSUME NEW n \in 0..MaxStock, NEW s \in EditStatuses, updateProduct(t, n, s)
        PROVE  Accounted
    <2> DEFINE edited == [txn[t].prod EXCEPT !.stock = n, !.status = s]
    <2>1. txn[t].op \in EditOps /\ SaveProduct(t, edited)
      BY <1>3 DEF updateProduct, EditOps
    <2>2. n \in Nat /\ s \in ProductStatus /\ s # "NONE"
      BY CatalogAssumption DEF ProductStatus
    <2>3. /\ edited \in Product /\ edited.status # "NONE"
          /\ edited.reservedStock = txn[t].prod.reservedStock
      BY <1>2, <2>1, <2>2 DEF Product
    <2> HIDE DEF edited
    <2> QED
      BY <2>1, <2>3, SaveAccounted
  <1>4. CASE deleteProduct(t)
    <2> DEFINE edited == [txn[t].prod EXCEPT !.isActive = FALSE, !.status = "ARCHIVED"]
    <2>1. txn[t].op \in EditOps /\ SaveProduct(t, edited)
      BY <1>4 DEF deleteProduct, EditOps
    <2>2. /\ edited \in Product /\ edited.status # "NONE"
          /\ edited.reservedStock = txn[t].prod.reservedStock
      BY <1>2, <2>1 DEF Product, ProductStatus
    <2> HIDE DEF edited
    <2> QED
      BY <2>1, <2>2, SaveAccounted
  <1>5. ASSUME NEW n \in 0..MaxStock, adjustStock(t, n)
        PROVE  Accounted
    <2> DEFINE edited == [txn[t].prod EXCEPT !.stock = n]
    <2>1. txn[t].op \in EditOps /\ SaveProduct(t, edited)
      BY <1>5 DEF adjustStock, EditOps
    <2>2. /\ edited \in Product /\ edited.status # "NONE"
          /\ edited.reservedStock = txn[t].prod.reservedStock
      BY <1>2, <2>1, CatalogAssumption DEF Product
    <2> HIDE DEF edited
    <2> QED
      BY <2>1, <2>2, SaveAccounted
  <1> QED
    BY <1>1, <1>3, <1>4, <1>5 DEF SellerCalls

\* A product that is created replaces the row that is not there.
LEMMA CreateAccounted ==
    ASSUME BooksInv, NEW p \in Products, NEW n \in 0..MaxStock, NEW s \in EditStatuses,
           createProduct(p, n, s)
    PROVE  Accounted
  <1> DEFINE new == [stock |-> n, reservedStock |-> 0, status |-> s,
                     isActive |-> TRUE, version |-> 0]
  <1>1. n \in Nat /\ s \in ProductStatus
    BY CatalogAssumption
  <1>2. product[p] = NoProduct
    BY DEF createProduct, BooksInv, RowsInv, ProductsAreChecked
  <1>3. /\ new \in Product /\ new.status # "NONE"
        /\ new.reservedStock = product[p].reservedStock
        /\ ~(new.stock < product[p].stock)
    BY <1>1, <1>2 DEF Product, ProductStatus, NoProduct
  <1>4. RowChecks(new)
    BY <1>1 DEF RowChecks
  <1>5. product' = [product EXCEPT ![p] = new] /\ UNCHANGED <<resv, txn>>
    BY DEF createProduct
  <1> HIDE DEF new
  <1>6. Recounts(p)
    BY <1>3, <1>4, <1>5 DEF Recounts
  <1>7. \A t \in Sessions : txn[t].op \in EditOps => txn[t].p # p
    <2> SUFFICES ASSUME NEW t \in Sessions, txn[t].op \in EditOps, txn[t].p = p
                 PROVE  FALSE
      OBVIOUS
    <2>1. txn[t] \in EditTxn /\ txn[t].prod = product[p]
      BY TxnKinds DEF BooksInv, IInv, SessionsInv, EditsAreAlone
    <2> QED
      BY <1>2, <2>1 DEF EditTxn, NoProduct
  <1>8. \A q \in Products : q # p => product'[q] = product[q]
    BY <1>5 DEF BooksInv, IInv, TypeOK
  <1>9. \A t \in Sessions : txn[t].op \in EditOps => txn[t].p \in Products
    BY TxnKinds DEF BooksInv, IInv, EditTxn
  <1>10. SessionsInv'
    BY <1>5, <1>7, <1>8, <1>9 DEF BooksInv, SessionsInv, CallsAreAlone, RowsAreRead, EditsAreAlone
  <1> QED
    BY <1>6, <1>10 DEF Accounted, RowsStep

LEMMA StepAccounted ==
    ASSUME BooksInv, SingleFlight, EditsAlone, ~ExpiryJob, [Next]_vars
    PROVE  Accounted
  <1>1. CASE UNCHANGED vars
    <2>1. UNCHANGED <<product, resv, txn>>
      BY <1>1 DEF vars
    <2>2. SessionsInv'
      BY <2>1 DEF BooksInv, SessionsInv, CallsAreAlone, RowsAreRead, EditsAreAlone
    <2> QED
      BY <2>1, <2>2 DEF Accounted, RowsStep
  <1>2. ASSUME NEW t \in Sessions, ReservationCalls(t)
        PROVE  Accounted
    BY <1>2, BeginAccounted, ReserveAccounted, FinishAccounted DEF ReservationCalls
  <1>3. ASSUME NEW t \in Sessions, SellerCalls(t)
        PROVE  Accounted
    BY <1>3, SellerAccounted
  <1>4. ASSUME NEW p \in Products, NEW n \in 0..MaxStock, NEW s \in EditStatuses,
               createProduct(p, n, s)
        PROVE  Accounted
    BY <1>4, CreateAccounted
  <1> QED
    BY <1>1, <1>2, <1>3, <1>4 DEF Next, TimePasses, expire_reservations

-----------------------------------------------------------------------------
(* What the inventory promises *)

LEMMA BooksInit == Init => BooksInv
  <1> SUFFICES ASSUME Init
               PROVE  BooksInv
    OBVIOUS
  <1>1. IInv
    BY InitIInv
  <1>2. SessionsInv
    BY DEF Init, Idle, SessionsInv, CallsAreAlone, RowsAreRead, EditsAreAlone, CallOps, EditOps
  <1>3. ProductsAreChecked
    BY DEF Init, ProductsAreChecked, RowChecks, NoProduct, NoReservation
  <1>4. Counted
    <2> SUFFICES ASSUME NEW p \in Products
                 PROVE  product[p].reservedStock = SumOver(HeldAt(p), Carts)
      BY DEF Counted
    <2>1. TypeOK
      BY <1>1 DEF IInv
    <2>2. \A c \in Carts : HeldAt(p)[c] = 0
      BY DEF Init, HeldAt, Units, NoReservation
    <2>3. SumOver(HeldAt(p), Carts) = SumOver(HeldAt(p), {})
      BY <2>1, <2>2, HeldFacts, SumWhere
    <2> QED
      BY <2>3, SumEmpty DEF Init, NoProduct
  <1> QED
    BY <1>1, <1>2, <1>3, <1>4 DEF BooksInv, RowsInv

LEMMA BooksNext ==
    ASSUME SingleFlight, EditsAlone, ~ExpiryJob
    PROVE  BooksInv /\ [Next]_vars => BooksInv' /\ RowsStep
  BY NextIInv, StepAccounted, RowsKept DEF BooksInv, IInv, Accounted

LEMMA BooksInvariance ==
    ASSUME SingleFlight, EditsAlone, ~ExpiryJob
    PROVE  Spec => []BooksInv
  BY BooksInit, BooksNext, PTL DEF Spec

\* While callers have one call per reservation in flight, and none about a product that is
\* edited: reserved_stock is the sum of the ACTIVE reservations.
THEOREM BooksBalance ==
    ASSUME SingleFlight, EditsAlone, ~ExpiryJob
    PROVE  Spec => []ReservedIsSumOfActive
  <1>1. BooksInv => ReservedIsSumOfActive
    BY QuantityIsHeld DEF BooksInv, IInv, RowsInv, Counted, ReservedIsSumOfActive
  <1> QED
    BY <1>1, BooksInvariance, PTL

\* ... and the units promised to carts are in stock.
THEOREM PromisesAreKept ==
    ASSUME SingleFlight, EditsAlone, ~ExpiryJob
    PROVE  Spec => []NoDoubleBooking
  <1>1. BooksInv => NoDoubleBooking
    BY QuantityIsHeld DEF BooksInv, IInv, RowsInv, Counted, ProductsAreChecked, RowChecks,
                          NoDoubleBooking
  <1> QED
    BY <1>1, BooksInvariance, PTL

\* A call leaves every other product and every other reservation alone.
OthersKept(p, c) ==
    /\ \A q \in Products : q # p => product'[q] = product[q]
    /\ \A q \in Products, d \in Carts : q # p \/ d # c => resv'[q][d] = resv[q][d]

LEMMA OthersAreKept ==
    ASSUME BooksInv, NEW p \in Products, NEW c \in Carts, NEW prod, NEW row,
           product' = [product EXCEPT ![p] = prod], resv' = [resv EXCEPT ![p][c] = row]
    PROVE  OthersKept(p, c) /\ product'[p] = prod /\ resv'[p][c] = row
  BY DEF BooksInv, IInv, TypeOK, OthersKept

LEMMA RowTypes ==
    ASSUME BooksInv, NEW p \in Products
    PROVE  /\ product[p].stock \in Nat /\ product[p].reservedStock \in Nat
           /\ \A c \in Carts : resv[p][c].quantity \in Nat
           /\ product[p] \in Product
           /\ \A c \in Carts : resv[p][c] \in StockReservation
  BY DEF BooksInv, IInv, TypeOK, Product, StockReservation

LEMMA ReservesColumns ==
    ASSUME BooksInv, NEW p \in Products, NEW c \in Carts, NEW n \in Quantity, Reserves(p, c, n)
    PROVE  /\ OthersKept(p, c)
           /\ product'[p].stock = product[p].stock
           /\ product'[p].reservedStock = product[p].reservedStock - Units(resv[p][c]) + n
           /\ resv'[p][c] = [status |-> "ACTIVE", quantity |-> n]
  <1> DEFINE prod == [product[p] EXCEPT !.reservedStock = @ - Units(resv[p][c]) + n]
             row == [status |-> "ACTIVE", quantity |-> n]
  <1>1. OthersKept(p, c) /\ product'[p] = prod /\ resv'[p][c] = row
    <2>1. product' = [product EXCEPT ![p] = prod] /\ resv' = [resv EXCEPT ![p][c] = row]
      BY DEF Reserves
    <2> HIDE DEF prod, row
    <2> QED
      BY <2>1, OthersAreKept
  <1> QED
    BY <1>1, RowTypes DEF Product

LEMMA ReleasesColumns ==
    ASSUME BooksInv, NEW p \in Products, NEW c \in Carts, Releases(p, c)
    PROVE  /\ OthersKept(p, c)
           /\ product'[p].stock = product[p].stock
           /\ product'[p].reservedStock = product[p].reservedStock - resv[p][c].quantity
           /\ resv'[p][c].status = "RELEASED"
  <1> DEFINE prod == [product[p] EXCEPT !.reservedStock = @ - resv[p][c].quantity]
             row == [resv[p][c] EXCEPT !.status = "RELEASED"]
  <1>1. OthersKept(p, c) /\ product'[p] = prod /\ resv'[p][c] = row
    <2>1. product' = [product EXCEPT ![p] = prod] /\ resv' = [resv EXCEPT ![p][c] = row]
      BY DEF Releases
    <2> HIDE DEF prod, row
    <2> QED
      BY <2>1, OthersAreKept
  <1> QED
    BY <1>1, RowTypes DEF Product, StockReservation

LEMMA ConfirmsColumns ==
    ASSUME BooksInv, NEW p \in Products, NEW c \in Carts, Confirms(p, c)
    PROVE  /\ OthersKept(p, c)
           /\ product'[p].stock = product[p].stock - resv[p][c].quantity
           /\ product'[p].reservedStock = product[p].reservedStock - resv[p][c].quantity
           /\ resv'[p][c].status = "CONFIRMED"
  <1> DEFINE prod == Deduct(product[p], resv[p][c].quantity)
             row == [resv[p][c] EXCEPT !.status = "CONFIRMED"]
  <1>1. OthersKept(p, c) /\ product'[p] = prod /\ resv'[p][c] = row
    BY OthersAreKept DEF Confirms
  <1> QED
    BY <1>1, RowTypes DEF Deduct, Product, StockReservation

\* Units leave the stock by a seller's count or by the one confirmation of a reservation.
SoldStep ==
    \A p \in Products :
      /\ product'[p].stock < product[p].stock
           => \/ Open(p, EditOps)
              \/ \E c \in Carts :
                   /\ resv[p][c].status = "ACTIVE" /\ resv'[p][c].status = "CONFIRMED"
                   /\ product[p].stock - product'[p].stock = resv[p][c].quantity
      /\ \A c \in Carts : resv[p][c].status = "CONFIRMED" => resv'[p][c] = resv[p][c]

\* Units return to sale when an ACTIVE reservation shrinks or ends.
ReturnStep ==
    \A p \in Products :
      product'[p].reservedStock < product[p].reservedStock
        => \E c \in Carts :
             /\ resv[p][c].status = "ACTIVE"
             /\ \/ resv'[p][c].status # "ACTIVE"
                \/ resv'[p][c].quantity < resv[p][c].quantity

\* It is enough to look at the product and the reservation that a call writes.
LEMMA CallSellsAndReturns ==
    ASSUME BooksInv, NEW p \in Products, NEW c \in Carts, OthersKept(p, c),
           resv[p][c].status # "CONFIRMED",
           product'[p].stock < product[p].stock
             => /\ resv[p][c].status = "ACTIVE" /\ resv'[p][c].status = "CONFIRMED"
                /\ product[p].stock - product'[p].stock = resv[p][c].quantity,
           product'[p].reservedStock < product[p].reservedStock
             => /\ resv[p][c].status = "ACTIVE"
                /\ \/ resv'[p][c].status # "ACTIVE"
                   \/ resv'[p][c].quantity < resv[p][c].quantity
    PROVE  SoldStep /\ ReturnStep
  <1>1. ASSUME NEW q \in Products, q # p
        PROVE  /\ ~(product'[q].stock < product[q].stock)
               /\ ~(product'[q].reservedStock < product[q].reservedStock)
    BY <1>1, RowTypes DEF OthersKept
  <1>2. ASSUME NEW q \in Products, NEW d \in Carts, resv[q][d].status = "CONFIRMED"
        PROVE  resv'[q][d] = resv[q][d]
    BY <1>2 DEF OthersKept
  <1>3. SoldStep
    BY <1>1, <1>2 DEF SoldStep
  <1>4. ReturnStep
    BY <1>1 DEF ReturnStep
  <1> QED
    BY <1>3, <1>4

LEMMA StepsSellAndReturn ==
    ASSUME BooksInv, RowsStep
    PROVE  SoldStep /\ ReturnStep
  <1>1. CASE UNCHANGED <<product, resv>>
    BY <1>1, RowTypes DEF SoldStep, ReturnStep
  <1>2. ASSUME NEW p \in Products, Recounts(p)
        PROVE  SoldStep /\ ReturnStep
    <2>1. PICK new \in Product :
            /\ new.reservedStock = product[p].reservedStock
            /\ new.stock < product[p].stock => Open(p, EditOps)
            /\ \A q \in Products : product'[q] = IF q = p THEN new ELSE product[q]
      BY <1>2 DEF Recounts, BooksInv, IInv, TypeOK
    <2>2. UNCHANGED resv
      BY <1>2 DEF Recounts
    <2>3. ASSUME NEW q \in Products
          PROVE  /\ product'[q].stock < product[q].stock => Open(q, EditOps)
                 /\ ~(product'[q].reservedStock < product[q].reservedStock)
      <3>1. CASE q = p
        BY <2>1, <3>1, RowTypes
      <3>2. CASE q # p
        <4>1. product'[q] = product[q]
          BY <2>1, <3>2
        <4> QED
          BY <4>1, RowTypes
      <3> QED
        BY <3>1, <3>2
    <2>4. SoldStep
      BY <2>2, <2>3 DEF SoldStep
    <2>5. ReturnStep
      BY <2>3 DEF ReturnStep
    <2> QED
      BY <2>4, <2>5
  <1>3. ASSUME NEW p \in Products, NEW c \in Carts, NEW n \in Quantity, Reserves(p, c, n)
        PROVE  SoldStep /\ ReturnStep
    <2>1. n \in Nat
      BY CatalogAssumption DEF Quantity
    <2>2. /\ OthersKept(p, c) /\ resv[p][c].status # "CONFIRMED"
          /\ product'[p].stock = product[p].stock
          /\ product'[p].reservedStock = product[p].reservedStock - Units(resv[p][c]) + n
          /\ resv'[p][c].quantity = n
      <3>1. resv'[p][c] = [status |-> "ACTIVE", quantity |-> n]
        BY <1>3, ReservesColumns
      <3>2. resv[p][c].status # "CONFIRMED"
        BY <1>3 DEF Reserves
      <3>3. /\ OthersKept(p, c)
            /\ product'[p].stock = product[p].stock
            /\ product'[p].reservedStock = product[p].reservedStock - Units(resv[p][c]) + n
        BY <1>3, ReservesColumns
      <3> QED
        BY <3>1, <3>2, <3>3
    <2>3. /\ ~(product'[p].stock < product[p].stock)
          /\ product'[p].reservedStock < product[p].reservedStock
               => resv[p][c].status = "ACTIVE" /\ resv'[p][c].quantity < resv[p][c].quantity
      BY <2>1, <2>2, RowTypes DEF Units
    <2> QED
      BY <2>2, <2>3, CallSellsAndReturns
  <1>4. ASSUME NEW p \in Products, NEW c \in Carts, Releases(p, c)
        PROVE  SoldStep /\ ReturnStep
    <2>1. /\ OthersKept(p, c) /\ resv[p][c].status = "ACTIVE"
          /\ product'[p].stock = product[p].stock
          /\ resv'[p][c].status = "RELEASED"
      BY <1>4, ReleasesColumns DEF Releases
    <2>2. ~(product'[p].stock < product[p].stock)
      BY <2>1, RowTypes
    <2> QED
      BY <2>1, <2>2, CallSellsAndReturns
  <1>5. ASSUME NEW p \in Products, NEW c \in Carts, Confirms(p, c)
        PROVE  SoldStep /\ ReturnStep
    <2>1. /\ OthersKept(p, c) /\ resv[p][c].status = "ACTIVE"
          /\ product'[p].stock = product[p].stock - resv[p][c].quantity
          /\ resv'[p][c].status = "CONFIRMED"
      BY <1>5, ConfirmsColumns DEF Confirms
    <2>2. product[p].stock - product'[p].stock = resv[p][c].quantity
      BY <2>1, RowTypes
    <2> QED
      BY <2>1, <2>2, CallSellsAndReturns
  <1> QED
    BY <1>1, <1>2, <1>3, <1>4, <1>5 DEF RowsStep

\* No unit is sold twice, and a sale is final, whatever call comes late.
THEOREM SalesAreFinal ==
    ASSUME SingleFlight, EditsAlone, ~ExpiryJob
    PROVE  Spec => SoldIsConfirmed
  <1>1. BooksInv /\ [Next]_vars => [SoldStep]_vars
    BY BooksNext, StepsSellAndReturn
  <1> QED
    BY <1>1, BooksInvariance, PTL DEF Spec, SoldIsConfirmed, SoldStep

\* No unit returns to sale twice.
THEOREM ReturnsAreFinal ==
    ASSUME SingleFlight, EditsAlone, ~ExpiryJob
    PROVE  Spec => ReturnedOnce
  <1>1. BooksInv /\ [Next]_vars => [ReturnStep]_vars
    BY BooksNext, StepsSellAndReturn
  <1> QED
    BY <1>1, BooksInvariance, PTL DEF Spec, ReturnedOnce, ReturnStep

-----------------------------------------------------------------------------
(* The ledger *)

\* StockLedger's variables in the states of CatalogStock, as Ledger substitutes them.
LedgerStock == [p \in Products |-> product[p].stock]
LedgerHeld == [p \in Products |-> [c \in Carts |->
                 IF resv[p][c].status = "ACTIVE" THEN resv[p][c].quantity ELSE 0]]

LEMMA LedgerSum ==
    ASSUME TypeOK, NEW p \in Products
    PROVE  /\ Ledger!Held(p) = SumOver(HeldAt(p), Carts)
           /\ LedgerHeld[p] = HeldAt(p)
  <1> DEFINE Recurs(g) ==
               g = [s \in SUBSET Carts |->
                      IF s = {} THEN 0 ELSE LedgerHeld[p][Pick(s)] + g[s \ {Pick(s)}]]
             k == CHOOSE g : Recurs(g)
  <1>1. Ledger!Held(p) = k[Carts]
    <2>1. Ledger!Held(p) = Ledger!MapThenSumSet(LAMBDA c : LedgerHeld[p][c], Carts)
      BY DEF Ledger!Held, LedgerHeld
    <2> QED
      BY <2>1 DEF Ledger!MapThenSumSet, Ledger!MapThenFoldSet, Pick
  <1>2. LedgerHeld[p] = HeldAt(p)
    BY DEF LedgerHeld, HeldAt, Units
  <1>3. \A g : Recurs(g) <=> Sums(g, HeldAt(p), Carts)
    BY <1>2 DEF Sums
  <1> HIDE DEF Recurs
  <1>4. IsFiniteSet(Carts)
    BY HeldFacts
  <1>5. Recurs(k)
    BY <1>3, <1>4, SumsExist
  <1>6. SumOver(HeldAt(p), Carts) = k[Carts]
    BY <1>3, <1>4, <1>5, SumIsFunction
  <1> QED
    BY <1>1, <1>2, <1>6

LEMMA LedgerHeldIs ==
    ASSUME NEW p \in Products, NEW c \in Carts, OthersKept(p, c), NEW n, Units(resv'[p][c]) = n
    PROVE  LedgerHeld' = [LedgerHeld EXCEPT ![p][c] = n]
  <1>1. LedgerHeld = [q \in Products |-> [d \in Carts |-> Units(resv[q][d])]]
    BY DEF LedgerHeld, Units
  <1>2. LedgerHeld' = [q \in Products |-> [d \in Carts |-> Units(resv'[q][d])]]
    BY DEF LedgerHeld, Units
  <1>3. \A q \in Products : [d \in Carts |-> Units(resv'[q][d])]
          = IF q = p THEN [LedgerHeld[p] EXCEPT ![c] = n] ELSE LedgerHeld[q]
    BY <1>1 DEF OthersKept
  <1>4. LedgerHeld' = [q \in Products |-> IF q = p THEN [LedgerHeld[p] EXCEPT ![c] = n]
                                          ELSE LedgerHeld[q]]
    BY <1>2, <1>3
  <1> QED
    BY <1>1, <1>4

LEMMA LedgerNext ==
    ASSUME BooksInv, BooksInv', RowsStep
    PROVE  Ledger!Next \/ UNCHANGED Ledger!vars
  <1>1. /\ product \in [Products -> Product] /\ product' \in [Products -> Product]
        /\ resv \in [Products -> [Carts -> StockReservation]]
        /\ resv' \in [Products -> [Carts -> StockReservation]]
    BY DEF BooksInv, IInv, TypeOK
  <1>2. CASE UNCHANGED <<product, resv>>
    BY <1>2 DEF Ledger!vars
  <1>3. ASSUME NEW p \in Products, Recounts(p)
        PROVE  Ledger!Count(p)
    <2>1. PICK new \in Product :
            /\ new.reservedStock = product[p].reservedStock
            /\ RowChecks(new)
            /\ \A q \in Products : product'[q] = IF q = p THEN new ELSE product[q]
      BY <1>1, <1>3 DEF Recounts
    <2>2. UNCHANGED LedgerHeld
      BY <1>3 DEF Recounts, LedgerHeld
    <2>3. Ledger!Held(p) = product[p].reservedStock
      BY LedgerSum DEF BooksInv, IInv, RowsInv, Counted
    <2>4. LedgerStock'[p] = new.stock /\ new.stock \in Nat /\ new.stock >= Ledger!Held(p)
      BY <2>1, <2>3 DEF LedgerStock, RowChecks, Product
    <2>5. LedgerStock' = [LedgerStock EXCEPT ![p] = LedgerStock'[p]]
      BY <2>1 DEF LedgerStock
    <2> QED
      BY <2>2, <2>4, <2>5 DEF Ledger!Count, LedgerStock, LedgerHeld
  <1>4. ASSUME NEW p \in Products, NEW c \in Carts, NEW n \in Quantity, Reserves(p, c, n)
        PROVE  Ledger!Hold(p, c, n) /\ n \in 1..LedgerStock[p]
    <2>1. /\ \A q \in Products : product'[q].stock = product[q].stock
          /\ resv'[p][c] = [status |-> "ACTIVE", quantity |-> n]
          /\ OthersKept(p, c)
      BY <1>4, ReservesColumns DEF OthersKept
    <2>2. UNCHANGED LedgerStock
      BY <2>1 DEF LedgerStock
    <2>3. LedgerHeld' = [LedgerHeld EXCEPT ![p][c] = n]
      <3>1. Units(resv'[p][c]) = n
        BY <2>1 DEF Units
      <3> QED
        BY <2>1, <3>1, LedgerHeldIs
    <2>4. LedgerHeld[p][c] = Units(resv[p][c]) /\ LedgerStock[p] = product[p].stock
      BY DEF LedgerHeld, Units, LedgerStock
    <2>5. Ledger!Held(p) = product[p].reservedStock
      BY LedgerSum DEF BooksInv, IInv, RowsInv, Counted
    <2>6. /\ product[p].reservedStock \in Nat /\ Units(resv[p][c]) \in Nat
          /\ product[p].stock \in Nat /\ Units(resv[p][c]) <= product[p].reservedStock
      BY HeldOfOne DEF BooksInv, IInv, RowsInv, Product
    <2>7. n \in Nat /\ n >= 1
      BY CatalogAssumption DEF Quantity
    <2>8. product[p].reservedStock - Units(resv[p][c]) + n <= product[p].stock
      BY <1>4 DEF Reserves
    <2>9. n \in 1..LedgerStock[p]
      BY <2>4, <2>6, <2>7, <2>8
    <2>10. Ledger!Held(p) - LedgerHeld[p][c] + n <= LedgerStock[p]
      BY <2>4, <2>5, <2>8
    <2> QED
      BY <2>2, <2>3, <2>9, <2>10 DEF Ledger!Hold, LedgerStock, LedgerHeld
  <1>5. ASSUME NEW p \in Products, NEW c \in Carts, Releases(p, c)
        PROVE  Ledger!Drop(p, c)
    <2>1. /\ \A q \in Products : product'[q].stock = product[q].stock
          /\ resv'[p][c].status = "RELEASED"
          /\ OthersKept(p, c)
      BY <1>5, ReleasesColumns DEF OthersKept
    <2>2. UNCHANGED LedgerStock
      BY <2>1 DEF LedgerStock
    <2>3. LedgerHeld' = [LedgerHeld EXCEPT ![p][c] = 0]
      <3>1. Units(resv'[p][c]) = 0
        BY <2>1 DEF Units
      <3> QED
        BY <2>1, <3>1, LedgerHeldIs
    <2> QED
      BY <2>2, <2>3 DEF Ledger!Drop, LedgerStock, LedgerHeld
  <1>6. ASSUME NEW p \in Products, NEW c \in Carts, Confirms(p, c)
        PROVE  Ledger!Consume(p, c)
    <2>1. /\ product'[p].stock = product[p].stock - resv[p][c].quantity
          /\ \A q \in Products : q # p => product'[q] = product[q]
          /\ resv[p][c].status = "ACTIVE" /\ resv'[p][c].status = "CONFIRMED"
          /\ OthersKept(p, c)
      BY <1>6, ConfirmsColumns DEF Confirms, OthersKept
    <2>2. LedgerStock' = [LedgerStock EXCEPT ![p] = @ - LedgerHeld[p][c]]
      BY <2>1 DEF LedgerStock, LedgerHeld
    <2>3. LedgerHeld' = [LedgerHeld EXCEPT ![p][c] = 0]
      <3>1. Units(resv'[p][c]) = 0
        BY <2>1 DEF Units
      <3> QED
        BY <2>1, <3>1, LedgerHeldIs
    <2> QED
      BY <2>2, <2>3 DEF Ledger!Consume, LedgerStock, LedgerHeld
  <1> QED
    BY <1>2, <1>3, <1>4, <1>5, <1>6 DEF RowsStep, Ledger!Next, LedgerStock

\* The reserved counter and the table of reservations implement the ledger of units held
\* and sold.
THEOREM LedgerImplemented ==
    ASSUME SingleFlight, EditsAlone, ~ExpiryJob
    PROVE  Spec => ImplementsLedger
  <1>1. Init => Ledger!Init
    BY DEF Init, Ledger!Init, NoProduct, NoReservation
  <1>2. BooksInv /\ [Next]_vars => [Ledger!Next]_(Ledger!vars)
    BY BooksNext, LedgerNext
  <1> QED
    BY <1>1, <1>2, BooksInvariance, PTL DEF Spec, ImplementsLedger, Ledger!Spec
=============================================================================
