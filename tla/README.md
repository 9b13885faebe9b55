# A TLA+ development for the e-commerce microservices

This directory holds TLA+ models of the services in this repository, the TLC
configurations that model-check them on small instances, and theorems about them
that TLAPS proves for every value of the constants.

Run everything from this directory:

    tlc -config catalog_stock.cfg MCCatalogStock.tla     # one run of PROJECT.json
    tlapm CatalogStockProofs.tla                         # the proofs of one component

`PROJECT.json` lists components, runs, hazards, findings and theorems, and maps every
definition to the lines of code it models. A definition named `Bug...` is a mutant: the
code with a plausible bug. Replacing the definition below it by the mutant must make
TLC report the property that PROJECT.json names; this guards each property against
being true of anything.

## 1. The system

Twenty-two services behind an API gateway, each with its own schema in one PostgreSQL,
some with Redis, and Kafka for events. Services call one another over HTTP and publish
events without waiting for their consumers.

| Service | State it keeps | Operations that change it | Calls / is called by | What makes it hard |
|---|---|---|---|---|
| catalog-service (Java) | products with `stock`, `reserved_stock`, `version`; one reservation per product and cart | create, update, delete, adjust (seller); reserve, release, confirm (internal); SQL job `expire_reservations` | called by order-service | JPA saves of whole rows against native UPDATEs; SERIALIZABLE only in reserve |
| order-service (Go) | carts, orders with `version` | cart edits; Checkout; CancelOrder; UpdatePaymentStatus | calls catalog; called by payment; publishes `order.*` | a saga with retries and compensations, in the context of the request |
| payment-service (Go) | payments, refunds, withdrawals, with `version` | CreatePayment, Midtrans webhook, RefundPayment; RequestWithdrawal, ApproveWithdrawal | calls the gateways and order-service; publishes `payment.*` | checks on rows read before the transaction, webhooks at any time, goroutines |
| flashsale-service (Go) | Redis: queue, members, stock, purchases, tokens; SQL: sales, items | JoinQueue, AttemptBuy, administration | by clients | several Redis commands per request, keys that expire |
| auth-service (Python) | users with role, ban, MFA, `version`; refresh tokens; reset tokens | register, login, refresh, logout, profile, password change and reset, MFA, role and ban (admin) | publishes audit events | an exception rolls the session back; rows read before the UPDATE that names their version |
| coupon-service (Python) | coupons with a usage counter, redemptions | create, deactivate, validate, apply | by clients | validate and apply are separate calls, counter written back |
| loyalty-service (Python) | members, point transactions, rewards, vouchers | join, earn, redeem | by clients and order-service | three rows written back as computed in Python |
| dispute-service (Python) | disputes, messages | open, seller response, escalate, message, resolve | by clients | a life cycle tested on loaded rows |
| review-service (Python) | reviews with counters, votes | create, update, delete, vote, moderate | by clients | a trigger and Python keep one counter |
| address-service (Python) | addresses, one of them primary | create, update, delete, set primary | by clients | uniqueness by reading first; a deletion that commits twice |
| wishlist-service (Python) | lists, items, alerts | get (creates), add, update, remove; price update (internal) | by clients | get-or-create without a constraint |
| seller-service (Python) | profiles with score and badge | edit; verify, suspend (admin) | by clients | owner and administrators save one row |
| fraud-service (Python) | blocked addresses, flags | check (internal); block, unblock (admin) | by other services | upserts, the clock, two paths that raise |
| search-service (Python) | an Elasticsearch index, a Redis cache | index, bulk, delete, product events | by clients | the cache against an index that shows writes late |
| audit-service (Python) | audit log as hash chain, error log, Kafka offsets | consume, verify (read) | consumes all events | replicas, crashes, events out of order, swallowed errors |
| api-gateway (Go) | token buckets in Redis | every request | all services | clocks of several gateways, failure of Redis |
| chat-service (Go) | connected clients and their channels, conversations, messages | connect, join, leave, post, disconnect | by clients | one goroutine closes channels that two others use |
| shipping-service (Go) | shipments | create, webhook | by nobody | nothing holds its statuses to an order (section 7) |
| notification-, recommendation-, analytics-, admin-service (Python) | none, or mock data | queries | | nothing (section 7) |

What makes each component correct, in a phrase:

- **catalog**: `reserved_stock` equals the ACTIVE reservations, units are promised once, a
  finished reservation stays finished, a sale is final and exact.
- **orders**: an order follows its life cycle under any race; a PENDING order owns its
  units; a saga that failed, and an order that was cancelled or paid, hold nothing.
- **payments**: refunds neither get lost nor go unrecorded, they take money that is
  there, and statuses follow the table; every payment gets an outcome.
- **withdrawals**: a decision stands and events tell it.
- **flash sale**: never oversold, the books never ahead of the sales, one buyer at the front.
- **sessions**: an open session is never older than the password or a ban; a refresh token has one
  successor, a reset link works once, MFA is on only after a proof.
- **small services**: what was read and written back by two requests may lose updates, but makes no
  points, uses, votes or verdicts out of nothing, and what administrators close stays closed;
  without a race the books are exact.
- **audit**: what a committed offset covers was stored or logged as failed; the chain verifies.
- **search**: a cached answer is the present one, unless the races that the code leaves open happened.
- **rate limiter**: no interval gets more than rate and burst allow, and nothing that fits is refused.
- **chat hub**: no channel is closed twice or used after its close, goroutines of connections that were
  replaced end, and every peer sees one order of messages.

## 2. Modules

| Module | Models | Refines / is extended by |
|---|---|---|
| `StockLedger` | what catalog-service promises its callers: units held per cart, sold once | abstract |
| `CatalogStock` | `ProductService`, `ProductRepository`, `catalog_schema.sql` | implements `StockLedger`; `MCCatalogStock`, `CatalogStockProofs` |
| `OrderLifecycle` | `OrderStatus`, `ValidTransitions` | abstract |
| `OrderService` | `order_service.go` with its HTTP handlers, catalog-service as seen through its replies | implements `OrderLifecycle`; `MCOrderService`, `OrderServiceProofs` |
| `PaymentService` | payments, webhook and refunds of `payment_service.go`; gateway and order-service as seen from it | `MCPaymentService`, `PaymentServiceProofs` |
| `Withdrawals` | withdrawals of `payment_service.go` | `MCWithdrawals`, `WithdrawalsProofs` |
| `FlashSale` | `flashsale-service/internal/handler/handler.go` | `MCFlashSale`, `FlashSaleProofs` |
| `DbSessions` | what a SQLAlchemy session does with a row: the base of the modules below | |
| `RateLimiter` | `ratelimit.go` of api-gateway, with its Lua script | `MCWithdrawals`, `WithdrawalsProofs` |
| `AuthSessions` | `auth_service.py`, `user_repository.py`, `database.py` | `MCAccess`, `UserServicesProofs` |
| `ChatHub` | `hub.go`, `handler.go` of chat-service | `MCAccess`, `UserServicesProofs` |
| `Coupons`, `Loyalty`, `Disputes`, `Addresses`, `Sellers` | `app/main.py` of the service | `MCShopServices`, `ShopServicesProofs` |
| `Reviews`, `Wishlists`, `Fraud` | `review_service.py` of review-service, `app/main.py` of the other two | `MCShopServices`, `UserServicesProofs` |
| `AuditTrail` | both consumers of audit-service, `audit_ingest.py`, `verify_chain` | `MCShopServices`, `ShopServicesProofs` |
| `SearchCache` | `main.py`, `search_service.py`, `es_client.py` of search-service | `MCShopServices`, `ShopServicesProofs` |
| `SetSums` | lemmas about sums over finite sets (no code) | `CatalogStockProofs`, `PaymentServiceProofs` |

An `MC` module adds the symmetry set; all constants get their values in the `.cfg`. Three of them put
components that share no state side by side: a variable (`service` in `MCShopServices`, `part` in
`MCAccess` and `MCWithdrawals`) names the one that a behaviour is about, the others stay in an
initial state. This checks each of them completely, and the number of states is the sum of theirs.

A definition `...Safety` (`CouponSafety`, `AuthSafety`, ...) is all that a component promises: the
conjunction of its type invariant and of named properties, each with a comment of its own. Where one of
them is an action property the conjunction is temporal, and the `.cfg` lists it under PROPERTIES.

### CatalogStock
A session runs one transaction in two steps. *Begin* reads the rows that the Java method
loads (`txn[t]` keeps them, as the persistence context does), the second step does the
UPDATEs and commits. Between the two, other sessions commit, which is READ COMMITTED for
release, confirm and the seller's methods: native UPDATEs test their WHERE on the row as
it is then, while a JPA save writes all columns back as they were read, if `version` is
unchanged. `reserveStock` runs at SERIALIZABLE: when a row it read was written in between
(`Outdated`), its first UPDATE fails. `EditsAlone` and `SingleFlight` say which calls overlap:
a seller's edit with a reservation of the product, and two calls for one reservation.
`expire_reservations` is an action that `ExpiryJob` switches on, since nothing in the
repository calls it.

### OrderService
A request is a handler: `req[h]` holds its program counter and locals, each SQL statement
(or transaction) and each HTTP call is a step. A reservation call has four outcomes:
done, refused, and failed before or after catalog-service did the work. `Faults` switches on
failing calls ("net"), failing statements ("db") and the end of a request's context
("crash"). Checkout goes through the cart items in any order. `resv` is the reservation table
of catalog-service, keyed by product and user, since a user has one cart for ever. Whether
`CatalogReserve` may be refused is decided by the units that are left.
`OneOrderPerUser` says whether a user may start a checkout with another order still open.

### PaymentService and Withdrawals
Same scheme: one step per statement or transaction. `gateway[o]` is what the provider knows
of an order's transaction, `order[o]` what order-service made of it. The webhook's two steps
are the status request to Midtrans and the UPDATE, so that other requests may come between.
A refund's gateway call runs in a goroutine after the commit (`RefundCall`).

### FlashSale
One step per Redis command or statement; the Lua script is one step. The queue is a
sequence. Expiry of queue, stock key and tokens are actions. `OneCallPerUser` says
whether a user waits for an answer; `ExpiryRaces` whether the queue may expire while a
purchase is between its position check and its LPOP.

### The Python services: DbSessions
A handler opens a session, SELECTs rows, tests and changes the objects, and commits. Each SELECT is a
step (`Read...`, `Load...`, `Find...`) that keeps the row in the state of the session, the commit is another.
Between them other sessions commit: PostgreSQL runs at READ COMMITTED, and no service takes a lock. At
the commit SQLAlchemy sends an UPDATE of the columns in which the object differs from the row
as loaded; `Flush` writes those and leaves the others as they are by then. This is why a deletion
survives an edit that began before it, while a counter loses an increment. A UNIQUE
violation rolls the whole commit back; an UPDATE of a row that is gone fails, a DELETE does not.

The history variables `...Raced` (`overlapped` of `Addresses`, `behind` of `SearchCache`) collect the
rows that were saved though they had changed since they were read. Properties come in pairs: one that
survives any race, and one, exact, for rows nobody raced for. History is never read by a guard.

- `Coupons`: validate (two SELECTs) hands out a quote, apply (SELECT, commit) uses it; the clock moves
  across the window of validity. `Listed` is the second copy of the tests, of the list of usable coupons.
- `Loyalty`: amounts in points (100 rupiah each). `booked` sums the rows of `point_transactions`.
- `Disputes`: `said` tells who has written. `create_dispute` stores the nil UUID as seller ("TODO: from order",
  main.py:187). `SellerKnown = TRUE` takes this as done; with FALSE every seller is
  refused (disputes.md:49 promises the response) and disputes stay OPEN until an administrator decides.
- `Reviews`: `Tally` is what Python computes; the trigger's own count is overwritten by the UPDATE of the same flush.
- `Addresses`: `FindLatest` takes any remaining address, since `updated_at` is not modelled.
- `Wishlists`: `Making` are the requests that found no list and will insert one.
- `Fraud`: scores in hundredths, `Score` as a function of the signals of a transaction. A score below the threshold
  reaches `settings.CHALALLENGE_THRESHOLD` (main.py:197), a name that does not exist: the request fails and nothing is saved.
- `AuditTrail`: `position` is what `poll` returned, `handled` how far the loop got, `committed` what Kafka keeps. `commit()`
  covers every partition polled. The prev_hash is read in a step of its own. An event is its time
  of publication; the hash of a row is the row. Times in `check_anomaly_rules` that raise (`minute - 1` at a full hour) are
  the nondeterministic `Moments`.
- `SearchCache`: `doc` is the index as written, `shown` as queries see it (`refresh="false"`), `cache` one key per kind of request.

### AuthSessions
`get_db` commits when the handler returns and rolls back when it raises, what it wrote before raising too:
`AfterError` returns the state before. `Updatable` is the WHERE clause of `UserRepository.update`: the version
of the row as first read in the session. What a request writes is one step, since the row locks of its
UPDATEs keep writers of the same rows out. `Token.password`, `.from`, `.raced`, `proved`, `wrong` and `Reset.times` are history.
`ReuseToken` therefore never changes anything. Left out: the times after which locks, tokens and
links expire (expiry only removes behaviours), hashes and codes, and names of users.

### ChatHub
`Run` takes one message from a channel (`taken`) and handles it; both are steps, since a sender to the unbuffered
channels `register` and `unregister` goes on as soon as Run has received. `conn[c]` is a client with its channel
and the two goroutines of `HandleWebSocket`; a reader that waits for room in `broadcast` is "sending". A
closed channel is read until it is empty. After the broadcast `persistMessage` stores the message or prints an error
(`post`), so that what peers saw may be missing from the history. Pings, deadlines and read errors are one action each, at any time.

### RateLimiter
The Lua script is one step (`RunScript`), with the reading of `time.Now()` that the request took in a step
before. Tokens are counted in thousandths, since the script keeps fractions. A call that fails either ran the
script or did not, and lets the request pass. `since[k][t]` counts the tokens given for readings at or after t; a limit is kept
if no interval gave more than its length times the rate plus the burst. `inOrder` are the keys none of whose readings reached Redis
after a later one.

### Code that does not say what it means
Some lines of the Go services would not compile as they stand (`order_service.go:542`,
`payment_service.go:198` and `:373`). They are modelled by their evident intent: the body of the
request to catalog-service, the payment read on behalf of the administrator, the name of the event
made of the verdict. In Python: `HelpfulVote.__table_args__` of review-service and the import of `config` in search-service (`config.py:2`)
would fail when the module is loaded; they are modelled as the constraint and the settings they are meant to be.

## 3. Runs

| Run | Instance | Properties | Shows |
|---|---|---|---|
| `catalog_stock` | 1 product, 3 carts, 2 sessions, stock up to 3, all seller edits, none while a cart is served | `ReservedIsSumOfActive`, `NoDoubleBooking`, `SoldIsConfirmed`, `ReturnedOnce`, `ImplementsLedger` | reservations in parallel are sound |
| `catalog_races` | 2 carts, 2 sessions, everything overlaps, expiry job | `TypeOK`, `FinishedStaysFinished` | even then nothing becomes negative, nothing comes back |
| `order_faults` | 2 users, 1 unit, 2 orders, 2 requests, 1 retry, all faults | `TypeOK`, `PendingIsReserved`, `CancelledOnce`, `ImplementsLifecycle` | orders under failure |
| `order_saga` | 2 users, 2 products with 1 unit each, no faults | `NothingHeldInVain`, `PaidIsConfirmed` | competing sagas undo all they took |
| `order_repeat` | 1 user, 2 orders in one reservation, cart edits | `CancelledIsReleased` | liveness: what was cancelled is given back |
| `payment_races` | 1 payment, 2 refunds, webhook, 2 requests, all faults | `TypeOK`, `RefundsRecorded`, `RefundsAccumulate`, `RefundsTakePaid` | the version column protects the amount |
| `payment_refunds` | 2 payments, 3 refunds, 1 request, gateway and network fail | `RefundedIsSum`, `FollowsTransitions`, `PaymentIsDecided` | bookkeeping without races; liveness |
| `payment_refund_race` | 2 refunds at once | `TotalRefundLimit` **violated** | a refund whose UPDATE matched no row is paid out |
| `withdrawal_races` | 2 withdrawals, 3 requests, all faults; beside it the rate limiter with 2 calls, rates 1 and 1/2 per unit of time, bursts 2 and 1, keys that expire after 3 units, calls of up to 1, 3 units in all | `WithdrawalSafety`, `DecidedOnce`, `LimiterSafety` | decisions stand; limits are kept and exhausted |
| `flash_sale` | 3 users, 1 item of 1 or 2 units, 3 requests, all faults and expiries | `SaleSafety`, `SoldIsBought`, `OneBuyerAtATime`, `TurnIsKept` | purchases, tokens and turns |
| `shop_services` | per service: 2 sessions, 1 or 2 users, 1 to 4 rows; audit: 2 partitions, 2 replicas, 3 events, 1 crash, each topic and each assignment of partitions | `CouponSafety`, `LoyaltySafety`, `AddressSafety`, `AuditSafety`, `SearchSafety`, `DisputeSafety`, `ReviewSafety`, `SellerSafety`, `WishlistSafety`, `FraudSafety` | what lost updates may and may not do |
| `access` | 1 account, 2 sessions, 2 passwords, 2 secrets, 3 refresh tokens, 1 reset token, roles buyer and superadmin; beside it 2 chat users, 2 connections, 1 room, 2 messages, channels of capacity 1 | `AuthSafety`, `ChatSafety` | sessions, links and MFA under races; connections that replace one another |

**Bounds.** Every property is about one product or order, or about two actors that compete
for one; two sessions or requests make every pairwise interleaving of steps happen, and a
third actor (third cart, third user) is there where two may compete behind the back of
one. One or two units are enough for "the last unit"; a reservation can only grow with three, since the availability test counts what the cart holds already; a partial refund needs an amount of
2, two partial refunds and a rest need 3. `MaxVersion`, `CartBound`, `QueueBound` and `MaxRetries` cap what the
code leaves unbounded (`MaxRetries` is 3 there); each is a guard that stops an actor from starting
anew, never one that cuts a request short. Values at a limit are in the instance: amounts
below, at and above both limits of a withdrawal, a full queue, the last unit.
In `shop_services` two sessions are what a lost update takes; a second user, product or coupon would only
repeat the first, since no row of one is read for another. There are two rows wherever two may clash (two orders
for a coupon, two lists, two disputes, two voters), and four addresses for a limit of 2 that
two sessions exceed. `MaxLifetime`, `VoteBound`, `MaxPriceNews`, `MaxEvents`, `MaxCrashes`, `LastHour` and
`FraudLastHour` are the bounds there; `MaxVersion` bounds the changes of a user. Values sit at the edges: discounts above the
cart and at the cap, hours before, in and after the window, tiers reached exactly, a target price of 0. `Flags = {TRUE}`
says that a new review contains words to redact, so that it takes the path through moderation.
In `access` the two connections belong to one user or to two, so that one replaces the other or both share a room; capacity 1
(`SendBuffer`, `HubBuffer`) makes both channels full with the second message. In the limiter the clock ends
at `Horizon`: the bucket of the address fills up, runs dry, and expires once.

**Deadlock.** TLC checks it except where the instance comes to an end: orders, payments,
refunds and withdrawals are finite sets of rows to create, and once all are decided nothing is left to do.
The same holds for the rows, hours and events of `shop_services`, the tokens and connections of `access`, and the clock of the limiter.

**Symmetry** is used in runs whose properties are invariants and action properties (carts, sessions, users,
orders, requests, rows are only compared; in `shop_services` sessions and disputes, in `access` sessions,
tokens and passwords, which serve as connections and messages too). `payment_refunds` and `order_repeat`, which check
liveness, run without.

**Fairness.** `OrderService` and `PaymentService` assume weak fairness of each request's
steps and nothing else. The code justifies it: a request runs in a goroutine that the
scheduler keeps running, and every wait in it has a timeout (HTTP clients, database
contexts). No fairness is assumed of clients, gateways or administrators; no fairness of a crash. The
modules of the Python services state safety only: their handlers end in one commit, and no document promises what happens after.
So do `ChatHub` and `RateLimiter`: peers and clients owe nothing.
`PaymentIsDecided` and `CancelledIsReleased` are stated for runs in which no process dies and no
statement fails: the code holds no record from which it could resume.

## 4. Proofs

All theorems hold for any number of products, users, orders, requests and so on, with every
fault and every interleaving that the model has. Assumptions on constants are the
`...Assumption` definitions, which TLC evaluates in the runs: that the values for "no row" are
no rows, and that the sets whose members are counted or summed up are finite. A condition in the column
Under is a hypothesis of the theorem; what it means, and what happens without it, is told below the table.

| Theorem | Statement | Under | Argument |
|---|---|---|---|
| `CatalogStockProofs!TypeCorrect` | `[]TypeOK` |  | A reserve transaction that is not stale has read what is there (`Fresh`), so testing on the snapshot is as good as on the row; `RowChecks` and the WHERE clauses keep `reserved_stock` in range. |
| `CatalogStockProofs!FinishedIsFinal` | `FinishedStaysFinished` |  | From the same invariant: only reserve writes ACTIVE, and it writes over what it read unless stale. |
| `CatalogStockProofs!BooksBalance` | `[]ReservedIsSumOfActive` | `SingleFlight`, `EditsAlone`, `~ExpiryJob` | `SessionsInv`: one session about a reservation, with the row as it is; no edit of a product with a session about it. Then every step changes one row and the counter by the same units (`RowsStep`), and `SetSums` does the sum. |
| `CatalogStockProofs!PromisesAreKept` | `[]NoDoubleBooking` | the same | What is held is the sum, and `RowChecks` keeps it below the stock. |
| `CatalogStockProofs!SalesAreFinal` | `SoldIsConfirmed` | the same | A step is one of `RowsStep`, which sells what was held. |
| `CatalogStockProofs!ReturnsAreFinal` | `ReturnedOnce` | the same | The same. |
| `CatalogStockProofs!LedgerImplemented` | `ImplementsLedger` | the same | Refinement of `StockLedger`: each of `RowsStep` is a step of the ledger or a stutter. |
| `OrderServiceProofs!TypeCorrect` | `[]TypeOK` |  |  |
| `OrderServiceProofs!LifecycleImplemented` | `ImplementsLifecycle` |  | Refinement: a request that is about to update an order holds a version; while the order has this version it still has the status in which the request was checked. A step either changes no order or is one transition. |
| `OrderServiceProofs!CancelledOnceAlways` | `[]CancelledOnce` |  | Requests that won the cancelling UPDATE, and events published, are at most one per order. |
| `OrderServiceProofs!PendingKeepsItsUnits` | `[]PendingIsReserved` | `OneOrderPerUser` | `PendingInv`: a checkout that may still commit holds the items it is done with, and a callback confirms only what is PENDING no more. |
| `OrderServiceProofs!HoldsAreAnswered` | `[]NothingHeldInVain` | `Faults = {}` | `EachIsHeldFor`: what is reserved has a PENDING order, or a request that will still commit, release or confirm it. |
| `OrderServiceProofs!PaidSellsItsUnits` | `[]PaidIsConfirmed` | `Faults = {}`, `OneOrderPerUser` | `PaidIsSettled`: the units of a PAID order are sold, or held with the callback that sells them at work. |
| `PaymentServiceProofs!TypeCorrect` | `[]TypeOK`, with `refunded <= Amount` |  | A refund whose version still matches was checked against the amount that is there. |
| `PaymentServiceProofs!RefundsOnlyGrow` | `RefundsAccumulate` |  | `VersionsTell`: the same version means the same `refunded` and a refundable status, since every UPDATE of the row moves the version. |
| `PaymentServiceProofs!RefundsOfPaid` | `RefundsTakePaid` |  | The same invariant. |
| `PaymentServiceProofs!RefundsHaveRows` | `[]RefundsRecorded` |  | The row of the refund and the amount are written in one transaction; an UPDATE that finds no row adds to the rows alone. |
| `PaymentServiceProofs!StatusesFollow` | `FollowsTransitions` | no webhook | `CreatorsDecide`: a payment is PENDING while the request that made it is at work, and no other request decides it. |
| `PaymentServiceProofs!RefundsAddUp` | `[]RefundedIsSum` | no webhook, `[]LoneRefunds` | A refund nobody races holds the version of its payment (`VersionsHold`), so that its UPDATE finds the row; `SetSums` adds up. |
| `WithdrawalsProofs!DecisionIsFinal` | `DecidedOnce` |  | A request that may still decide holds a version, and a matching version means PENDING. |
| `WithdrawalsProofs!EventsAreTrue` | `[]WithdrawalSafety` |  | A request that has updated publishes what the row says, and by the theorem above the row no longer changes. |
| `WithdrawalsProofs!LimiterIsSafe` | `[]LimiterSafety` |  | The tokens of a bucket are exactly the room of the interval that has least (`BucketIsTight`). A refill adds the same to every interval, a token takes from all that contain its reading; a key that expires would be full, by `LimiterAssumption`. |
| `FlashSaleProofs!QuotaHolds` | `[]SaleSafety` |  | The script moves one unit from the stock to a user who has none. The key is set once per item, before anything of it is sold (`StockPending`); expiry only lowers it. |
| `FlashSaleProofs!TurnsDoNotOverlap` | `[]OneBuyerAtATime` | `OneCallPerUser`, `~ExpiryRaces` | `FrontIsBuyer`: who was found at the front is at the front until the own LPOP. |
| `FlashSaleProofs!TurnsAreKept` | `TurnIsKept` | the same | The same invariant. |
| `FlashSaleProofs!BooksLagBehind` | `[]SoldIsBought` |  | `UncountedFit`: `sold` and the purchases on their way to it are within the buyers, since each purchase of a user is on its way once. |
| `ShopServicesProofs!LoyaltyIsSafe` | `[]LoyaltySafety` |  | What a session has read is within the EARN rows too, and these only grow; `Flush` takes each column from one or the other. On a row nobody raced for, the session that saves has read what is there. |
| `ShopServicesProofs!CouponsAreSafe` | `[]CouponSafety` |  | What apply has read never counts more uses than there are (`GoesBy`); a quote that is not stale is of a user below the limit, while nobody raced (`QuotesInOrder`). |
| `ShopServicesProofs!AddressesAreSafe` | `[]AddressSafety` |  | `RoomLeft`: addresses and creations under way are at most the limit and the other sessions. The only session of a user knows the rows (`KnowsRows`). |
| `ShopServicesProofs!DisputesAreSafe` | `DisputeSafety` |  | `DisputeSaves`: an object about to be saved answers for the columns that a handler sets together, so that `Flush` mixes no two verdicts. |
| `ShopServicesProofs!AuditIsSafe` | `[]AuditSafety` |  | `HandledIsSettled`: who has one partition has been through all it commits. The only consumer of a topic links to the row that is still last (`ReadIsLast`). |
| `ShopServicesProofs!SellersAreSafe` | `SellerSafety` |  | No session holds an object that differs from its row in `suspended` or `active` but to suspend; one that does not race holds the row. |
| `ShopServicesProofs!SearchIsSafe` | `[]SearchSafety` |  | Between a refresh of the index and the end of the clearing that follows there is a request that clears, or `behind`. |
| `UserServicesProofs!AuthIsSafe` | `AuthSafety` |  | All of the following, and the types. |
| `UserServicesProofs!OpenSessionsAreCurrent` | `[]SessionsAreCurrent` |  | `Knows`: a request whose version still matches holds the row itself, so what it tested is true when it commits; changing a password or banning revokes in the same transaction. |
| `UserServicesProofs!TokensRotateOnce` | `[]RotatedOnce` |  | A token with a successor is dead, and only a refresh that had read it alive before can rotate it again, which is a race. |
| `UserServicesProofs!MfaIsOnOnlyIfProved` | `[]MfaIsProved` |  | `Knows` again: the secret the user proved is the one in the row. |
| `UserServicesProofs!LinksWorkOnce` | `[]ResetOnce` |  | A link nobody raced for is held by one request (`ResetsHeldOnce`). |
| `UserServicesProofs!SuperadminsAreSpared` | `SuperadminsAreNotBanned` |  | `Knows` for the role. |
| `UserServicesProofs!DeletionsLast` | `DeletedStaysDeleted` |  | No session holds an object that differs from its row in `deleted` but to delete. |
| `UserServicesProofs!ReviewsAreSafe` | `ReviewSafety` |  | `KeepsBooks`: no object but that of a vote differs from its row in a counter, and that one by `Tally`; `Flush` on a row nobody changed writes the object itself. The counters then move with the set of votes. |
| `UserServicesProofs!WishlistsAreSafe` | `WishlistSafety` |  | `OneMaker`: a user nobody raced for has one list, or one request about to make it; an item is only in a list that exists. |
| `UserServicesProofs!FraudIsSafe` | `FraudSafety` |  | The end of a block about to be written is ahead of the clock (`BlocksAhead`); the scores of amounts and a new account stay below the threshold. |
| `UserServicesProofs!ChatIsSafe` | `[]ChatSafety` |  | A client is in `clients` if and only if its channel is open, from its registration on (`HubKnows`); messages at the hub come after those at the peers, in the order of `entered` (`PeerInOrder`); a client that lost its place has a successor (`RoomsKnown`). |

**The conditions.** Where the code keeps a promise only while calls do not overlap, the theorem says so, and the
run of the same property has the same constants; sections 5 and 6 tell what happens without them.

- `SingleFlight`, `EditsAlone`: two calls about one reservation, or a seller's save during a reservation, lose an update.
  Order-service makes one call at a time for an order; nothing keeps a seller from editing. `~ExpiryJob`: nobody calls the job.
- `OneOrderPerUser`: a user's orders share one reservation per product. `Faults = {}`: a call whose reply was lost is not repeated
  or undone. `HoldsAreAnswered` needs only the latter: users may check out again and again, at the same time too.
- no webhook (`"webhook" \notin Calls`): a webhook overwrites any status. `[]LoneRefunds`: no two requests refund one payment at a
  time; `payment_refund_race` shows what two do.
- `OneCallPerUser`, `~ExpiryRaces`: two purchases of one user pop the queue twice, and a list that expires under a purchase
  leaves others at its front.

All other theorems hold for every value of the constants that the `...Assumption` definitions allow.

**The invariants.** `IInv` is the inductive invariant of `CatalogStock`, `OrderService`, `PaymentService`, `Withdrawals`, `FlashSale`
and `AuthSessions`; what some theorems need beyond it has names of its own: `BooksInv` (catalog), `EachIsHeldFor`, `PendingInv`, `PaidIsSettled` (orders),
`RecordedInv`, `OwnInv`, `SumInv` (payments), `TurnInv`, `BooksInv` (flash sale). The other modules have `LimiterInv`, `SellerInv` with `BadgeInv`, `SearchInv`,
`LoyaltyInv` with `LoyaltyBooks`, `DisputeInv`, `AuditInv`, `CouponInv`, `AddressInv`, `ChatInv`, `ReviewInv` with `ReviewBooks`, `FraudInv`, `WishInv`. One lemma per action (or
group of actions with the same effect) shows that an invariant is preserved, and the theorem combines them with `PTL`. The invariants
are stronger than the properties because the properties say nothing of requests half way: a
stale request may hold any old row, and what saves the day is always a fact about versions (or about staleness) that the code
never writes down.

`SetSums` proves what the books need of sums over finite sets (a sum with one term changed, removed or added), by
well-founded induction over the subsets. The theorem about addresses holds for any number of owners, while the run has one;
it needs that the ids of rows that a request still holds are not used again (`Fresh` in `CommitCreate`), as uuid4 sees to:
without it a request of one owner could end up with another's address, which one owner alone never shows.

**Only model-checked.** Liveness: `PaymentIsDecided` and `CancelledIsReleased`, since TLAPS does not reason about
fairness and ENABLED. Every other property of a passing run is a theorem, or a conjunct of one. Out of reach are also
RECURSIVE operators and induction with an operator as parameter; no module that is proved about uses the former.

## 5. Disagreements the runs show

`payment_refund_race`: docs/api/payments.md:116 limits the total of refunds; a refund whose UPDATE
matched no row is committed and paid out.

Two more of the same weight are in section 6 (`NoDoubleBooking`, `PendingIsReserved`): each is
one run of an instance that another run checks under a restriction.

## 6. Promises that no run repeats

Modelling met more of them. They are stated at the end of the modules, and TLC refutes each
one when it takes the place of the properties (and of the symmetry) of the run named here, with the
constants given.

| Property | In | Promise | What the code does |
|---|---|---|---|
| `NoDoubleBooking` | `catalog_stock` with `EditsAlone = FALSE`, `Edits = {"adjust"}`, 2 carts, `MaxStock = 2`, `MaxVersion = 1`, `EditStatuses = {"ACTIVE"}` | KNOWN_ISSUES.md:90-95, F-001 "Fixed" | a seller's save (ProductService.java:172) writes back the `reserved_stock` it read, over the reservation committed since |
| `PendingIsReserved` | `order_faults` with 1 user, `InitStock = 2`, no faults, no retry, `OneOrderPerUser = FALSE` | orders.md:364, "Stock reservation tetap active" | two orders of one user share one reservation: releasing it for one leaves the other without units |
| `NothingHeldInVain` | `order_repeat` with `Faults = {"net"}` | orders.md:159, all reservations are released on failure | a reservation whose reply was lost is not in the list of compensations |
| `PaidEventMeansPaid` | `order_saga` | orders.md:275-279 | `order.paid` is published though the UPDATE found no row |
| `PaidIsConfirmed` | `order_saga` with `Faults = {"net"}` | orders.md:278 | a confirm call that fails is not repeated |
| `OneOrderPerKey` | the instance of `PendingIsReserved` above | orders.md:49 | nothing reads the Idempotency-Key |
| `OverdueIsCancelled` | `order_repeat` | comment at order_service.go:483-484 | there is no such job |
| `CartQuantityLimit` | `order_repeat` | cart.md:44 | the limit is tested on the request, not on the sum |
| `CartItemLimit` | `order_saga` with `MaxItems = 1`, `CartBound = 1` | cart.md:44 | the items are counted before the upsert, in no transaction |
| `TerminalIsFinal` | `payment_races` | payments.md:16 | a late webhook overwrites FAILED and REFUNDED |
| `OnePaidPerOrder` | `payment_refund_race` | payments.md:61 | lookup and INSERT are two statements |
| `ResumedIsPending` | `payment_refunds` | comment at payment_service.go:92 | a retry is answered with the FAILED payment |
| `SucceededIsSettled` | `payment_refunds` | comment at payment_service.go:592-593 | no error from the gateway counts as success |
| `SuccessIsTold` | `payment_refunds` | comment at payment_service.go:141 | there is no retry |
| `MinimumIsAccepted` | `withdrawal_races` | payments.md:151 | the minimum itself is refused |
| `ReturnedOnce` | `catalog_stock` with `SingleFlight = FALSE` | comment at ProductService.java:241 | two releases both find the reservation ACTIVE |
| `ReservedIsSumOfActive` | `catalog_stock` with `ExpiryJob = TRUE` | catalog_schema.sql:70 | the second call of the job subtracts the first one's rows again |
| `LimitsAlwaysKept` | `shop_services` | coupons.md:97 | apply repeats no test, and the counter is written back as read |
| `BooksAlwaysBalance`, `TierNeverFalls` | `shop_services` | loyalty.md:20 | two requests for one member overwrite points and tier |
| `OneOpenPerOrderAlways` | `shop_services` | disputes.md:41 | tested before the INSERT, no constraint |
| `ResolvedWasEscalated` | `shop_services` | disputes.md:12 | admin_resolve does not look at the status |
| `FlaggedIsHeld` | `shop_services` with `Flags = {TRUE, FALSE}` | reviews.md:146 | an edit redacts, and leaves the review APPROVED |
| `AlwaysOnePrimary` | `shop_services` | addresses.md:48 | two requests unset what each has seen |
| `TrustNeverFalls` | `shop_services` | seller.md:73, verification adds 20 | a verification computed from an old row writes a lower score |
| `WishlistReadable` | `shop_services` | wishlist.md:11 | two first requests make two lists, and every later one fails |
| `AlertsKeepTarget` | `shop_services` | wishlist.md:48 | a target of 0 counts as none |
| `PermanentStaysPermanent` | `shop_services` | fraud.md:79 | a check of the blocked address blocks it for an hour instead |
| `PeriodsVerify` | `shop_services` | AUDIT.md:237-241, audit.md:17 | the first row of a period has a predecessor outside it; replicas fork the chain |
| `NothingIsLost` | `shop_services` | AUDIT.md:253-255, a missing event is an incident | commit() covers partitions polled and not handled yet |
| `LockedAfterFailures` | `access` | README.md:89, SECURITY.md:57, users.md:102 | the failure is counted in the transaction that the error rolls back |
| `NoSessionSurvives` | `access` | comment at auth_service.py:405 | a refresh under way issues its token after the revocation |
| `RoomsAreOwn` | `access` | comment at hub.go:16 | a connection that was replaced joins and leaves rooms for its successor; a join before Run has handled the registration is lost |
| `LimitIsAlwaysKept` | `withdrawal_races` | SECURITY.md:141 | two readings that reach Redis in the wrong order count the time between them twice |

Seen in the model of the flash sale, with no document that promises otherwise, or with nothing to state: a
queue that expires leaves its members unable to join again; concurrent joins push the queue
over its maximum (flashsale.md:85); `max_per_user` of an item is not read; ending a
sale does not stop purchases; two purchases of one user at once take the next user out of the
queue; a user at the front who does not buy holds up everyone.

## 7. Not modelled

Read-only queries, JSON and HTML, validation of formats, pricing and shipping fees, metrics and
logs. Kafka delivery: a published event is a count or a set in the publisher, except in `AuditTrail`. Several
instances of a service are several requests, since all state is in the database or Redis. The
idempotency packages of order- and payment-service are never called.

- notification-service does not start: main.py:28 calls `consumer.start()` inside the running event loop, where
  kafka_consumer.py:28 calls `run_until_complete`. Its loop would be the one of `AuditTrail`.
- recommendation-, analytics- and admin-service keep no state of their own that a property could relate.
- review-service's answer of the seller: no seller can give it, since a review stores a placeholder as seller.
- loyalty-service: `earn` fails for every order on a 29th of February (`replace(year=...)`, main.py:244) and rolls back, which the
  model shows as a request that was never made. Points do not expire (loyalty.md:22 says they do): there is no code.
- fraud-service: nobody writes the Redis counters its rules read, nor `blocked_users`; they are inputs.
  A manual block for some hours raises an AttributeError.
- seller-service: the thresholds of badges in docs/api/seller.md are not those of the code; `BadgeFor` is the code's.
- search-service: ranking, facets and the list of popular searches; `reindex` only counts. Nobody in the repository publishes product events
  or calls the index endpoints; both are modelled as the service handles them.
- auth-service: register publishes its event before the commit (a rollback leaves an event without a user); "must
  always be 1 superadmin" (auth_service.py:608) is not enforced; `disable_mfa` has no route.
- api-gateway: the limit per user of `RateLimit` never applies, because the middleware is mounted (cmd/main.go:79) before
  `Authenticate` sets `user_id`; `Retry-After` is set after the body was written; the limits of SECURITY.md:141 are per minute, those of the
  configuration per second. Authentication, WAF and proxy keep no state.
- auth-service: reuse of a refresh token revokes all tokens and then raises, which rolls it back (`ReuseToken` changes nothing),
  though users.md:139 promises it.
- chat-service: conversations. `CreateConversation` looks for one and inserts it, in two statements with no constraint, so that two
  requests at once make two (chat.md:88 promises the existing one). `is_deleted` is never read.
- shipping-service: nothing calls its internal endpoints, its provider is a stub, and a webhook stores any status it gets: there
  is no order of statuses that a property could hold it to.
- catalog-service: `expire_reservations` (catalog_schema.sql:71) is called by nothing; it is an action of `CatalogStock`
  that a constant switches on.
- The content of section 8.

## 8. Plan

In this order; each module with its runs, and its proofs in a module of its own.

1. A composition of checkout, payment and catalog (`OrderService` with the transactions of `CatalogStock` in place of its
   view of the replies), to show that an order paid is an order confirmed across the three.
2. Proofs: the composition of item 1 as a refinement; `RefundsAddUp` with webhooks that come before any refund, which
   needs their order in the invariant.
3. Liveness of the hub: goroutines of a connection that was replaced return, and a full `broadcast` drains, if peers
   read or fail within the deadlines of `writePump`.
