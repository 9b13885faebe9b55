--------------------------- MODULE PaymentService ---------------------------
(***************************************************************************)
(* payment-service: payments, the gateway's webhook and refunds             *)
(* (internal/service/payment_service.go).                                   *)
(*                                                                          *)
(* A request is a goroutine; each step below is one of its database         *)
(* statements or HTTP calls.  No statement of CreatePayment or of the        *)
(* webhook looks at the status or version it overwrites; RefundPayment reads *)
(* the payment before it opens its transaction.  order-service and the       *)
(* payment gateway are seen through their replies.                          *)
(***************************************************************************)
EXTENDS Integers, FiniteSets, FiniteSetsExt

CONSTANTS
    Orders,
    Payments,   \* payment ids (uuid.New)
    Refunds,    \* refund ids (uuid.New)
    Requests,   \* requests in flight at the same time
    Keys,       \* Idempotency-Key headers
    EmptyKey,   \* the value of Keys, if it is one, that stands for no header
    Amount,     \* total of an order, in units of the smallest refund
    MaxVersion, \* no webhook arrives for a payment that was written this often
    DevMode,    \* TRUE: no gateway key is configured, payments are simulated
    Calls,      \* endpoints the environment calls
    Faults      \* failures the environment shows

Endpoints == {"create", "webhook", "refund", "cancel"}

ASSUME PaymentAssumption ==
    /\ IsFiniteSet(Payments)
    /\ Amount \in Nat \ {0}
    /\ MaxVersion \in Nat
    /\ DevMode \in BOOLEAN
    /\ Calls \subseteq Endpoints
    /\ Faults \subseteq {"net", "db", "gateway", "crash"}

VARIABLES
    payments,   \* payment_svc.payments
    refunds,    \* payment_svc.refunds
    published,  \* the events of a payment that went to Kafka
    req,        \* the state of each request
    order,      \* order-service: the status of each order
    gateway     \* Midtrans: the status of the transaction of each order

vars == <<payments, refunds, published, req, order, gateway>>

-----------------------------------------------------------------------------
(* Data *)

PaymentStatus == {"PENDING", "SUCCEEDED", "FAILED", "REFUNDED", "PARTIAL_REFUND"}

ValidPaymentTransitions ==
    [PENDING        |-> {"SUCCEEDED", "FAILED"},
     SUCCEEDED      |-> {"REFUNDED", "PARTIAL_REFUND"},
     FAILED         |-> {},
     REFUNDED       |-> {},
     PARTIAL_REFUND |-> {"REFUNDED"}]

NoPayment == [status |-> "NONE"]
\* created orders the payments by created_at.
Payment == [status: PaymentStatus, order: Orders, key: Keys, refunded: 0..Amount,
            version: Nat, created: Nat]

NoRefund == [status |-> "NONE"]
Refund == [status: {"PENDING", "SUCCEEDED", "FAILED"}, payment: Payments,
           amount: 1..Amount]

Events == {"succeeded", "failed", "refunded"}
OrderStatus == {"PENDING", "PAID", "CANCELLED"}
GatewayStatus == {"NONE", "PENDING", "SUCCEEDED", "FAILED"}

Idle == [op |-> "idle"]
CreateReq == [op: {"create"}, pc: {"fetch", "find", "insert"}, o: Orders, key: Keys]
\* A payment whose outcome is known: to the gateway's caller, or to the webhook.
SettleReq == [op: {"create", "webhook"}, pc: {"gateway", "update", "notify"}, o: Orders,
              p: Payments, outcome: {"PENDING", "SUCCEEDED", "FAILED"}]
FetchedReq == [op: {"webhook"}, pc: {"find"}, o: Orders, outcome: {"SUCCEEDED", "FAILED"}]
\* RefundPayment keeps the row it read.
RefundReq == {x \in [op: {"refund"}, pc: {"commit"}, p: Payments, amount: 1..Amount,
                     refunded: 0..Amount, version: Nat] : x.refunded + x.amount <= Amount}
RefundCall == [op: {"refund"}, pc: {"gateway"}, r: Refunds]

TypeOK ==
    /\ payments \in [Payments -> {NoPayment} \cup Payment]
    /\ refunds \in [Refunds -> {NoRefund} \cup Refund]
    /\ published \in [Payments -> SUBSET Events]
    /\ req \in [Requests -> {Idle} \cup CreateReq \cup SettleReq \cup FetchedReq
                              \cup RefundReq \cup RefundCall]
    /\ order \in [Orders -> OrderStatus]
    /\ gateway \in [Orders -> GatewayStatus]

Init ==
    /\ payments = [p \in Payments |-> NoPayment]
    /\ refunds = [r \in Refunds |-> NoRefund]
    /\ published = [p \in Payments |-> {}]
    /\ req = [h \in Requests |-> Idle]
    /\ order = [o \in Orders |-> "PENDING"]
    /\ gateway = [o \in Orders |-> "NONE"]

Step(h, x) == req' = [req EXCEPT ![h] = x]
End(h) == Step(h, Idle)

Created == {p \in Payments : payments[p] # NoPayment}
Of(o) == {p \in Created : payments[p].order = o}
\* ORDER BY created_at DESC LIMIT 1
Latest(p) == \A q \in Of(payments[p].order) : payments[q].created <= payments[p].created

\* WriteMessages; a failure is logged and dropped.
publishPaymentEvent(p, e) ==
    \/ published' = [published EXCEPT ![p] = @ \cup {e}]
    \/ "net" \in Faults /\ UNCHANGED published

\* No condition on the row, and every caller ignores the error.
updatePaymentStatus(p, status) ==
    \/ payments' = [payments EXCEPT ![p].status = status, ![p].version = @ + 1]
    \/ "db" \in Faults /\ UNCHANGED payments

-----------------------------------------------------------------------------
(* CreatePayment *)

\* The lookup by key: a payment that has it is returned at once.
CreatePayment(h, o, k) ==
    /\ "create" \in Calls /\ req[h] = Idle
    /\ k # EmptyKey => \A p \in Created : payments[p].key # k
    /\ Step(h, [op |-> "create", pc |-> "fetch", o |-> o, key |-> k])
    /\ UNCHANGED <<payments, refunds, published, order, gateway>>

\* GET the order, with retries.  It ends the request when the order is not
\* PENDING, its time to pay has passed or the calls fail.
fetchOrder(h) ==
    /\ req[h].op = "create" /\ req[h].pc = "fetch"
    /\ \/ order[req[h].o] = "PENDING" /\ Step(h, [req[h] EXCEPT !.pc = "find"])
       \/ End(h)
    /\ UNCHANGED <<payments, refunds, published, order, gateway>>

\* getPaymentByOrderID: an error when the latest payment SUCCEEDED, else it is
\* the reply; only an order without a payment gets one.
FindByOrder(h) ==
    /\ req[h].op = "create" /\ req[h].pc = "find"
    /\ \/ Of(req[h].o) = {} /\ Step(h, [req[h] EXCEPT !.pc = "insert"])
       \/ Of(req[h].o) # {} /\ End(h)
    /\ UNCHANGED <<payments, refunds, published, order, gateway>>

\* INSERT of a PENDING payment; idempotency_key is UNIQUE, the empty one too.
InsertPayment(h, p) ==
    /\ req[h].op = "create" /\ req[h].pc = "insert"
    /\ payments[p] = NoPayment
    /\ LET x == req[h]
       IN  \/ /\ \A q \in Created : payments[q].key # x.key
              /\ payments' = [payments EXCEPT ![p] =
                   [status |-> "PENDING", order |-> x.o, key |-> x.key, refunded |-> 0,
                    version |-> 1, created |-> Cardinality(Created)]]
              /\ Step(h, [op |-> "create", pc |-> "gateway", o |-> x.o, p |-> p,
                          outcome |-> "PENDING"])
           \/ /\ (\E q \in Created : payments[q].key = x.key) \/ "db" \in Faults
              /\ End(h)
              /\ UNCHANGED payments
    /\ UNCHANGED <<refunds, published, order, gateway>>

\* Mutant: an error of the gateway ends the request.
BugCallPaymentProvider(h) ==
    /\ req[h].op = "create" /\ req[h].pc = "gateway"
    /\ \/ Step(h, [req[h] EXCEPT !.pc = "update", !.outcome = "SUCCEEDED"])
       \/ "gateway" \in Faults /\ End(h)
    /\ UNCHANGED <<payments, refunds, published, order, gateway>>

\* The gateway opens a transaction that the customer has yet to pay; in dev mode
\* nothing is called.  Either way the caller is told of success.
callPaymentProvider(h) ==
    /\ req[h].op = "create" /\ req[h].pc = "gateway"
    /\ LET x == req[h]
       IN  \/ /\ Step(h, [x EXCEPT !.pc = "update", !.outcome = "SUCCEEDED"])
              /\ gateway' = IF DevMode \/ gateway[x.o] # "NONE" THEN gateway
                            ELSE [gateway EXCEPT ![x.o] = "PENDING"]
           \/ /\ ~DevMode /\ "gateway" \in Faults
              /\ Step(h, [x EXCEPT !.pc = "update", !.outcome = "FAILED"])
              /\ UNCHANGED gateway
    /\ UNCHANGED <<payments, refunds, published, order>>

\* What CreatePayment and the webhook do with an outcome: write it down, ...
StoreOutcome(h) ==
    /\ req[h].op \in {"create", "webhook"} /\ req[h].pc = "update"
    /\ updatePaymentStatus(req[h].p, req[h].outcome)
    /\ Step(h, [req[h] EXCEPT !.pc = "notify"])
    /\ UNCHANGED <<refunds, published, order, gateway>>

\* POST /internal/orders/{id}/payment-status: an order that is PENDING is PAID.
notifyOrderService(o) ==
    \/ order' = IF order[o] = "PENDING" THEN [order EXCEPT ![o] = "PAID"] ELSE order
    \/ "net" \in Faults /\ UNCHANGED order

\* ... tell order-service of a success, and publish.
TellOutcome(h) ==
    /\ req[h].op \in {"create", "webhook"} /\ req[h].pc = "notify"
    /\ LET x == req[h]
       IN  \/ /\ x.outcome = "SUCCEEDED"
              /\ notifyOrderService(x.o)
              /\ publishPaymentEvent(x.p, "succeeded")
           \/ /\ x.outcome = "FAILED"
              /\ publishPaymentEvent(x.p, "failed")
              /\ UNCHANGED order
    /\ End(h)
    /\ UNCHANGED <<payments, refunds, gateway>>

-----------------------------------------------------------------------------
(* HandleMidtransWebhook *)

\* The status is fetched from the gateway, whatever the webhook said and however
\* late or often it is delivered; a status that maps to PENDING or to a refund
\* ends the request.
HandleMidtransWebhook(h, o) ==
    /\ "webhook" \in Calls /\ req[h] = Idle
    /\ gateway[o] \in {"SUCCEEDED", "FAILED"}
    /\ \A p \in Of(o) : payments[p].version < MaxVersion
    /\ Step(h, [op |-> "webhook", pc |-> "find", o |-> o, outcome |-> gateway[o]])
    /\ UNCHANGED <<payments, refunds, published, order, gateway>>

\* SELECT the latest payment of the order.
WebhookFind(h) ==
    /\ req[h].op = "webhook" /\ req[h].pc = "find"
    /\ LET x == req[h]
       IN  \/ \E p \in Of(x.o) :
                /\ Latest(p)
                /\ Step(h, [op |-> "webhook", pc |-> "update", o |-> x.o, p |-> p,
                            outcome |-> x.outcome])
           \/ /\ Of(x.o) = {} \/ "db" \in Faults
              /\ End(h)
    /\ UNCHANGED <<payments, refunds, published, order, gateway>>

-----------------------------------------------------------------------------
(* RefundPayment *)

\* Mutants: any amount is refunded; any payment that is not PENDING is.
BugRefundAnyAmount(h, p, n) ==
    /\ "refund" \in Calls /\ req[h] = Idle
    /\ payments[p].status \in {"SUCCEEDED", "PARTIAL_REFUND"}
    /\ Step(h, [op |-> "refund", pc |-> "commit", p |-> p, amount |-> n,
                refunded |-> payments[p].refunded, version |-> payments[p].version])
    /\ UNCHANGED <<payments, refunds, published, order, gateway>>

BugRefundAnyStatus(h, p, n) ==
    /\ "refund" \in Calls /\ req[h] = Idle
    /\ p \in Created /\ payments[p].status # "PENDING"
    /\ payments[p].refunded + n <= Amount
    /\ Step(h, [op |-> "refund", pc |-> "commit", p |-> p, amount |-> n,
                refunded |-> payments[p].refunded, version |-> payments[p].version])
    /\ UNCHANGED <<payments, refunds, published, order, gateway>>

RefundPayment(h, p, n) ==
    /\ "refund" \in Calls /\ req[h] = Idle
    /\ payments[p].status \in {"SUCCEEDED", "PARTIAL_REFUND"}
    /\ payments[p].refunded + n <= Amount
    /\ Step(h, [op |-> "refund", pc |-> "commit", p |-> p, amount |-> n,
                refunded |-> payments[p].refunded, version |-> payments[p].version])
    /\ UNCHANGED <<payments, refunds, published, order, gateway>>

\* Mutant: the amount replaces what was refunded before.
BugRefunded(x) ==
    [payments[x.p] EXCEPT
       !.refunded = x.amount,
       !.status = IF x.amount = Amount THEN "REFUNDED" ELSE "PARTIAL_REFUND",
       !.version = @ + 1]

Refunded(x) ==
    [payments[x.p] EXCEPT
       !.refunded = x.refunded + x.amount,
       !.status = IF x.refunded + x.amount = Amount THEN "REFUNDED" ELSE "PARTIAL_REFUND",
       !.version = @ + 1]

\* Mutant: UPDATE ... WHERE id = $1, without the version.
BugVersionMatches(x) == TRUE

\* No other request wrote the payment since this one read it.
VersionMatches(x) == payments[x.p].version = x.version

\* Mutant: the two statements without a transaction, the refund last.
BugCommitRefund(h, r) ==
    /\ req[h].op = "refund" /\ req[h].pc = "commit"
    /\ refunds[r] = NoRefund
    /\ VersionMatches(req[h])
    /\ payments' = [payments EXCEPT ![req[h].p] = Refunded(req[h])]
    /\ \/ /\ refunds' = [refunds EXCEPT ![r] = [status |-> "PENDING", payment |-> req[h].p,
                                               amount |-> req[h].amount]]
          /\ Step(h, [op |-> "refund", pc |-> "gateway", r |-> r])
       \/ "db" \in Faults /\ End(h) /\ UNCHANGED refunds
    /\ UNCHANGED <<published, order, gateway>>

\* The transaction: INSERT the refund, UPDATE the payment WHERE version = the one
\* read.  Nobody looks at the number of rows; when the version moved while the
\* transaction was open, SERIALIZABLE aborts it.
CommitRefund(h, r) ==
    /\ req[h].op = "refund" /\ req[h].pc = "commit"
    /\ refunds[r] = NoRefund
    /\ LET x == req[h]
       IN  \/ /\ payments' = IF VersionMatches(x) THEN [payments EXCEPT ![x.p] = Refunded(x)]
                             ELSE payments
              /\ refunds' = [refunds EXCEPT ![r] =
                               [status |-> "PENDING", payment |-> x.p, amount |-> x.amount]]
              /\ publishPaymentEvent(x.p, "refunded")
              /\ Step(h, [op |-> "refund", pc |-> "gateway", r |-> r])
           \/ /\ ~VersionMatches(x) \/ "db" \in Faults
              /\ End(h)
              /\ UNCHANGED <<payments, refunds, published>>
    /\ UNCHANGED <<order, gateway>>

\* The goroutine that asks the gateway for the money back.
callProviderRefund(h) ==
    /\ req[h].op = "refund" /\ req[h].pc = "gateway"
    /\ \/ refunds' = [refunds EXCEPT ![req[h].r].status = "SUCCEEDED"]
       \/ ~DevMode /\ "gateway" \in Faults
          /\ refunds' = [refunds EXCEPT ![req[h].r].status = "FAILED"]
       \/ "db" \in Faults /\ UNCHANGED refunds
    /\ End(h)
    /\ UNCHANGED <<payments, published, order, gateway>>

-----------------------------------------------------------------------------
(* Environment *)

\* The customer pays through the gateway, or is denied or runs out of time.
GatewaySettles(o) ==
    /\ gateway[o] = "PENDING"
    /\ \E s \in {"SUCCEEDED", "FAILED"} : gateway' = [gateway EXCEPT ![o] = s]
    /\ UNCHANGED <<payments, refunds, published, req, order>>

\* The customer cancels the order.
OrderCancelled(o) ==
    /\ "cancel" \in Calls
    /\ order[o] \in {"PENDING", "PAID"}
    /\ order' = [order EXCEPT ![o] = "CANCELLED"]
    /\ UNCHANGED <<payments, refunds, published, req, gateway>>

\* The process dies, or the client goes away and its context is cancelled.
Crash(h) ==
    /\ "crash" \in Faults
    /\ req[h] # Idle
    /\ End(h)
    /\ UNCHANGED <<payments, refunds, published, order, gateway>>

Work(h) ==
    \/ fetchOrder(h) \/ FindByOrder(h)
    \/ \E p \in Payments : InsertPayment(h, p)
    \/ callPaymentProvider(h) \/ StoreOutcome(h) \/ TellOutcome(h)
    \/ WebhookFind(h)
    \/ \E r \in Refunds : CommitRefund(h, r)
    \/ callProviderRefund(h)

Accept(h) ==
    \/ \E o \in Orders, k \in Keys : CreatePayment(h, o, k)
    \/ \E o \in Orders : HandleMidtransWebhook(h, o)
    \/ \E p \in Payments, n \in 1..Amount : RefundPayment(h, p, n)

Next ==
    \/ \E h \in Requests : Work(h) \/ Accept(h) \/ Crash(h)
    \/ \E o \in Orders : GatewaySettles(o) \/ OrderCancelled(o)

\* A goroutine that is not killed runs to its end.
Fairness == \A h \in Requests : WF_vars(Work(h))

Spec == Init /\ [][Next]_vars /\ Fairness

-----------------------------------------------------------------------------
(* Properties *)

RefundTotal(p) ==
    MapThenSumSet(LAMBDA r : refunds[r].amount,
                  {r \in Refunds : refunds[r] # NoRefund /\ refunds[r].payment = p})

\* Whatever races with it and wherever it fails, a refund that counts against a
\* payment has a row: refunded_amount is never more than the refunds add up to.
RefundsRecorded == \A p \in Created : payments[p].refunded <= RefundTotal(p)

\* The version column keeps refunds apart: the amount refunded of a payment never
\* falls, so no refund is overwritten by one that read the row before it.
RefundsAccumulate ==
    [][\A p \in Created : payments'[p].refunded >= payments[p].refunded]_vars

\* Money goes back from paid money only: at the moment a refund is counted the payment
\* is SUCCEEDED or PARTIAL_REFUND, though RefundPayment looked at the status before it
\* opened its transaction and a webhook may have overwritten it since.
RefundsTakePaid ==
    [][\A p \in Created :
         payments'[p].refunded # payments[p].refunded
           => payments[p].status \in {"SUCCEEDED", "PARTIAL_REFUND"}]_vars

\* As long as the gateway's webhook and other administrators stay away, the refunds
\* of a payment add up to its refunded_amount.
RefundedIsSum == \A p \in Created : payments[p].refunded = RefundTotal(p)

\* Without a webhook, a payment follows ValidPaymentTransitions (a further partial
\* refund of a PARTIAL_REFUND payment aside).
FollowsTransitions ==
    [][\A p \in Created :
         payments'[p].status # payments[p].status
           => payments'[p].status \in ValidPaymentTransitions[payments[p].status]]_vars

\* A payment that was made gets an outcome.
PaymentIsDecided ==
    \A p \in Payments : (payments[p].status = "PENDING") ~> (payments[p].status # "PENDING")

\* The refunds of a payment never exceed what was paid.
TotalRefundLimit == \A p \in Created : RefundTotal(p) <= Amount

-----------------------------------------------------------------------------
(* Promises of the documents and comments that the code does not keep: no run  *)
(* of the project checks them, README.md says how each one fails.              *)

\* FAILED and REFUNDED are terminal.
TerminalIsFinal ==
    [][\A p \in Created :
         payments[p].status \in {"FAILED", "REFUNDED"}
           => payments'[p].status = payments[p].status]_vars

\* An order is paid by one payment.
OnePaidPerOrder ==
    \A p, q \in Created :
        /\ payments[p].order = payments[q].order
        /\ payments[p].status = "SUCCEEDED" /\ payments[q].status = "SUCCEEDED"
           => p = q

\* CreatePayment only hands back a payment of the order that can still be paid.
ResumedIsPending ==
    [][\A h \in Requests :
         FindByOrder(h)
           => \A p \in Of(req[h].o) :
                Latest(p) => payments[p].status \in {"PENDING", "SUCCEEDED"}]_vars

\* A payment is SUCCEEDED only once the gateway has the money.
SucceededIsSettled ==
    \A p \in Created :
        payments[p].status = "SUCCEEDED" => gateway[payments[p].order] = "SUCCEEDED"

\* order-service hears of every payment that SUCCEEDED.
SuccessIsTold ==
    \A o \in Orders :
        (\E p \in Of(o) : payments[p].status = "SUCCEEDED") ~> (order[o] # "PENDING")
=============================================================================
