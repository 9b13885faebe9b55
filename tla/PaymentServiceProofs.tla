------------------------ MODULE PaymentServiceProofs ------------------------
(***************************************************************************)
(* Theorems about PaymentService, for any number of orders, payments,        *)
(* refunds and concurrent requests and with every failure of the model.      *)
(***************************************************************************)
EXTENDS PaymentService, SetSums

Settling(x) == x.op \in {"create", "webhook"} /\ x.pc \in {"gateway", "update", "notify"}
Committing(x) == x.op = "refund" /\ x.pc = "commit"
Returning(x) == x.op = "refund" /\ x.pc = "gateway"

\* A request only works on rows that exist.
RowsExist ==
    \A h \in Requests :
        /\ Settling(req[h]) => payments[req[h].p] # NoPayment
        /\ Committing(req[h]) => payments[req[h].p] # NoPayment
        /\ Returning(req[h]) => refunds[req[h].r] # NoRefund

Refundable(row) == row.status \in {"SUCCEEDED", "PARTIAL_REFUND"}

\* What the version column is for: a refund that finds the version it read also
\* finds the refunded amount it read, and a status that it may refund.
VersionsTell ==
    \A h \in Requests : Committing(req[h]) =>
        /\ req[h].version <= payments[req[h].p].version
        /\ req[h].version = payments[req[h].p].version
             => /\ req[h].refunded = payments[req[h].p].refunded
                /\ Refundable(payments[req[h].p])

IInv == TypeOK /\ RowsExist /\ VersionsTell

\* No payment is deleted, and one that changes gets a new version.
RowsAdvance ==
    \A p \in Payments : payments[p] # NoPayment =>
        /\ payments'[p] # NoPayment
        /\ payments'[p].version >= payments[p].version
        /\ payments'[p].version = payments[p].version => payments'[p] = payments[p]

\* What a step may do to the amounts refunded.
RefundsStep ==
    \A p \in Created :
        /\ payments'[p].refunded >= payments[p].refunded
        /\ payments'[p].refunded # payments[p].refunded => Refundable(payments[p])

-----------------------------------------------------------------------------
(* Requests *)

AnyReq == {Idle} \cup CreateReq \cup SettleReq \cup FetchedReq \cup RefundReq \cup RefundCall

LEMMA ReqKinds ==
    ASSUME TypeOK, NEW h \in Requests
    PROVE  /\ Settling(req[h]) => req[h] \in SettleReq
           /\ Committing(req[h]) => req[h] \in RefundReq
           /\ Returning(req[h]) => req[h] \in RefundCall
           /\ req[h].op = "create" /\ ~Settling(req[h]) => req[h] \in CreateReq
           /\ req[h].op = "webhook" /\ ~Settling(req[h]) => req[h] \in FetchedReq
  BY DEF TypeOK, Idle, CreateReq, SettleReq, FetchedReq, RefundReq, RefundCall,
         Settling, Committing, Returning

LEMMA StepIs ==
    ASSUME TypeOK, NEW h \in Requests, NEW x \in AnyReq, Step(h, x)
    PROVE  /\ req' \in [Requests -> AnyReq]
           /\ \A g \in Requests : req'[g] = IF g = h THEN x ELSE req[g]
  BY DEF Step, TypeOK, AnyReq

LEMMA RowType ==
    ASSUME TypeOK, NEW p \in Payments, payments[p] # NoPayment
    PROVE  /\ payments[p] \in Payment
           /\ payments[p].version \in Nat /\ payments[p].refunded \in 0..Amount
  BY DEF TypeOK, Payment

Rewritten(row, n, s, v) == [row EXCEPT !.refunded = n, !.status = s, !.version = v + 1]

LEMMA RowUpdate ==
    ASSUME NEW row \in Payment, NEW n \in 0..Amount, NEW s \in PaymentStatus, NEW v \in Nat
    PROVE  /\ Rewritten(row, n, s, v) \in Payment
           /\ Rewritten(row, n, s, v).refunded = n
           /\ Rewritten(row, n, s, v).version = v + 1
  <1>1. [row EXCEPT !.refunded = n] \in Payment
    BY DEF Payment
  <1>2. [row EXCEPT !.refunded = n, !.status = s] \in Payment
    BY <1>1 DEF Payment
  <1>3. v + 1 \in Nat
    OBVIOUS
  <1>4. Rewritten(row, n, s, v) \in Payment
    BY <1>2, <1>3 DEF Payment, Rewritten
  <1> QED
    BY <1>4 DEF Payment, Rewritten

\* A step of request h to x keeps the invariant when the rows advance and x
\* satisfies what the invariant says of a request.
LEMMA RequestStep ==
    ASSUME IInv, NEW h \in Requests, NEW x \in AnyReq, Step(h, x),
           payments' \in [Payments -> {NoPayment} \cup Payment], RowsAdvance,
           refunds' \in [Refunds -> {NoRefund} \cup Refund],
           \A r \in Refunds : refunds[r] # NoRefund => refunds'[r] # NoRefund,
           published' \in [Payments -> SUBSET Events],
           order' \in [Orders -> OrderStatus],
           gateway' \in [Orders -> GatewayStatus],
           Settling(x) => payments'[x.p] # NoPayment,
           Committing(x) =>
             /\ payments'[x.p] # NoPayment
             /\ x.version = payments'[x.p].version /\ x.refunded = payments'[x.p].refunded
             /\ Refundable(payments'[x.p]),
           Returning(x) => refunds'[x.r] # NoRefund
    PROVE  IInv'
  <1> USE DEF IInv
  <1>1. \A g \in Requests : req'[g] = IF g = h THEN x ELSE req[g]
    BY StepIs
  <1>2. TypeOK'
    BY StepIs DEF TypeOK, AnyReq
  <1>3. ASSUME NEW g \in Requests, g # h
        PROVE  /\ Settling(req[g]) => payments'[req[g].p] # NoPayment
               /\ Committing(req[g]) => payments'[req[g].p] # NoPayment
               /\ Returning(req[g]) => refunds'[req[g].r] # NoRefund
    <2>1. /\ Settling(req[g]) => req[g].p \in Payments
          /\ Committing(req[g]) => req[g].p \in Payments
          /\ Returning(req[g]) => req[g].r \in Refunds
      BY ReqKinds DEF SettleReq, RefundReq, RefundCall
    <2> QED
      BY <2>1 DEF RowsExist, RowsAdvance
  <1>4. RowsExist'
    BY <1>1, <1>3 DEF RowsExist, Settling, Committing, Returning
  <1>5. ASSUME NEW g \in Requests, g # h, Committing(req[g])
        PROVE  /\ req[g].version <= payments'[req[g].p].version
               /\ req[g].version = payments'[req[g].p].version
                    => /\ req[g].refunded = payments'[req[g].p].refunded
                       /\ Refundable(payments'[req[g].p])
    <2> DEFINE p == req[g].p
    <2>1. p \in Payments /\ req[g].version \in Nat
      BY <1>5, ReqKinds DEF RefundReq
    <2>2. payments[p] # NoPayment
      BY <1>5 DEF RowsExist
    <2>3. payments[p].version \in Nat
      BY <2>1, <2>2, RowType
    <2>4. /\ payments'[p] # NoPayment
          /\ payments'[p].version >= payments[p].version
          /\ payments'[p].version = payments[p].version => payments'[p] = payments[p]
      BY <2>1, <2>2 DEF RowsAdvance
    <2>5. payments'[p].version \in Nat
      BY <1>2, <2>1, <2>4 DEF TypeOK, Payment
    <2>6. /\ req[g].version <= payments[p].version
          /\ req[g].version = payments[p].version
               => req[g].refunded = payments[p].refunded /\ Refundable(payments[p])
      BY <1>5 DEF VersionsTell
    <2> QED
      BY <2>1, <2>3, <2>4, <2>5, <2>6
  <1>6. ASSUME Committing(x)
        PROVE  x.version <= payments'[x.p].version
    <2>1. x.version \in Nat
      BY <1>6 DEF AnyReq, Idle, CreateReq, SettleReq, FetchedReq, RefundReq, RefundCall,
                  Committing
    <2> QED
      BY <1>6, <2>1
  <1>7. VersionsTell'
    BY <1>1, <1>5, <1>6 DEF VersionsTell, Committing
  <1> QED
    BY <1>2, <1>4, <1>7

\* Most steps leave the rows alone.
LEMMA QuietStep ==
    ASSUME IInv, NEW h \in Requests, NEW x \in AnyReq, Step(h, x),
           UNCHANGED <<payments, refunds>>,
           published' \in [Payments -> SUBSET Events],
           order' \in [Orders -> OrderStatus],
           gateway' \in [Orders -> GatewayStatus],
           Settling(x) => payments[x.p] # NoPayment,
           Committing(x) =>
             /\ payments[x.p] # NoPayment
             /\ x.version = payments[x.p].version /\ x.refunded = payments[x.p].refunded
             /\ Refundable(payments[x.p]),
           Returning(x) => refunds[x.r] # NoRefund
    PROVE  IInv' /\ RefundsStep
  <1>1. RowsAdvance /\ RefundsStep
    BY RowType DEF IInv, RowsAdvance, RefundsStep, Created
  <1>2. payments' \in [Payments -> {NoPayment} \cup Payment]
        /\ refunds' \in [Refunds -> {NoRefund} \cup Refund]
    BY DEF IInv, TypeOK
  <1>3. IInv'
    BY <1>1, <1>2, RequestStep
  <1> QED
    BY <1>1, <1>3

\* Steps of the environment, which move no request and no row.
LEMMA EnvironmentStep ==
    ASSUME IInv, UNCHANGED <<req, payments, refunds, published>>,
           order' \in [Orders -> OrderStatus],
           gateway' \in [Orders -> GatewayStatus]
    PROVE  IInv' /\ RefundsStep
  <1>1. TypeOK'
    BY DEF IInv, TypeOK
  <1>2. RefundsStep
    BY RowType DEF IInv, RefundsStep, Created
  <1> QED
    BY <1>1, <1>2 DEF IInv, RowsExist, VersionsTell

LEMMA TypeParts ==
    ASSUME TypeOK
    PROVE  /\ published \in [Payments -> SUBSET Events]
           /\ order \in [Orders -> OrderStatus]
           /\ gateway \in [Orders -> GatewayStatus]
           /\ payments \in [Payments -> {NoPayment} \cup Payment]
           /\ refunds \in [Refunds -> {NoRefund} \cup Refund]
  BY DEF TypeOK

LEMMA PublishType ==
    ASSUME TypeOK, NEW p \in Payments, NEW e \in Events, publishPaymentEvent(p, e)
    PROVE  published' \in [Payments -> SUBSET Events]
  BY DEF publishPaymentEvent, TypeOK

LEMMA IdleReq == Idle \in AnyReq /\ ~Settling(Idle) /\ ~Committing(Idle) /\ ~Returning(Idle)
  BY DEF AnyReq, Idle, Settling, Committing, Returning

-----------------------------------------------------------------------------
(* One lemma per operation *)

LEMMA InitIInv == Init => IInv
  <1> SUFFICES ASSUME Init PROVE IInv
    OBVIOUS
  <1>1. TypeOK
    BY DEF Init, TypeOK, Events, OrderStatus, GatewayStatus
  <1>2. RowsExist /\ VersionsTell
    BY IdleReq DEF Init, RowsExist, VersionsTell
  <1> QED
    BY <1>1, <1>2 DEF IInv

\* Requests that end without a trace.
LEMMA EndStep ==
    ASSUME IInv, NEW h \in Requests, End(h), UNCHANGED <<payments, refunds>>,
           published' \in [Payments -> SUBSET Events],
           order' \in [Orders -> OrderStatus],
           gateway' \in [Orders -> GatewayStatus]
    PROVE  IInv' /\ RefundsStep
  BY IdleReq, QuietStep DEF End

LEMMA CreateStep ==
    ASSUME IInv, NEW h \in Requests, NEW o \in Orders, NEW k \in Keys, CreatePayment(h, o, k)
    PROVE  IInv' /\ RefundsStep
  <1> DEFINE x == [op |-> "create", pc |-> "fetch", o |-> o, key |-> k]
  <1>1. x \in AnyReq /\ ~Settling(x) /\ ~Committing(x) /\ ~Returning(x)
    BY DEF AnyReq, CreateReq, Settling, Committing, Returning
  <1> QED
    BY <1>1, QuietStep, TypeParts DEF IInv, CreatePayment

LEMMA FetchStep ==
    ASSUME IInv, NEW h \in Requests, fetchOrder(h)
    PROVE  IInv' /\ RefundsStep
  <1> DEFINE x == [req[h] EXCEPT !.pc = "find"]
  <1>1. req[h] \in CreateReq
    BY ReqKinds DEF IInv, fetchOrder, Settling
  <1>2. x \in AnyReq /\ ~Settling(x) /\ ~Committing(x) /\ ~Returning(x)
    BY <1>1 DEF AnyReq, CreateReq, Settling, Committing, Returning
  <1> QED
    BY <1>2, QuietStep, EndStep, TypeParts DEF IInv, fetchOrder

LEMMA FindStep ==
    ASSUME IInv, NEW h \in Requests, FindByOrder(h)
    PROVE  IInv' /\ RefundsStep
  <1> DEFINE x == [req[h] EXCEPT !.pc = "insert"]
  <1>1. req[h] \in CreateReq
    BY ReqKinds DEF IInv, FindByOrder, Settling
  <1>2. x \in AnyReq /\ ~Settling(x) /\ ~Committing(x) /\ ~Returning(x)
    BY <1>1 DEF AnyReq, CreateReq, Settling, Committing, Returning
  <1> QED
    BY <1>2, QuietStep, EndStep, TypeParts DEF IInv, FindByOrder

LEMMA InsertStep ==
    ASSUME IInv, NEW h \in Requests, NEW p \in Payments, InsertPayment(h, p)
    PROVE  IInv' /\ RefundsStep
  <1>1. req[h] \in CreateReq
    BY ReqKinds DEF IInv, InsertPayment, Settling
  <1>2. req[h].o \in Orders /\ req[h].key \in Keys
    BY <1>1 DEF CreateReq
  <1>3. CASE End(h) /\ UNCHANGED payments
    BY <1>3, EndStep, TypeParts DEF IInv, InsertPayment
  <1>4. CASE ~(End(h) /\ UNCHANGED payments)
    <2> DEFINE row == [status |-> "PENDING", order |-> req[h].o, key |-> req[h].key,
                       refunded |-> 0, version |-> 1, created |-> Cardinality(Created)]
               x == [op |-> "create", pc |-> "gateway", o |-> req[h].o, p |-> p,
                     outcome |-> "PENDING"]
    <2>1. payments' = [payments EXCEPT ![p] = row] /\ Step(h, x)
      BY <1>4 DEF InsertPayment
    <2>2. Cardinality(Created) \in Nat
      BY PaymentAssumption, FS_Subset, FS_CardinalityType DEF Created
    <2>3. row \in Payment
      BY <1>2, <2>2, PaymentAssumption DEF Payment, PaymentStatus
    <2>4. row # NoPayment
      BY DEF NoPayment
    <2>5. /\ payments' \in [Payments -> {NoPayment} \cup Payment]
          /\ payments'[p] = row /\ payments[p] = NoPayment
          /\ \A q \in Payments : q # p => payments'[q] = payments[q]
      BY <2>1, <2>3 DEF IInv, TypeOK, InsertPayment
    <2>6. RowsAdvance /\ RefundsStep
      BY <2>5, RowType DEF IInv, RowsAdvance, RefundsStep, Created
    <2>7. x \in AnyReq /\ ~Committing(x) /\ ~Returning(x) /\ x.p = p
      BY <1>2 DEF AnyReq, SettleReq, Committing, Returning
    <2>8. payments'[x.p] # NoPayment
      BY <2>4, <2>5
    <2>9. UNCHANGED <<refunds, published, order, gateway>>
      BY DEF InsertPayment
    <2>10. IInv'
      <3>1. TypeOK
        BY DEF IInv
      <3> HIDE DEF row, x
      <3> QED
        BY <2>1, <2>5, <2>6, <2>7, <2>8, <2>9, <3>1, RequestStep, TypeParts
    <2> QED
      BY <2>6, <2>10
  <1> QED
    BY <1>3, <1>4

LEMMA ProviderStep ==
    ASSUME IInv, NEW h \in Requests, callPaymentProvider(h)
    PROVE  IInv' /\ RefundsStep
  <1>1. Settling(req[h]) /\ req[h] \in SettleReq
    BY ReqKinds DEF IInv, callPaymentProvider, Settling
  <1>2. payments[req[h].p] # NoPayment
    BY <1>1 DEF IInv, RowsExist
  <1>3. gateway' \in [Orders -> GatewayStatus]
    BY TypeParts DEF IInv, callPaymentProvider, GatewayStatus
  <1>4. ASSUME NEW s \in {"SUCCEEDED", "FAILED"},
               Step(h, [req[h] EXCEPT !.pc = "update", !.outcome = s])
        PROVE  IInv' /\ RefundsStep
    <2> DEFINE x == [req[h] EXCEPT !.pc = "update", !.outcome = s]
    <2>1. x \in AnyReq /\ ~Committing(x) /\ ~Returning(x) /\ x.p = req[h].p
      BY <1>1 DEF AnyReq, SettleReq, Committing, Returning
    <2> QED
      BY <1>2, <1>3, <1>4, <2>1, QuietStep, TypeParts DEF IInv, callPaymentProvider
  <1> QED
    BY <1>4 DEF callPaymentProvider

LEMMA StoreStep ==
    ASSUME IInv, NEW h \in Requests, StoreOutcome(h)
    PROVE  IInv' /\ RefundsStep
  <1> DEFINE x == [req[h] EXCEPT !.pc = "notify"]
             p == req[h].p
  <1>1. Settling(req[h]) /\ req[h] \in SettleReq
    BY ReqKinds DEF IInv, StoreOutcome, Settling
  <1>2. x \in AnyReq /\ ~Committing(x) /\ ~Returning(x) /\ x.p = p
    BY <1>1 DEF AnyReq, SettleReq, Committing, Returning
  <1>3. p \in Payments /\ req[h].outcome \in PaymentStatus
    BY <1>1 DEF SettleReq, PaymentStatus
  <1>4. payments[p] # NoPayment
    BY <1>1 DEF IInv, RowsExist
  <1>5. Step(h, x) /\ UNCHANGED <<refunds, published, order, gateway>>
    BY DEF StoreOutcome
  <1>6. CASE UNCHANGED payments
    BY <1>2, <1>4, <1>5, <1>6, QuietStep, TypeParts DEF IInv
  <1>7. CASE ~UNCHANGED payments
    <2> DEFINE row == [payments[p] EXCEPT !.status = req[h].outcome, !.version = @ + 1]
    <2>1. payments' = [payments EXCEPT ![p] = row]
      BY <1>7, <1>3 DEF StoreOutcome, updatePaymentStatus, IInv, TypeOK
    <2>2. payments[p] \in Payment /\ payments[p].version \in Nat
      BY <1>3, <1>4, RowType DEF IInv
    <2>3. /\ row \in Payment /\ row.version = payments[p].version + 1
          /\ row.refunded = payments[p].refunded
      <3>1. payments[p].refunded \in 0..Amount
        BY <2>2 DEF Payment
      <3>2. row = Rewritten(payments[p], payments[p].refunded, req[h].outcome,
                            payments[p].version)
        BY <2>2 DEF Payment, Rewritten
      <3> HIDE DEF row, p, x
      <3> DEFINE old == payments[p]
                 s == req[h].outcome
      <3>3. old \in Payment /\ s \in PaymentStatus /\ old.version \in Nat
            /\ old.refunded \in 0..Amount /\ row = Rewritten(old, old.refunded, s, old.version)
        BY <1>3, <2>2, <3>1, <3>2
      <3> HIDE DEF old, s
      <3>4. row \in Payment /\ row.version = old.version + 1 /\ row.refunded = old.refunded
        BY <3>3, RowUpdate
      <3> QED
        BY <3>4 DEF old
    <2>4. row # NoPayment
      BY <2>3 DEF Payment, NoPayment, PaymentStatus
    <2> HIDE DEF row, x
    <2>5. /\ payments' \in [Payments -> {NoPayment} \cup Payment]
          /\ payments'[p] = row
          /\ \A q \in Payments : q # p => payments'[q] = payments[q]
      BY <1>3, <2>1, <2>3, TypeParts DEF IInv
    <2>6. RowsAdvance /\ RefundsStep
      BY <2>2, <2>3, <2>4, <2>5, RowType DEF IInv, RowsAdvance, RefundsStep, Created
    <2>7. IInv'
      BY <1>2, <1>5, <2>4, <2>5, <2>6, RequestStep, TypeParts DEF IInv
    <2> QED
      BY <2>6, <2>7
  <1> QED
    BY <1>6, <1>7

LEMMA TellStep ==
    ASSUME IInv, NEW h \in Requests, TellOutcome(h)
    PROVE  IInv' /\ RefundsStep
  <1>1. req[h] \in SettleReq
    BY ReqKinds DEF IInv, TellOutcome, Settling
  <1>2. req[h].p \in Payments /\ req[h].o \in Orders
    BY <1>1 DEF SettleReq
  <1>3. published' \in [Payments -> SUBSET Events]
    BY <1>2, PublishType DEF IInv, TellOutcome, Events
  <1>4. order' \in [Orders -> OrderStatus]
    BY <1>2, TypeParts DEF IInv, TellOutcome, notifyOrderService, OrderStatus
  <1> QED
    BY <1>3, <1>4, EndStep, TypeParts DEF IInv, TellOutcome

LEMMA WebhookStep ==
    ASSUME IInv, NEW h \in Requests, NEW o \in Orders, HandleMidtransWebhook(h, o)
    PROVE  IInv' /\ RefundsStep
  <1> DEFINE x == [op |-> "webhook", pc |-> "find", o |-> o, outcome |-> gateway[o]]
  <1>1. x \in AnyReq /\ ~Settling(x) /\ ~Committing(x) /\ ~Returning(x)
    BY DEF AnyReq, FetchedReq, Settling, Committing, Returning, HandleMidtransWebhook
  <1> QED
    BY <1>1, QuietStep, TypeParts DEF IInv, HandleMidtransWebhook

LEMMA WebhookFindStep ==
    ASSUME IInv, NEW h \in Requests, WebhookFind(h)
    PROVE  IInv' /\ RefundsStep
  <1>1. req[h] \in FetchedReq
    BY ReqKinds DEF IInv, WebhookFind, Settling
  <1>2. ASSUME NEW p \in Of(req[h].o),
               Step(h, [op |-> "webhook", pc |-> "update", o |-> req[h].o, p |-> p,
                        outcome |-> req[h].outcome])
        PROVE  IInv' /\ RefundsStep
    <2> DEFINE x == [op |-> "webhook", pc |-> "update", o |-> req[h].o, p |-> p,
                     outcome |-> req[h].outcome]
    <2>1. p \in Payments /\ payments[p] # NoPayment
      BY DEF Of, Created
    <2>2. x \in AnyReq /\ ~Committing(x) /\ ~Returning(x) /\ x.p = p
      BY <1>1, <2>1 DEF AnyReq, FetchedReq, SettleReq, Committing, Returning
    <2> QED
      BY <1>2, <2>1, <2>2, QuietStep, TypeParts DEF IInv, WebhookFind
  <1>3. CASE End(h)
    BY <1>3, EndStep, TypeParts DEF IInv, WebhookFind
  <1> QED
    BY <1>2, <1>3 DEF WebhookFind

LEMMA RefundStep ==
    ASSUME IInv, NEW h \in Requests, NEW p \in Payments, NEW n \in 1..Amount,
           RefundPayment(h, p, n)
    PROVE  IInv' /\ RefundsStep
  <1> DEFINE x == [op |-> "refund", pc |-> "commit", p |-> p, amount |-> n,
                   refunded |-> payments[p].refunded, version |-> payments[p].version]
  <1>1. payments[p] # NoPayment
    BY DEF RefundPayment, NoPayment
  <1>2. /\ payments[p].version \in Nat /\ payments[p].refunded \in 0..Amount
        /\ payments[p].refunded + n <= Amount
    BY <1>1, RowType DEF IInv, RefundPayment
  <1>3. /\ x \in AnyReq /\ ~Settling(x) /\ ~Returning(x) /\ x.p = p
        /\ x.version = payments[p].version /\ x.refunded = payments[p].refunded
        /\ Refundable(payments[p])
    BY <1>2 DEF AnyReq, RefundReq, Settling, Returning, RefundPayment, Refundable
  <1> HIDE DEF x
  <1>4. Step(h, x) /\ UNCHANGED <<payments, refunds, published, order, gateway>>
    BY DEF RefundPayment, x
  <1> QED
    BY <1>1, <1>3, <1>4, QuietStep, TypeParts DEF IInv

\* The row a refund writes is the current one with its own amount added.
LEMMA RefundedRow ==
    ASSUME IInv, NEW h \in Requests, Committing(req[h]),
           payments[req[h].p].version = req[h].version
    PROVE  LET row == Refunded(req[h])
               old == payments[req[h].p]
           IN  /\ row \in Payment /\ row.version = old.version + 1
               /\ row.refunded = old.refunded + req[h].amount
               /\ row.refunded >= old.refunded
               /\ Refundable(old)
  <1> DEFINE old == payments[req[h].p]
             total == req[h].refunded + req[h].amount
  <1>1. req[h] \in RefundReq
    BY ReqKinds DEF IInv
  <1>2. req[h].p \in Payments /\ req[h].amount \in 1..Amount /\ req[h].refunded \in 0..Amount
    BY <1>1 DEF RefundReq
  <1>3. old # NoPayment /\ req[h].refunded = old.refunded /\ Refundable(old)
    BY DEF IInv, RowsExist, VersionsTell
  <1>4. old \in Payment /\ old.version \in Nat
    BY <1>2, <1>3, RowType DEF IInv
  <1>5. total \in 0..Amount /\ total >= old.refunded
    BY <1>1, <1>2, <1>3, PaymentAssumption DEF RefundReq
  <1> DEFINE s == IF total = Amount THEN "REFUNDED" ELSE "PARTIAL_REFUND"
  <1>6. s \in PaymentStatus
    BY DEF PaymentStatus
  <1> HIDE DEF total, s
  <1>7. Refunded(req[h]) = Rewritten(old, total, s, old.version)
    BY <1>4 DEF Refunded, Rewritten, total, s, Payment
  <1>8. /\ Refunded(req[h]) \in Payment
        /\ Refunded(req[h]).refunded = total
        /\ Refunded(req[h]).version = old.version + 1
    BY <1>4, <1>5, <1>6, <1>7, RowUpdate
  <1> QED
    BY <1>3, <1>5, <1>8 DEF total

LEMMA CommitStep ==
    ASSUME IInv, NEW h \in Requests, NEW r \in Refunds, CommitRefund(h, r)
    PROVE  IInv' /\ RefundsStep
  <1> DEFINE p == req[h].p
             x == [op |-> "refund", pc |-> "gateway", r |-> r]
             new == [status |-> "PENDING", payment |-> p, amount |-> req[h].amount]
  <1>1. Committing(req[h]) /\ req[h] \in RefundReq
    BY ReqKinds DEF IInv, CommitRefund, Committing
  <1>2. p \in Payments /\ req[h].amount \in 1..Amount
    BY <1>1 DEF RefundReq
  <1>3. payments[p] # NoPayment
    BY <1>1 DEF IInv, RowsExist
  <1>4. UNCHANGED <<order, gateway>>
    BY DEF CommitRefund
  <1>5. CASE End(h) /\ UNCHANGED <<payments, refunds, published>>
    BY <1>4, <1>5, EndStep, TypeParts DEF IInv
  <1>6. CASE ~(End(h) /\ UNCHANGED <<payments, refunds, published>>)
    <2>1. /\ payments' = IF payments[p].version = req[h].version
                         THEN [payments EXCEPT ![p] = Refunded(req[h])] ELSE payments
          /\ refunds' = [refunds EXCEPT ![r] = new]
          /\ publishPaymentEvent(p, "refunded")
          /\ Step(h, x)
      BY <1>6 DEF CommitRefund, VersionMatches
    <2>2. x \in AnyReq /\ ~Settling(x) /\ ~Committing(x) /\ x.r = r
      BY DEF AnyReq, RefundCall, Settling, Committing
    <2>3. new \in Refund /\ new # NoRefund
      BY <1>2 DEF Refund, NoRefund
    <2>4. /\ refunds' \in [Refunds -> {NoRefund} \cup Refund]
          /\ refunds'[r] # NoRefund
          /\ \A q \in Refunds : refunds[q] # NoRefund => refunds'[q] # NoRefund
      BY <2>1, <2>3, TypeParts DEF IInv
    <2>5. published' \in [Payments -> SUBSET Events]
      BY <1>2, <2>1, PublishType DEF IInv, Events
    <2>6. payments' \in [Payments -> {NoPayment} \cup Payment] /\ RowsAdvance /\ RefundsStep
      <3>1. CASE payments[p].version # req[h].version
        BY <2>1, <3>1, RowType, TypeParts DEF IInv, RowsAdvance, RefundsStep, Created
      <3>2. CASE payments[p].version = req[h].version
        <4> DEFINE row == Refunded(req[h])
        <4>1. /\ row \in Payment /\ row.version = payments[p].version + 1
              /\ row.refunded >= payments[p].refunded /\ Refundable(payments[p])
          BY <1>1, <3>2, RefundedRow
        <4>2. row # NoPayment
          BY <4>1 DEF Payment, NoPayment, PaymentStatus
        <4> HIDE DEF row
        <4>3. payments' = [payments EXCEPT ![p] = row]
          BY <2>1, <3>2 DEF row
        <4>4. /\ payments' \in [Payments -> {NoPayment} \cup Payment]
              /\ payments'[p] = row
              /\ \A q \in Payments : q # p => payments'[q] = payments[q]
          BY <1>2, <4>1, <4>3, TypeParts DEF IInv
        <4>5. payments[p].version \in Nat
          BY <1>2, <1>3, RowType DEF IInv
        <4> QED
          BY <4>1, <4>2, <4>4, <4>5, RowType DEF IInv, RowsAdvance, RefundsStep, Created
      <3> QED
        BY <3>1, <3>2
    <2> HIDE DEF x, new
    <2>7. IInv'
      BY <1>4, <2>1, <2>2, <2>4, <2>5, <2>6, RequestStep, TypeParts DEF IInv
    <2> QED
      BY <2>6, <2>7
  <1> QED
    BY <1>5, <1>6

LEMMA RefundCallStep ==
    ASSUME IInv, NEW h \in Requests, callProviderRefund(h)
    PROVE  IInv' /\ RefundsStep
  <1>1. Returning(req[h]) /\ req[h] \in RefundCall
    BY ReqKinds DEF IInv, callProviderRefund, Returning
  <1>2. req[h].r \in Refunds /\ refunds[req[h].r] # NoRefund
    BY <1>1 DEF RefundCall, IInv, RowsExist
  <1>3. refunds[req[h].r] \in Refund
    BY <1>2 DEF IInv, TypeOK
  <1>4. ASSUME NEW s \in {"SUCCEEDED", "FAILED"},
               refunds' = [refunds EXCEPT ![req[h].r].status = s]
        PROVE  /\ refunds' \in [Refunds -> {NoRefund} \cup Refund]
               /\ \A q \in Refunds : refunds[q] # NoRefund => refunds'[q] # NoRefund
    <2> DEFINE new == [refunds[req[h].r] EXCEPT !.status = s]
    <2>1. new \in Refund
      BY <1>3 DEF Refund
    <2>2. new # NoRefund
      BY <2>1 DEF Refund, NoRefund
    <2>3. refunds' = [refunds EXCEPT ![req[h].r] = new]
      BY <1>2, <1>4, TypeParts DEF IInv
    <2> HIDE DEF new
    <2> QED
      BY <1>2, <2>1, <2>2, <2>3, TypeParts DEF IInv
  <1>5. /\ refunds' \in [Refunds -> {NoRefund} \cup Refund]
        /\ \A q \in Refunds : refunds[q] # NoRefund => refunds'[q] # NoRefund
    BY <1>4, TypeParts DEF IInv, callProviderRefund
  <1>6. Step(h, Idle) /\ UNCHANGED <<payments, published, order, gateway>>
    BY DEF callProviderRefund, End
  <1>7. RowsAdvance /\ RefundsStep
    BY <1>6, RowType DEF IInv, RowsAdvance, RefundsStep, Created
  <1>8. IInv'
    BY <1>5, <1>6, <1>7, IdleReq, RequestStep, TypeParts DEF IInv
  <1> QED
    BY <1>7, <1>8

LEMMA OutsideStep ==
    ASSUME IInv, NEW o \in Orders, GatewaySettles(o) \/ OrderCancelled(o)
    PROVE  IInv' /\ RefundsStep
  <1>1. order' \in [Orders -> OrderStatus]
    BY TypeParts DEF IInv, GatewaySettles, OrderCancelled, OrderStatus
  <1>2. gateway' \in [Orders -> GatewayStatus]
    BY TypeParts DEF IInv, GatewaySettles, OrderCancelled, GatewayStatus
  <1> QED
    BY <1>1, <1>2, EnvironmentStep DEF GatewaySettles, OrderCancelled

LEMMA NextIInv ==
    ASSUME IInv, [Next]_vars
    PROVE  IInv' /\ RefundsStep
  <1>1. CASE UNCHANGED vars
    BY <1>1, EnvironmentStep, TypeParts DEF IInv, vars
  <1>2. ASSUME NEW h \in Requests, Work(h)
        PROVE  IInv' /\ RefundsStep
    BY <1>2, FetchStep, FindStep, InsertStep, ProviderStep, StoreStep, TellStep,
       WebhookFindStep, CommitStep, RefundCallStep DEF Work
  <1>3. ASSUME NEW h \in Requests, Accept(h)
        PROVE  IInv' /\ RefundsStep
    BY <1>3, CreateStep, WebhookStep, RefundStep DEF Accept
  <1>4. ASSUME NEW h \in Requests, Crash(h)
        PROVE  IInv' /\ RefundsStep
    BY <1>4, EndStep, TypeParts DEF IInv, Crash
  <1> QED
    BY <1>1, <1>2, <1>3, <1>4, OutsideStep DEF Next

LEMMA Invariance == Spec => []IInv
  <1>1. IInv /\ [Next]_vars => IInv'
    BY NextIInv
  <1> QED
    BY <1>1, InitIInv, PTL DEF Spec

-----------------------------------------------------------------------------
(* What the refunds of a payment add up to *)

Amounts == [r \in Refunds |-> refunds[r].amount]
RefundsOf(p) == {r \in Refunds : refunds[r] # NoRefund /\ refunds[r].payment = p}

\* There are ids without end, but only so many are in use.
FinitelyMany == IsFiniteSet({r \in Refunds : refunds[r] # NoRefund})

LEMMA AmountsAddUp ==
    ASSUME NEW row, NEW f, NEW S, IsFiniteSet(S), \A r \in S : f[r] = row[r].amount
    PROVE  MapThenSumSet(LAMBDA r : row[r].amount, S) = SumOver(f, S)
  <1> DEFINE Recurs(g) ==
               g = [s \in SUBSET S |->
                      IF s = {} THEN 0 ELSE row[Pick(s)].amount + g[s \ {Pick(s)}]]
             c == CHOOSE g : Recurs(g)
  <1>1. MapThenSumSet(LAMBDA r : row[r].amount, S) = c[S]
    BY DEF MapThenSumSet, MapThenFoldSet, Pick
  <1>2. ASSUME NEW g
        PROVE  Recurs(g) <=> Sums(g, f, S)
    <2>1. \A s \in SUBSET S : s # {} => row[Pick(s)].amount = f[Pick(s)]
      BY PickIsIn
    <2>2. [s \in SUBSET S |->
             IF s = {} THEN 0 ELSE row[Pick(s)].amount + g[s \ {Pick(s)}]]
            = [s \in SUBSET S |-> IF s = {} THEN 0 ELSE f[Pick(s)] + g[s \ {Pick(s)}]]
      BY <2>1
    <2> QED
      BY <2>2 DEF Sums
  <1> HIDE DEF Recurs
  <1>3. Recurs(c)
    BY <1>2, SumsExist
  <1>4. SumOver(f, S) = c[S]
    BY <1>2, <1>3, SumIsFunction
  <1> QED
    BY <1>1, <1>4

TotalsAddUp ==
    FinitelyMany =>
      \A p \in Payments : /\ IsFiniteSet(RefundsOf(p))
                          /\ RefundTotal(p) = SumOver(Amounts, RefundsOf(p))

LEMMA TotalIs == TotalsAddUp
  <1> SUFFICES ASSUME FinitelyMany, NEW p \in Payments
               PROVE  /\ IsFiniteSet(RefundsOf(p))
                      /\ RefundTotal(p) = SumOver(Amounts, RefundsOf(p))
    BY DEF TotalsAddUp
  <1>1. RefundsOf(p) \subseteq {r \in Refunds : refunds[r] # NoRefund}
    BY DEF RefundsOf
  <1>2. IsFiniteSet(RefundsOf(p))
    BY <1>1, FS_Subset DEF FinitelyMany
  <1>3. \A r \in RefundsOf(p) : Amounts[r] = refunds[r].amount
    BY DEF RefundsOf, Amounts
  <1>4. MapThenSumSet(LAMBDA r : refunds[r].amount, RefundsOf(p))
          = SumOver(Amounts, RefundsOf(p))
    BY <1>2, <1>3, AmountsAddUp
  <1> QED
    BY <1>2, <1>4 DEF RefundTotal, RefundsOf

LEMMA TotalIsNext ==
    ASSUME FinitelyMany', NEW p \in Payments
    PROVE  /\ IsFiniteSet(RefundsOf(p)')
           /\ RefundTotal(p)' = SumOver(Amounts', RefundsOf(p)')
  <1>1. TotalsAddUp'
    BY TotalIs, PTL
  <1> QED
    BY <1>1 DEF TotalsAddUp

LEMMA TotalType ==
    ASSUME TypeOK, FinitelyMany, NEW p \in Payments
    PROVE  RefundTotal(p) \in Nat
  <1>1. \A r \in RefundsOf(p) : Amounts[r] \in Nat
    BY PaymentAssumption DEF TypeOK, Refund, RefundsOf, Amounts
  <1> QED
    BY <1>1, TotalIs, SumType DEF TotalsAddUp

RefundsKept ==
    \A r \in Refunds :
        /\ refunds'[r] # NoRefund <=> refunds[r] # NoRefund
        /\ refunds[r] # NoRefund =>
             /\ refunds'[r].payment = refunds[r].payment
             /\ refunds'[r].amount = refunds[r].amount

LEMMA TotalsKept ==
    ASSUME FinitelyMany, RefundsKept
    PROVE  /\ FinitelyMany'
           /\ \A p \in Payments : RefundTotal(p)' = RefundTotal(p)
  <1>1. FinitelyMany'
    <2>1. {r \in Refunds : refunds'[r] # NoRefund} = {r \in Refunds : refunds[r] # NoRefund}
      BY DEF RefundsKept
    <2> QED
      BY <2>1 DEF FinitelyMany
  <1>2. ASSUME NEW p \in Payments
        PROVE  RefundTotal(p)' = RefundTotal(p)
    <2>1. RefundsOf(p)' = RefundsOf(p)
      BY DEF RefundsOf, RefundsKept
    <2>2. \A r \in RefundsOf(p) : Amounts'[r] = Amounts[r]
      BY DEF RefundsOf, RefundsKept, Amounts
    <2>3. IsFiniteSet(RefundsOf(p)) /\ RefundTotal(p) = SumOver(Amounts, RefundsOf(p))
      BY TotalIs DEF TotalsAddUp
    <2>4. RefundTotal(p)' = SumOver(Amounts', RefundsOf(p)')
      BY <1>1, TotalIsNext
    <2>5. SumOver(Amounts', RefundsOf(p)) = SumOver(Amounts, RefundsOf(p))
      BY <2>2, <2>3, SumSame
    <2> QED
      BY <2>1, <2>3, <2>4, <2>5
  <1> QED
    BY <1>1, <1>2

LEMMA TotalGrows ==
    ASSUME TypeOK, FinitelyMany, NEW r \in Refunds, NEW p \in Payments, NEW n \in 1..Amount,
           refunds[r] = NoRefund,
           refunds' = [refunds EXCEPT ![r] =
                         [status |-> "PENDING", payment |-> p, amount |-> n]]
    PROVE  /\ FinitelyMany'
           /\ RefundTotal(p)' = RefundTotal(p) + n
           /\ \A q \in Payments : q # p => RefundTotal(q)' = RefundTotal(q)
  <1> DEFINE new == [status |-> "PENDING", payment |-> p, amount |-> n]
  <1>1. /\ refunds'[r] = new /\ new # NoRefund /\ new.payment = p /\ new.amount = n
        /\ \A s \in Refunds : s # r => refunds'[s] = refunds[s]
    BY DEF TypeOK, NoRefund
  <1> HIDE DEF new
  <1>2. FinitelyMany'
    <2>1. {s \in Refunds : refunds'[s] # NoRefund}
            = {s \in Refunds : refunds[s] # NoRefund} \cup {r}
      BY <1>1
    <2> QED
      BY <2>1, FS_AddElement DEF FinitelyMany
  <1>3. ASSUME NEW q \in Payments
        PROVE  /\ IsFiniteSet(RefundsOf(q))
               /\ RefundTotal(q) = SumOver(Amounts, RefundsOf(q))
               /\ RefundTotal(q)' = SumOver(Amounts', RefundsOf(q)')
               /\ \A s \in RefundsOf(q) : Amounts'[s] = Amounts[s] /\ Amounts[s] \in Nat
    <2>1. \A s \in RefundsOf(q) : Amounts'[s] = Amounts[s]
      BY <1>1 DEF RefundsOf, Amounts
    <2>2. \A s \in RefundsOf(q) : Amounts[s] \in Nat
      BY PaymentAssumption DEF TypeOK, Refund, RefundsOf, Amounts
    <2> QED
      BY <1>2, <2>1, <2>2, TotalIs, TotalIsNext DEF TotalsAddUp
  <1>4. ASSUME NEW q \in Payments, q # p
        PROVE  RefundTotal(q)' = RefundTotal(q)
    <2>1. RefundsOf(q)' = RefundsOf(q)
      BY <1>1, <1>4 DEF RefundsOf
    <2>2. SumOver(Amounts', RefundsOf(q)) = SumOver(Amounts, RefundsOf(q))
      BY <1>3, SumSame
    <2> QED
      BY <1>3, <2>1, <2>2
  <1>5. RefundTotal(p)' = RefundTotal(p) + n
    <2>1. RefundsOf(p)' = RefundsOf(p) \cup {r} /\ r \notin RefundsOf(p)
      BY <1>1 DEF RefundsOf
    <2>2. Amounts'[r] = n /\ n \in Nat
      BY <1>1, PaymentAssumption DEF Amounts
    <2>3. SumOver(Amounts', RefundsOf(p)) = SumOver(Amounts, RefundsOf(p))
      BY <1>3, SumSame
    <2>4. \A s \in RefundsOf(p) \cup {r} : Amounts'[s] \in Nat
      BY <1>3, <2>2
    <2>5. SumOver(Amounts', RefundsOf(p) \cup {r}) = n + SumOver(Amounts', RefundsOf(p))
      BY <1>3, <2>1, <2>2, <2>4, SumAdd
    <2>6. RefundTotal(p) \in Nat
      BY TotalType
    <2>7. RefundTotal(p)' = n + RefundTotal(p)
      BY <1>3, <2>1, <2>3, <2>5
    <2> QED
      BY <2>2, <2>6, <2>7
  <1> QED
    BY <1>2, <1>4, <1>5

\* The steps that move no money, and the one that does.
QuietMoney ==
    /\ RefundsKept
    /\ \A p \in Payments :
         /\ payments[p] # NoPayment => payments'[p] # NoPayment
         /\ payments'[p] # NoPayment =>
              payments'[p].refunded = IF payments[p] # NoPayment THEN payments[p].refunded ELSE 0

Counts(h, r) ==
    /\ Committing(req[h])
    /\ refunds[r] = NoRefund
    /\ refunds' = [refunds EXCEPT ![r] = [status |-> "PENDING", payment |-> req[h].p,
                                          amount |-> req[h].amount]]
    /\ payments' = IF VersionMatches(req[h])
                   THEN [payments EXCEPT ![req[h].p] = Refunded(req[h])] ELSE payments

LEMMA UntouchedRows ==
    ASSUME UNCHANGED <<payments, refunds>>
    PROVE  QuietMoney
  BY DEF QuietMoney, RefundsKept

LEMMA InsertMoney ==
    ASSUME IInv, NEW h \in Requests, NEW p \in Payments, InsertPayment(h, p)
    PROVE  QuietMoney
  <1>1. CASE UNCHANGED payments
    BY <1>1, UntouchedRows DEF InsertPayment
  <1>2. CASE ~UNCHANGED payments
    <2>1. /\ payments[p] = NoPayment /\ payments'[p].refunded = 0
          /\ \A q \in Payments : q # p => payments'[q] = payments[q]
      BY <1>2 DEF InsertPayment, IInv, TypeOK
    <2> QED
      BY <2>1 DEF InsertPayment, QuietMoney, RefundsKept
  <1> QED
    BY <1>1, <1>2

\* What StoreOutcome writes.
LEMMA OutcomeRow ==
    ASSUME IInv, NEW h \in Requests, StoreOutcome(h), ~UNCHANGED payments
    PROVE  /\ Settling(req[h]) /\ req[h] \in SettleReq /\ req[h].p \in Payments
           /\ payments[req[h].p] \in Payment
           /\ payments'[req[h].p].status = req[h].outcome
           /\ payments'[req[h].p].refunded = payments[req[h].p].refunded
           /\ \A q \in Payments : q # req[h].p => payments'[q] = payments[q]
  <1>1. Settling(req[h]) /\ req[h] \in SettleReq /\ req[h].p \in Payments
    BY ReqKinds DEF IInv, StoreOutcome, Settling, SettleReq
  <1>2. payments[req[h].p] \in Payment
    BY <1>1, RowType DEF IInv, RowsExist
  <1>3. PICK p \in Payments : p = req[h].p
    BY <1>1
  <1>4. payments' = [payments EXCEPT ![p].status = req[h].outcome, ![p].version = @ + 1]
    BY <1>3 DEF StoreOutcome, updatePaymentStatus
  <1>5. /\ payments'[p].status = req[h].outcome
        /\ payments'[p].refunded = payments[p].refunded
        /\ \A q \in Payments : q # p => payments'[q] = payments[q]
    BY <1>2, <1>3, <1>4 DEF IInv, TypeOK, Payment
  <1> QED
    BY <1>1, <1>2, <1>3, <1>5

LEMMA StoreMoney ==
    ASSUME IInv, NEW h \in Requests, StoreOutcome(h)
    PROVE  QuietMoney
  <1>1. CASE UNCHANGED payments
    BY <1>1, UntouchedRows DEF StoreOutcome
  <1>2. CASE ~UNCHANGED payments
    <2>1. payments[req[h].p] # NoPayment
      BY <1>2, OutcomeRow DEF IInv, RowsExist
    <2>2. payments'[req[h].p] # NoPayment
      BY <1>2, OutcomeRow DEF SettleReq, NoPayment
    <2> QED
      BY <1>2, <2>1, <2>2, OutcomeRow DEF StoreOutcome, QuietMoney, RefundsKept
  <1> QED
    BY <1>1, <1>2

LEMMA CallMoney ==
    ASSUME IInv, NEW h \in Requests, callProviderRefund(h)
    PROVE  QuietMoney
  <1>1. Returning(req[h]) /\ req[h].r \in Refunds
    BY ReqKinds DEF IInv, callProviderRefund, Returning, RefundCall
  <1>2. PICK r \in Refunds : r = req[h].r
    BY <1>1
  <1>3. refunds[r] # NoRefund /\ refunds[r] \in Refund
    BY <1>1, <1>2 DEF IInv, RowsExist, TypeOK
  <1>4. refunds' = refunds \/ \E s \in {"SUCCEEDED", "FAILED"} :
                                refunds' = [refunds EXCEPT ![r].status = s]
    BY <1>2 DEF callProviderRefund
  <1>5. /\ \A q \in Refunds : q # r => refunds'[q] = refunds[q]
        /\ refunds'[r] \in Refund
        /\ refunds'[r].payment = refunds[r].payment /\ refunds'[r].amount = refunds[r].amount
    BY <1>3, <1>4 DEF IInv, TypeOK, Refund
  <1>6. refunds'[r] # NoRefund
    BY <1>5 DEF Refund, NoRefund
  <1>7. RefundsKept
    BY <1>3, <1>5, <1>6 DEF RefundsKept
  <1> QED
    BY <1>7 DEF QuietMoney, callProviderRefund

LEMMA CommitMoney ==
    ASSUME IInv, NEW h \in Requests, NEW r \in Refunds, CommitRefund(h, r)
    PROVE  QuietMoney \/ Counts(h, r)
  <1>1. CASE UNCHANGED <<payments, refunds>>
    BY <1>1, UntouchedRows
  <1>2. CASE ~UNCHANGED <<payments, refunds>>
    BY <1>2 DEF CommitRefund, Counts, Committing
  <1> QED
    BY <1>1, <1>2

LEMMA MoneyStep ==
    ASSUME IInv, [Next]_vars
    PROVE  QuietMoney \/ \E h \in Requests, r \in Refunds : Counts(h, r)
  <1>1. CASE UNCHANGED <<payments, refunds>>
    BY <1>1, UntouchedRows
  <1>2. CASE ~UNCHANGED <<payments, refunds>>
    <2>1. \E h \in Requests :
            \/ \E p \in Payments : InsertPayment(h, p)
            \/ StoreOutcome(h) \/ callProviderRefund(h)
            \/ \E r \in Refunds : CommitRefund(h, r)
      BY <1>2 DEF Next, Work, Accept, Crash, GatewaySettles, OrderCancelled, fetchOrder,
                  FindByOrder, callPaymentProvider, TellOutcome, WebhookFind, CreatePayment,
                  HandleMidtransWebhook, RefundPayment, vars
    <2> QED
      BY <2>1, InsertMoney, StoreMoney, CallMoney, CommitMoney
  <1> QED
    BY <1>1, <1>2

\* A refund that counts, with its row.
LEMMA CountStep ==
    ASSUME IInv, FinitelyMany, NEW h \in Requests, NEW r \in Refunds, Counts(h, r)
    PROVE  \E p \in Payments, n \in Nat :
             /\ p = req[h].p /\ payments[p] # NoPayment
             /\ FinitelyMany'
             /\ RefundTotal(p)' = RefundTotal(p) + n
             /\ payments'[p].refunded = IF VersionMatches(req[h]) THEN payments[p].refunded + n
                                        ELSE payments[p].refunded
             /\ \A q \in Payments : q # p =>
                  /\ payments'[q] = payments[q]
                  /\ RefundTotal(q)' = RefundTotal(q)
  <1>1. Committing(req[h]) /\ req[h] \in RefundReq
    BY ReqKinds DEF IInv, Counts
  <1>2. PICK p \in Payments : p = req[h].p
    BY <1>1 DEF RefundReq
  <1>3. PICK n \in 1..Amount : n = req[h].amount
    BY <1>1 DEF RefundReq
  <1>4. /\ FinitelyMany'
        /\ RefundTotal(p)' = RefundTotal(p) + n
        /\ \A q \in Payments : q # p => RefundTotal(q)' = RefundTotal(q)
    BY <1>2, <1>3, TotalGrows DEF IInv, Counts
  <1>5. payments[p] # NoPayment
    BY <1>1, <1>2 DEF IInv, RowsExist
  <1>6. /\ payments'[p].refunded = IF VersionMatches(req[h]) THEN payments[p].refunded + n
                                   ELSE payments[p].refunded
        /\ \A q \in Payments : q # p => payments'[q] = payments[q]
    <2>1. CASE VersionMatches(req[h])
      <3>1. Refunded(req[h]).refunded = payments[p].refunded + n
        BY <1>1, <1>2, <1>3, <2>1, RefundedRow DEF VersionMatches
      <3>2. payments' = [payments EXCEPT ![p] = Refunded(req[h])]
        BY <1>2, <2>1 DEF Counts
      <3> DEFINE row == Refunded(req[h])
      <3> HIDE DEF row
      <3>3. payments'[p] = row /\ \A q \in Payments : q # p => payments'[q] = payments[q]
        BY <3>2 DEF IInv, TypeOK, row
      <3> QED
        BY <2>1, <3>1, <3>3 DEF row
    <2>2. CASE ~VersionMatches(req[h])
      BY <2>2 DEF Counts
    <2> QED
      BY <2>1, <2>2
  <1>7. n \in Nat
    BY PaymentAssumption
  <1> QED
    BY <1>2, <1>4, <1>5, <1>6, <1>7

RecordedInv == IInv /\ FinitelyMany /\ RefundsRecorded

LEMMA RecordedNext ==
    ASSUME RecordedInv, [Next]_vars
    PROVE  RecordedInv'
  <1> USE DEF RecordedInv
  <1>1. IInv'
    BY NextIInv
  <1>2. CASE QuietMoney
    <2>1. FinitelyMany' /\ \A p \in Payments : RefundTotal(p)' = RefundTotal(p)
      BY <1>2, TotalsKept DEF QuietMoney
    <2>2. \A p \in Payments : RefundTotal(p) \in Nat
      BY TotalType DEF IInv
    <2>3. \A p \in Payments : payments'[p] # NoPayment =>
            payments'[p].refunded <= RefundTotal(p)
      BY <1>2, <2>2 DEF QuietMoney, RefundsRecorded, Created
    <2> QED
      BY <1>1, <2>1, <2>3 DEF RefundsRecorded, Created
  <1>3. ASSUME NEW h \in Requests, NEW r \in Refunds, Counts(h, r)
        PROVE  RecordedInv'
    <2>1. PICK p \in Payments, n \in Nat :
            /\ payments[p] # NoPayment
            /\ FinitelyMany'
            /\ RefundTotal(p)' = RefundTotal(p) + n
            /\ payments'[p].refunded = IF VersionMatches(req[h]) THEN payments[p].refunded + n
                                       ELSE payments[p].refunded
            /\ \A q \in Payments : q # p =>
                 /\ payments'[q] = payments[q]
                 /\ RefundTotal(q)' = RefundTotal(q)
      BY <1>3, CountStep
    <2>2. /\ payments[p].refunded <= RefundTotal(p)
          /\ payments[p].refunded \in Nat /\ RefundTotal(p) \in Nat
      BY <2>1, RowType, TotalType, PaymentAssumption DEF IInv, RefundsRecorded, Created
    <2>3. payments'[p].refunded <= RefundTotal(p)'
      BY <2>1, <2>2
    <2>4. \A q \in Payments : q # p /\ payments'[q] # NoPayment =>
            payments'[q].refunded <= RefundTotal(q)'
      BY <2>1 DEF RefundsRecorded, Created
    <2>5. RefundsRecorded'
      BY <2>3, <2>4 DEF RefundsRecorded, Created
    <2> QED
      BY <1>1, <2>1, <2>5
  <1> QED
    BY <1>2, <1>3, MoneyStep

-----------------------------------------------------------------------------
(* Without a webhook: the creator of a payment is the only one to decide it *)

Opening(x) == x.op = "create" /\ x.pc \in {"gateway", "update"}

CreatorsDecide ==
    \A h \in Requests :
        /\ req[h].op # "webhook"
        /\ Opening(req[h]) =>
             /\ payments[req[h].p] # NoPayment /\ payments[req[h].p].status = "PENDING"
             /\ req[h].pc = "update" => req[h].outcome \in {"SUCCEEDED", "FAILED"}
             /\ \A g \in Requests : Opening(req[g]) /\ req[g].p = req[h].p => g = h

\* What a step may do to the statuses.
StatusStep ==
    \A p \in Created :
        payments'[p].status # payments[p].status
          => payments'[p].status \in ValidPaymentTransitions[payments[p].status]

OwnInv == IInv /\ CreatorsDecide

\* Request h goes on to x, which opens no payment but its own or a new one.
LEMMA OwnStep ==
    ASSUME OwnInv, NEW h \in Requests, NEW x \in AnyReq, Step(h, x), x.op # "webhook",
           \A g \in Requests : g # h /\ Opening(req[g]) =>
             /\ payments'[req[g].p] # NoPayment /\ payments'[req[g].p].status = "PENDING"
             /\ Opening(x) => req[g].p # x.p,
           Opening(x) =>
             /\ payments'[x.p] # NoPayment /\ payments'[x.p].status = "PENDING"
             /\ x.pc = "update" => x.outcome \in {"SUCCEEDED", "FAILED"}
    PROVE  CreatorsDecide'
  <1>1. \A g \in Requests : req'[g] = IF g = h THEN x ELSE req[g]
    BY StepIs DEF OwnInv, IInv
  <1> QED
    BY <1>1 DEF OwnInv, CreatorsDecide, Opening

\* Steps that write no payment.
LEMMA OwnQuiet ==
    ASSUME OwnInv, NEW h \in Requests, NEW x \in AnyReq, Step(h, x), x.op # "webhook",
           UNCHANGED payments,
           Opening(x) =>
             /\ Opening(req[h]) /\ x.p = req[h].p
             /\ x.pc = "update" => x.outcome \in {"SUCCEEDED", "FAILED"}
    PROVE  CreatorsDecide' /\ StatusStep
  <1>1. CreatorsDecide'
    BY OwnStep DEF OwnInv, CreatorsDecide
  <1> QED
    BY <1>1 DEF StatusStep

LEMMA OwnInsert ==
    ASSUME OwnInv, NEW h \in Requests, NEW p \in Payments, InsertPayment(h, p)
    PROVE  CreatorsDecide' /\ StatusStep
  <1>1. req[h].o \in Orders
    BY ReqKinds DEF OwnInv, IInv, InsertPayment, Settling, CreateReq
  <1>2. CASE UNCHANGED payments /\ End(h)
    BY <1>2, IdleReq, OwnQuiet DEF End, Opening, Idle
  <1>3. CASE ~(UNCHANGED payments /\ End(h))
    <2> DEFINE x == [op |-> "create", pc |-> "gateway", o |-> req[h].o, p |-> p,
                     outcome |-> "PENDING"]
    <2>1. /\ payments[p] = NoPayment
          /\ payments'[p] # NoPayment /\ payments'[p].status = "PENDING"
          /\ \A q \in Payments : q # p => payments'[q] = payments[q]
          /\ Step(h, x)
      BY <1>3 DEF InsertPayment, OwnInv, IInv, TypeOK, NoPayment
    <2>2. x \in AnyReq /\ x.op # "webhook" /\ x.p = p /\ x.pc = "gateway"
      BY <1>1 DEF AnyReq, SettleReq
    <2> HIDE DEF x
    <2>3. \A g \in Requests : Opening(req[g]) =>
            req[g].p \in Payments /\ req[g].p # p
      BY <2>1, ReqKinds DEF OwnInv, IInv, CreatorsDecide, Opening, Settling, SettleReq
    <2>4. CreatorsDecide'
      BY <2>1, <2>2, <2>3, OwnStep DEF OwnInv, CreatorsDecide
    <2> QED
      BY <2>1, <2>4 DEF StatusStep, Created
  <1> QED
    BY <1>2, <1>3

LEMMA OwnProvider ==
    ASSUME OwnInv, NEW h \in Requests, callPaymentProvider(h)
    PROVE  CreatorsDecide' /\ StatusStep
  <1>1. Opening(req[h]) /\ req[h] \in SettleReq
    BY ReqKinds DEF OwnInv, IInv, callPaymentProvider, Opening, Settling
  <1>2. ASSUME NEW s \in {"SUCCEEDED", "FAILED"},
               Step(h, [req[h] EXCEPT !.pc = "update", !.outcome = s])
        PROVE  CreatorsDecide' /\ StatusStep
    <2> DEFINE x == [req[h] EXCEPT !.pc = "update", !.outcome = s]
    <2>1. x \in AnyReq /\ x.op # "webhook" /\ x.p = req[h].p /\ x.outcome = s
      BY <1>1 DEF AnyReq, SettleReq, Opening
    <2> HIDE DEF x
    <2>2. Step(h, x)
      BY <1>2 DEF x
    <2> QED
      BY <1>1, <2>1, <2>2, OwnQuiet DEF callPaymentProvider
  <1> QED
    BY <1>2 DEF callPaymentProvider

LEMMA OwnStore ==
    ASSUME OwnInv, NEW h \in Requests, StoreOutcome(h)
    PROVE  CreatorsDecide' /\ StatusStep
  <1> DEFINE x == [req[h] EXCEPT !.pc = "notify"]
  <1>1. Opening(req[h]) /\ req[h].pc = "update" /\ req[h] \in SettleReq
    BY ReqKinds DEF OwnInv, IInv, CreatorsDecide, StoreOutcome, Opening, Settling
  <1>2. x \in AnyReq /\ x.op # "webhook" /\ x.pc = "notify"
    BY <1>1 DEF AnyReq, SettleReq, Opening
  <1>3. Step(h, x)
    BY DEF StoreOutcome
  <1> HIDE DEF x
  <1>4. CASE UNCHANGED payments
    BY <1>2, <1>3, <1>4, OwnQuiet DEF Opening
  <1>5. CASE ~UNCHANGED payments
    <2>1. /\ req[h].p \in Payments
          /\ payments'[req[h].p].status = req[h].outcome
          /\ \A q \in Payments : q # req[h].p => payments'[q] = payments[q]
      BY <1>5, OutcomeRow DEF OwnInv
    <2>2. /\ payments[req[h].p].status = "PENDING"
          /\ req[h].outcome \in {"SUCCEEDED", "FAILED"}
      BY <1>1 DEF OwnInv, CreatorsDecide
    <2>3. \A g \in Requests : g # h /\ Opening(req[g]) =>
            req[g].p \in Payments /\ req[g].p # req[h].p
      BY <1>1, ReqKinds DEF OwnInv, IInv, CreatorsDecide, Opening, Settling, SettleReq
    <2>4. CreatorsDecide'
      BY <1>2, <1>3, <2>1, <2>3, OwnStep DEF OwnInv, CreatorsDecide, Opening
    <2> QED
      BY <2>1, <2>2, <2>4 DEF StatusStep, Created, ValidPaymentTransitions
  <1> QED
    BY <1>4, <1>5

LEMMA OwnCommit ==
    ASSUME OwnInv, NEW h \in Requests, NEW r \in Refunds, CommitRefund(h, r)
    PROVE  CreatorsDecide' /\ StatusStep
  <1>1. Committing(req[h]) /\ req[h] \in RefundReq
    BY ReqKinds DEF OwnInv, IInv, CommitRefund, Committing
  <1>2. PICK p \in Payments : p = req[h].p
    BY <1>1 DEF RefundReq
  <1>3. \E x \in AnyReq : Step(h, x) /\ x.op # "webhook" /\ ~Opening(x)
    <2>1. [op |-> "refund", pc |-> "gateway", r |-> r] \in AnyReq
      BY DEF AnyReq, RefundCall
    <2> QED
      BY <2>1, IdleReq DEF CommitRefund, End, Opening, Idle
  <1>4. CASE UNCHANGED payments
    BY <1>3, <1>4, OwnQuiet
  <1>5. CASE ~UNCHANGED payments
    <2>1. VersionMatches(req[h]) /\ payments' = [payments EXCEPT ![p] = Refunded(req[h])]
      BY <1>2, <1>5 DEF CommitRefund
    <2>2. Refundable(payments[p])
      BY <1>1, <1>2, <2>1 DEF OwnInv, IInv, VersionsTell, VersionMatches
    <2>3. /\ Refunded(req[h]).status \in {"REFUNDED", "PARTIAL_REFUND"}
          /\ Refunded(req[h]) # NoPayment
      <3>1. payments[p] \in Payment
        BY <2>2, RowType DEF OwnInv, IInv, Refundable, NoPayment
      <3> QED
        BY <1>2, <3>1 DEF Refunded, Payment, NoPayment
    <2> DEFINE row == Refunded(req[h])
    <2> HIDE DEF row
    <2>4. /\ payments'[p] = row
          /\ \A q \in Payments : q # p => payments'[q] = payments[q]
      BY <2>1 DEF OwnInv, IInv, TypeOK, row
    <2>5. \A g \in Requests : Opening(req[g]) => req[g].p \in Payments /\ req[g].p # p
      BY <2>2, ReqKinds DEF OwnInv, IInv, CreatorsDecide, Opening, Settling, SettleReq,
                            Refundable
    <2>6. CreatorsDecide'
      BY <1>3, <2>4, <2>5, OwnStep DEF OwnInv, CreatorsDecide
    <2>7. payments'[p].status # payments[p].status =>
            payments'[p].status \in ValidPaymentTransitions[payments[p].status]
      BY <2>2, <2>3, <2>4 DEF Refundable, ValidPaymentTransitions, row
    <2> QED
      BY <2>4, <2>6, <2>7 DEF StatusStep, Created
  <1> QED
    BY <1>4, <1>5

\* Every other step of a request only moves the request.
LEMMA OwnMove ==
    ASSUME OwnInv, "webhook" \notin Calls, NEW h \in Requests,
           \/ fetchOrder(h) \/ FindByOrder(h) \/ TellOutcome(h) \/ callProviderRefund(h)
           \/ WebhookFind(h) \/ Accept(h) \/ Crash(h)
    PROVE  CreatorsDecide' /\ StatusStep
  <1>1. UNCHANGED payments
    BY DEF fetchOrder, FindByOrder, TellOutcome, callProviderRefund, WebhookFind, Accept,
           CreatePayment, HandleMidtransWebhook, RefundPayment, Crash
  <1>2. CASE End(h)
    BY <1>1, <1>2, IdleReq, OwnQuiet DEF End, Opening, Idle
  <1>3. CASE fetchOrder(h) \/ FindByOrder(h)
    <2>1. req[h] \in CreateReq
      BY <1>3, ReqKinds DEF OwnInv, IInv, fetchOrder, FindByOrder, Settling
    <2>2. ASSUME NEW pc \in {"find", "insert"}, Step(h, [req[h] EXCEPT !.pc = pc])
          PROVE  CreatorsDecide' /\ StatusStep
      <3> DEFINE x == [req[h] EXCEPT !.pc = pc]
      <3>1. x \in AnyReq /\ x.op # "webhook" /\ ~Opening(x)
        BY <2>1 DEF AnyReq, CreateReq, Opening
      <3> HIDE DEF x
      <3>2. Step(h, x)
        BY <2>2 DEF x
      <3> QED
        BY <1>1, <3>1, <3>2, OwnQuiet
    <2> QED
      BY <1>2, <1>3, <2>2 DEF fetchOrder, FindByOrder
  <1>4. CASE TellOutcome(h) \/ callProviderRefund(h) \/ Crash(h)
    BY <1>2, <1>4 DEF TellOutcome, callProviderRefund, Crash
  <1>5. ~WebhookFind(h)
    BY DEF WebhookFind, OwnInv, CreatorsDecide
  <1>6. ASSUME NEW o \in Orders, NEW k \in Keys, CreatePayment(h, o, k)
        PROVE  CreatorsDecide' /\ StatusStep
    <2> DEFINE x == [op |-> "create", pc |-> "fetch", o |-> o, key |-> k]
    <2>1. x \in AnyReq /\ x.op # "webhook" /\ ~Opening(x)
      BY DEF AnyReq, CreateReq, Opening
    <2> HIDE DEF x
    <2>2. Step(h, x)
      BY <1>6 DEF CreatePayment, x
    <2> QED
      BY <1>1, <2>1, <2>2, OwnQuiet
  <1>7. ASSUME NEW p \in Payments, NEW n \in 1..Amount, RefundPayment(h, p, n)
        PROVE  CreatorsDecide' /\ StatusStep
    <2> DEFINE x == [op |-> "refund", pc |-> "commit", p |-> p, amount |-> n,
                     refunded |-> payments[p].refunded, version |-> payments[p].version]
    <2>1. payments[p] # NoPayment
      BY <1>7 DEF RefundPayment, NoPayment
    <2>2. x \in AnyReq /\ x.op # "webhook" /\ ~Opening(x)
      BY <1>7, <2>1, RowType DEF OwnInv, IInv, RefundPayment, AnyReq, RefundReq, Opening
    <2> HIDE DEF x
    <2>3. Step(h, x)
      BY <1>7 DEF RefundPayment, x
    <2> QED
      BY <1>1, <2>2, <2>3, OwnQuiet
  <1> QED
    BY <1>3, <1>4, <1>5, <1>6, <1>7 DEF Accept, HandleMidtransWebhook

LEMMA OwnNext ==
    ASSUME OwnInv, "webhook" \notin Calls, [Next]_vars
    PROVE  OwnInv' /\ StatusStep
  <1>1. IInv'
    BY NextIInv DEF OwnInv
  <1>2. ASSUME UNCHANGED <<req, payments>>
        PROVE  CreatorsDecide' /\ StatusStep
    <2>1. req' = req /\ payments' = payments
      BY <1>2
    <2>2. CreatorsDecide
      BY DEF OwnInv
    <2>3. CreatorsDecide'
      BY <2>1, <2>2 DEF CreatorsDecide, Opening
    <2>4. StatusStep
      BY <2>1 DEF StatusStep
    <2> QED
      BY <2>3, <2>4
  <1>3. ASSUME NEW o \in Orders, GatewaySettles(o) \/ OrderCancelled(o)
        PROVE  UNCHANGED <<req, payments>>
    BY <1>3 DEF GatewaySettles, OrderCancelled
  <1>4. ASSUME NEW h \in Requests, Work(h) \/ Accept(h) \/ Crash(h)
        PROVE  CreatorsDecide' /\ StatusStep
    BY <1>4, OwnInsert, OwnProvider, OwnStore, OwnCommit, OwnMove DEF Work
  <1>5. CreatorsDecide' /\ StatusStep
    BY <1>2, <1>3, <1>4 DEF Next, vars
  <1> QED
    BY <1>1, <1>5 DEF OwnInv

LEMMA OwnInvariance ==
    ASSUME "webhook" \notin Calls
    PROVE  Spec => []OwnInv
  <1>1. Init => OwnInv
    BY InitIInv DEF OwnInv, Init, CreatorsDecide, Opening, Idle
  <1>2. OwnInv /\ [Next]_vars => OwnInv'
    BY OwnNext
  <1> QED
    BY <1>1, <1>2, PTL DEF Spec

-----------------------------------------------------------------------------
(* Without a webhook, and with one refund of a payment at a time *)

LoneRefunds ==
    \A g, h \in Requests :
        Committing(req[g]) /\ Committing(req[h]) /\ req[g].p = req[h].p => g = h

VersionsHold ==
    \A h \in Requests : Committing(req[h]) =>
        req[h].version = payments[req[h].p].version

\* There is no refund of a payment that was not made.
RefundsHavePayments ==
    \A r \in Refunds : refunds[r] # NoRefund =>
        refunds[r].payment \in Payments /\ payments[refunds[r].payment] # NoPayment

SumInv == OwnInv /\ FinitelyMany /\ RefundedIsSum /\ VersionsHold /\ RefundsHavePayments

\* A refund is prepared by RefundPayment only.
LEMMA RefundsBegin ==
    ASSUME OwnInv, [Next]_vars, NEW g \in Requests, Committing(req'[g])
    PROVE  \/ req'[g] = req[g]
           \/ \E p \in Payments, n \in 1..Amount : RefundPayment(g, p, n)
  <1> USE DEF OwnInv, IInv
  <1>1. ASSUME NEW h \in Requests, NEW x, Step(h, x), ~Committing(x)
        PROVE  req'[g] = req[g]
    BY <1>1 DEF Step, TypeOK
  <1>2. ASSUME NEW h \in Requests, End(h)
        PROVE  req'[g] = req[g]
    BY <1>1, <1>2, IdleReq DEF End
  <1>3. ASSUME NEW h \in Requests, fetchOrder(h) \/ FindByOrder(h)
        PROVE  req'[g] = req[g]
    <2>1. req[h] \in CreateReq
      BY <1>3, ReqKinds DEF fetchOrder, FindByOrder, Settling
    <2>2. ASSUME NEW pc \in {"find", "insert"}
          PROVE  ~Committing([req[h] EXCEPT !.pc = pc])
      BY <2>1 DEF CreateReq, Committing
    <2> QED
      BY <1>1, <1>2, <1>3, <2>2 DEF fetchOrder, FindByOrder
  <1>4. ASSUME NEW h \in Requests, NEW p \in Payments, InsertPayment(h, p)
        PROVE  req'[g] = req[g]
    BY <1>1, <1>2, <1>4 DEF InsertPayment, Committing
  <1>5. ASSUME NEW h \in Requests, callPaymentProvider(h)
        PROVE  req'[g] = req[g]
    <2>1. req[h] \in SettleReq
      BY <1>5, ReqKinds DEF callPaymentProvider, Settling
    <2>2. ASSUME NEW s \in {"SUCCEEDED", "FAILED"}
          PROVE  ~Committing([req[h] EXCEPT !.pc = "update", !.outcome = s])
      BY <2>1 DEF SettleReq, Committing
    <2> QED
      BY <1>1, <1>5, <2>2 DEF callPaymentProvider
  <1>6. ASSUME NEW h \in Requests, StoreOutcome(h)
        PROVE  req'[g] = req[g]
    <2>1. req[h] \in SettleReq
      BY <1>6, ReqKinds DEF StoreOutcome, Settling
    <2>2. ~Committing([req[h] EXCEPT !.pc = "notify"])
      BY <2>1 DEF SettleReq, Committing
    <2> QED
      BY <1>1, <1>6, <2>2 DEF StoreOutcome
  <1>7. ASSUME NEW h \in Requests,
               TellOutcome(h) \/ callProviderRefund(h) \/ Crash(h)
        PROVE  req'[g] = req[g]
    BY <1>2, <1>7 DEF TellOutcome, callProviderRefund, Crash
  <1>8. ASSUME NEW h \in Requests, WebhookFind(h)
        PROVE  req'[g] = req[g]
    BY <1>8 DEF WebhookFind, CreatorsDecide
  <1>9. ASSUME NEW h \in Requests, NEW r \in Refunds, CommitRefund(h, r)
        PROVE  req'[g] = req[g]
    BY <1>1, <1>2, <1>9 DEF CommitRefund, Committing
  <1>10. ASSUME NEW h \in Requests,
                \/ \E o \in Orders, k \in Keys : CreatePayment(h, o, k)
                \/ \E o \in Orders : HandleMidtransWebhook(h, o)
         PROVE  req'[g] = req[g]
    BY <1>1, <1>10 DEF CreatePayment, HandleMidtransWebhook, Committing
  <1>11. ASSUME NEW h \in Requests, NEW p \in Payments, NEW n \in 1..Amount,
                RefundPayment(h, p, n)
         PROVE  req'[g] = req[g] \/ RefundPayment(g, p, n)
    <2>1. CASE g = h
      BY <1>11, <2>1
    <2>2. CASE g # h
      BY <1>11, <2>2 DEF RefundPayment, Step, TypeOK
    <2> QED
      BY <2>1, <2>2
  <1>12. ASSUME UNCHANGED vars \/ \E o \in Orders : GatewaySettles(o) \/ OrderCancelled(o)
         PROVE  req'[g] = req[g]
    BY <1>12 DEF GatewaySettles, OrderCancelled, vars
  <1>13. ASSUME NEW h \in Requests, Work(h)
         PROVE  req'[g] = req[g]
    BY <1>13, <1>3, <1>4, <1>5, <1>6, <1>7, <1>8, <1>9 DEF Work
  <1> QED
    BY <1>7, <1>10, <1>11, <1>12, <1>13 DEF Next, Accept

\* The row that a refund read stays as it is until the refund is written.
LEMMA RowStands ==
    ASSUME SumInv, LoneRefunds, [Next]_vars,
           NEW g \in Requests, Committing(req[g]), req'[g] = req[g]
    PROVE  payments'[req[g].p] = payments[req[g].p]
  <1> USE DEF SumInv, OwnInv, IInv
  <1>1. req[g].p \in Payments /\ payments[req[g].p] # NoPayment
    BY ReqKinds DEF RefundReq, RowsExist
  <1>2. Refundable(payments[req[g].p])
    BY DEF VersionsTell, VersionsHold
  <1>3. CASE UNCHANGED payments
    BY <1>3
  <1>4. CASE ~UNCHANGED payments
    <2>1. \E h \in Requests :
            \/ \E p \in Payments : InsertPayment(h, p)
            \/ StoreOutcome(h)
            \/ \E r \in Refunds : CommitRefund(h, r)
      BY <1>4 DEF Next, Work, Accept, Crash, GatewaySettles, OrderCancelled, fetchOrder,
                  FindByOrder, callPaymentProvider, TellOutcome, WebhookFind, CreatePayment,
                  HandleMidtransWebhook, RefundPayment, callProviderRefund, vars
    <2>2. ASSUME NEW h \in Requests, NEW p \in Payments, InsertPayment(h, p)
          PROVE  payments'[req[g].p] = payments[req[g].p]
      BY <1>1, <2>2 DEF InsertPayment, TypeOK
    <2>3. ASSUME NEW h \in Requests, StoreOutcome(h)
          PROVE  payments'[req[g].p] = payments[req[g].p]
      <3>1. Opening(req[h])
        BY <2>3 DEF CreatorsDecide, StoreOutcome, Opening
      <3>2. payments[req[h].p].status = "PENDING"
        BY <3>1 DEF CreatorsDecide
      <3>3. req[g].p # req[h].p
        BY <1>2, <3>2 DEF Refundable
      <3> QED
        BY <1>1, <1>4, <2>3, <3>3, OutcomeRow
    <2>4. ASSUME NEW h \in Requests, NEW r \in Refunds, CommitRefund(h, r)
          PROVE  payments'[req[g].p] = payments[req[g].p]
      <3>1. g # h
        <4>1. ~Committing(req'[h])
          BY <2>4 DEF CommitRefund, End, Step, TypeOK, Idle, Committing
        <4> QED
          BY <4>1
      <3>2. Committing(req[h])
        BY <2>4 DEF CommitRefund, Committing
      <3>3. req[g].p # req[h].p
        BY <3>1, <3>2 DEF LoneRefunds
      <3> QED
        BY <1>1, <2>4, <3>3 DEF CommitRefund, TypeOK
    <2> QED
      BY <2>1, <2>2, <2>3, <2>4
  <1> QED
    BY <1>3, <1>4

LEMMA SumNext ==
    ASSUME SumInv, "webhook" \notin Calls, LoneRefunds, [Next]_vars
    PROVE  SumInv'
  <1> USE DEF SumInv
  <1>1. OwnInv' /\ IInv
    BY OwnNext DEF OwnInv
  <1>2. VersionsHold'
    <2> SUFFICES ASSUME NEW g \in Requests, Committing(req'[g])
                 PROVE  req'[g].version = payments'[req'[g].p].version
      BY DEF VersionsHold, Committing
    <2>1. CASE req'[g] = req[g]
      <3>1. Committing(req[g]) /\ req[g].version = payments[req[g].p].version
        BY <2>1 DEF VersionsHold
      <3>2. payments'[req[g].p] = payments[req[g].p]
        BY <2>1, <3>1, RowStands
      <3> QED
        BY <2>1, <3>1, <3>2
    <2>2. CASE \E p \in Payments, n \in 1..Amount : RefundPayment(g, p, n)
      BY <1>1, <2>2 DEF RefundPayment, Step, IInv, TypeOK
    <2> QED
      BY <2>1, <2>2, RefundsBegin
  <1>3. CASE QuietMoney
    <2>1. FinitelyMany' /\ \A p \in Payments : RefundTotal(p)' = RefundTotal(p)
      BY <1>3, TotalsKept DEF QuietMoney
    <2>2. \A p \in Payments : payments'[p] # NoPayment /\ payments[p] # NoPayment =>
            payments'[p].refunded = RefundTotal(p)
      BY <1>3 DEF QuietMoney, RefundedIsSum, Created
    <2>3. \A p \in Payments : payments[p] = NoPayment => RefundTotal(p) = 0
      <3> SUFFICES ASSUME NEW p \in Payments, payments[p] = NoPayment
                   PROVE  RefundTotal(p) = 0
        OBVIOUS
      <3>1. RefundsOf(p) = {}
        BY DEF RefundsOf, RefundsHavePayments
      <3> QED
        BY <3>1, TotalIs, SumEmpty DEF TotalsAddUp
    <2>4. \A p \in Payments : payments'[p] # NoPayment =>
            payments'[p].refunded = RefundTotal(p)
      BY <1>3, <2>2, <2>3 DEF QuietMoney
    <2>5. RefundsHavePayments'
      BY <1>3 DEF QuietMoney, RefundsKept, RefundsHavePayments
    <2> QED
      BY <1>1, <1>2, <2>1, <2>4, <2>5 DEF RefundedIsSum, Created
  <1>4. ASSUME NEW h \in Requests, NEW r \in Refunds, Counts(h, r)
        PROVE  SumInv'
    <2>1. PICK p \in Payments, n \in Nat :
            /\ p = req[h].p /\ payments[p] # NoPayment
            /\ FinitelyMany'
            /\ RefundTotal(p)' = RefundTotal(p) + n
            /\ payments'[p].refunded = IF VersionMatches(req[h]) THEN payments[p].refunded + n
                                       ELSE payments[p].refunded
            /\ \A q \in Payments : q # p =>
                 /\ payments'[q] = payments[q]
                 /\ RefundTotal(q)' = RefundTotal(q)
      BY <1>1, <1>4, CountStep
    <2>2. VersionMatches(req[h])
      BY <1>4 DEF Counts, VersionsHold, VersionMatches
    <2>3. payments'[p].refunded = RefundTotal(p)'
      BY <2>1, <2>2 DEF RefundedIsSum, Created
    <2>4. \A q \in Payments : q # p /\ payments'[q] # NoPayment =>
            payments'[q].refunded = RefundTotal(q)'
      BY <2>1 DEF RefundedIsSum, Created
    <2>5. RefundedIsSum'
      BY <2>3, <2>4 DEF RefundedIsSum, Created
    <2>6. RefundsHavePayments'
      <3>1. payments'[p] # NoPayment
        <4>1. payments' \in [Payments -> {NoPayment} \cup Payment]
          BY <1>1 DEF OwnInv, IInv, TypeOK
        <4>2. payments' = [payments EXCEPT ![p] = Refunded(req[h])]
          BY <1>4, <2>1, <2>2 DEF Counts
        <4>3. Refunded(req[h]) \in Payment
          BY <1>1, <1>4, <2>2, RefundedRow DEF Counts, VersionMatches
        <4> QED
          BY <1>1, <4>2, <4>3 DEF IInv, TypeOK, Payment, NoPayment, PaymentStatus
      <3>2. ASSUME NEW s \in Refunds, refunds'[s] # NoRefund
            PROVE  refunds'[s].payment \in Payments /\ payments'[refunds'[s].payment] # NoPayment
        <4>1. CASE s = r
          <5>1. refunds'[r].payment = p
            BY <1>1, <1>4, <2>1 DEF Counts, IInv, TypeOK
          <5> QED
            BY <3>1, <4>1, <5>1
        <4>2. CASE s # r
          <5>1. refunds'[s] = refunds[s]
            BY <1>1, <1>4, <4>2 DEF Counts, IInv, TypeOK
          <5> QED
            BY <2>1, <3>1, <3>2, <5>1 DEF RefundsHavePayments
        <4> QED
          BY <4>1, <4>2
      <3> QED
        BY <3>2 DEF RefundsHavePayments
    <2> QED
      BY <1>1, <1>2, <2>1, <2>5, <2>6
  <1> QED
    BY <1>1, <1>3, <1>4, MoneyStep

LEMMA EmptyBooks ==
    ASSUME Init
    PROVE  /\ FinitelyMany /\ RefundsRecorded /\ RefundedIsSum
           /\ VersionsHold /\ RefundsHavePayments
  <1>1. Created = {}
    BY DEF Init, Created
  <1>2. {r \in Refunds : refunds[r] # NoRefund} = {}
    BY DEF Init
  <1>3. FinitelyMany
    BY <1>2, FS_EmptySet DEF FinitelyMany
  <1> QED
    BY <1>1, <1>3 DEF Init, RefundsRecorded, RefundedIsSum, VersionsHold, RefundsHavePayments,
                      Committing, Idle

-----------------------------------------------------------------------------
(* Theorems *)

\* Rows, requests and the environment keep their types; in particular no refund is
\* ever prepared that would bring refunded_amount above what was paid.
THEOREM TypeCorrect == Spec => []TypeOK
  <1>1. IInv => TypeOK
    BY DEF IInv
  <1> QED
    BY <1>1, Invariance, PTL

\* The version check of the refund transaction (payment_service.go:231-238) never
\* lets a refund overwrite another one, however many administrators and webhooks
\* race: the amount refunded of a payment never falls.
THEOREM RefundsOnlyGrow == Spec => RefundsAccumulate
  <1>1. IInv /\ [Next]_vars => [RefundsStep]_vars
    BY NextIInv
  <1>2. [RefundsStep]_vars
          => [\A p \in Created : payments'[p].refunded >= payments[p].refunded]_vars
    BY DEF RefundsStep
  <1> QED
    BY <1>1, <1>2, Invariance, PTL DEF Spec, RefundsAccumulate

\* A refund is only ever counted against a payment that is SUCCEEDED or
\* PARTIAL_REFUND at that moment: the version check covers the status, too, since
\* every statement that writes the status moves the version.
THEOREM RefundsOfPaid == Spec => RefundsTakePaid
  <1>1. IInv /\ [Next]_vars => [RefundsStep]_vars
    BY NextIInv
  <1>2. [RefundsStep]_vars
          => [\A p \in Created :
                payments'[p].refunded # payments[p].refunded
                  => payments[p].status \in {"SUCCEEDED", "PARTIAL_REFUND"}]_vars
    BY DEF RefundsStep, Refundable
  <1> QED
    BY <1>1, <1>2, Invariance, PTL DEF Spec, RefundsTakePaid

\* The refund's row and the amount of its payment are written in one transaction, so that
\* no race, crash or failure leaves money that went back without a row that says so.
THEOREM RefundsHaveRows == Spec => []RefundsRecorded
  <1>1. Init => RecordedInv
    BY InitIInv, EmptyBooks DEF RecordedInv
  <1>2. RecordedInv /\ [Next]_vars => RecordedInv'
    BY RecordedNext
  <1>3. RecordedInv => RefundsRecorded
    BY DEF RecordedInv
  <1> QED
    BY <1>1, <1>2, <1>3, PTL DEF Spec

\* Where no webhook comes, whatever else races or fails: a payment is decided by the request
\* that created it, and refunds take it along ValidPaymentTransitions (payment.go:39).
THEOREM StatusesFollow ==
    ASSUME "webhook" \notin Calls
    PROVE  Spec => FollowsTransitions
  <1>1. OwnInv /\ [Next]_vars => [StatusStep]_vars
    BY OwnNext
  <1>2. [StatusStep]_vars
          => [\A p \in Created :
                payments'[p].status # payments[p].status
                  => payments'[p].status \in ValidPaymentTransitions[payments[p].status]]_vars
    BY DEF StatusStep
  <1> QED
    BY <1>1, <1>2, OwnInvariance, PTL DEF Spec, FollowsTransitions

\* Where no webhook comes and no payment is refunded by two requests at once, refunded_amount
\* is what the refunds add up to, for any number of payments and through every failure; two
\* refunds at once may leave a row that does not count (payment_service.go:231).
THEOREM RefundsAddUp ==
    ASSUME "webhook" \notin Calls
    PROVE  Spec /\ []LoneRefunds => []RefundedIsSum
  <1>1. Init => SumInv
    <2>1. Init => OwnInv
      BY InitIInv DEF OwnInv, Init, CreatorsDecide, Opening, Idle
    <2> QED
      BY <2>1, EmptyBooks DEF SumInv
  <1>2. SumInv /\ LoneRefunds /\ [Next]_vars => SumInv'
    BY SumNext
  <1>3. SumInv => RefundedIsSum
    BY DEF SumInv
  <1> QED
    BY <1>1, <1>2, <1>3, PTL DEF Spec
=============================================================================
