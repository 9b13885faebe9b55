------------------------- MODULE WithdrawalsProofs -------------------------
(***************************************************************************)
(* Theorems about Withdrawals, for any number of sellers, administrators and *)
(* withdrawals and with every failure of the model; and about RateLimiter,   *)
(* for any number of keys and calls and any rates.                          *)
(***************************************************************************)
EXTENDS Withdrawals, RateLimiter, TLAPS

-----------------------------------------------------------------------------
(* Withdrawals: the version decides *)

\* What a request that has read the row, or written it, knows of it.
RequestsKnow ==
    \A h \in Requests :
        /\ req[h].pc \in {"read", "update"} => withdrawals[req[h].w] # NoWithdrawal
        /\ req[h].pc = "update" =>
             /\ req[h].version <= withdrawals[req[h].w].version
             /\ req[h].version = withdrawals[req[h].w].version
                  => withdrawals[req[h].w].status = "PENDING"
        /\ req[h].pc = "publish" => withdrawals[req[h].w].status = req[h].verdict

\* A withdrawal is written once, when it is decided.
PendingIsFresh ==
    \A w \in Withdrawals : withdrawals[w].status = "PENDING" => withdrawals[w].version = 1

IInv == TypeOK /\ RequestsKnow /\ PendingIsFresh /\ EventsTellStatus

DecisionsStand ==
    \A w \in Withdrawals :
        withdrawals[w].status \in Verdict => withdrawals'[w].status = withdrawals[w].status

AnyReq == {Idle} \cup RequestReq \cup ReadReq \cup UpdateReq

LEMMA ReqKinds ==
    ASSUME TypeOK, NEW h \in Requests
    PROVE  /\ req[h].pc = "insert" => req[h] \in RequestReq
           /\ req[h].pc \in {"read", "publish"} => req[h] \in ReadReq
           /\ req[h].pc = "update" => req[h] \in UpdateReq
  BY DEF TypeOK, Idle, RequestReq, ReadReq, UpdateReq

LEMMA StepIs ==
    ASSUME TypeOK, NEW h \in Requests, NEW x \in AnyReq, Step(h, x)
    PROVE  /\ req' \in [Requests -> AnyReq]
           /\ \A g \in Requests : req'[g] = IF g = h THEN x ELSE req[g]
  BY DEF Step, TypeOK, AnyReq

LEMMA TypeParts ==
    ASSUME TypeOK
    PROVE  /\ withdrawals \in [Withdrawals -> {NoWithdrawal} \cup Withdrawal]
           /\ verdicts \in [Withdrawals -> SUBSET Verdict]
           /\ refused \subseteq Amounts
  BY DEF TypeOK

LEMMA RowType ==
    ASSUME TypeOK, NEW w \in Withdrawals, withdrawals[w] # NoWithdrawal
    PROVE  withdrawals[w] \in Withdrawal /\ withdrawals[w].version \in Nat
  BY DEF TypeOK, Withdrawal

\* Rows are never deleted, only an undecided one changes, and then its version does.
RowsAdvance ==
    \A w \in Withdrawals : withdrawals[w] # NoWithdrawal =>
        /\ withdrawals'[w] # NoWithdrawal
        /\ withdrawals'[w].version \in Nat
        /\ withdrawals'[w].version >= withdrawals[w].version
        /\ withdrawals'[w] = withdrawals[w]
             \/ /\ withdrawals'[w].version > withdrawals[w].version
                /\ withdrawals[w].status = "PENDING"

\* A step of request h to x keeps the invariant when the rows advance and x
\* satisfies what the invariant says of a request.
LEMMA RequestStep ==
    ASSUME IInv, NEW h \in Requests, NEW x \in AnyReq, Step(h, x),
           withdrawals' \in [Withdrawals -> {NoWithdrawal} \cup Withdrawal], RowsAdvance,
           verdicts' \in [Withdrawals -> SUBSET Verdict],
           refused' \subseteq Amounts,
           PendingIsFresh',
           \A w \in Withdrawals : verdicts'[w] \subseteq {withdrawals'[w].status},
           x.pc \in {"read", "update"} => withdrawals'[x.w] # NoWithdrawal,
           x.pc = "update" =>
             /\ x.version = withdrawals'[x.w].version
             /\ withdrawals'[x.w].status = "PENDING",
           x.pc = "publish" => withdrawals'[x.w].status = x.verdict
    PROVE  IInv' /\ DecisionsStand
  <1> USE DEF IInv
  <1>1. \A g \in Requests : req'[g] = IF g = h THEN x ELSE req[g]
    BY StepIs
  <1>2. TypeOK'
    BY StepIs DEF TypeOK, AnyReq
  <1>3. DecisionsStand
    BY RowType DEF RowsAdvance, DecisionsStand, Verdict, NoWithdrawal
  <1>4. ASSUME NEW g \in Requests, g # h
        PROVE  /\ req[g].pc \in {"read", "update"} => withdrawals'[req[g].w] # NoWithdrawal
               /\ req[g].pc = "update" =>
                    /\ req[g].version <= withdrawals'[req[g].w].version
                    /\ req[g].version = withdrawals'[req[g].w].version
                         => withdrawals'[req[g].w].status = "PENDING"
               /\ req[g].pc = "publish" => withdrawals'[req[g].w].status = req[g].verdict
    <2> DEFINE w == req[g].w
    <2>1. CASE req[g].pc = "read"
      <3>1. w \in Withdrawals
        BY <2>1, ReqKinds DEF ReadReq
      <3> QED
        BY <2>1, <3>1 DEF RequestsKnow, RowsAdvance
    <2>2. CASE req[g].pc = "update"
      <3>1. w \in Withdrawals /\ req[g].version \in Nat
        BY <2>2, ReqKinds DEF UpdateReq
      <3>2. /\ withdrawals[w] # NoWithdrawal /\ req[g].version <= withdrawals[w].version
            /\ req[g].version = withdrawals[w].version => withdrawals[w].status = "PENDING"
        BY <2>2 DEF RequestsKnow
      <3>3. withdrawals[w].version \in Nat
        BY <3>1, <3>2, RowType
      <3> QED
        BY <2>2, <3>1, <3>2, <3>3 DEF RowsAdvance
    <2>3. CASE req[g].pc = "publish"
      <3>1. w \in Withdrawals /\ req[g].verdict \in Verdict
        BY <2>3, ReqKinds DEF ReadReq
      <3> QED
        BY <1>3, <2>3, <3>1 DEF RequestsKnow, DecisionsStand
    <2> QED
      BY <2>1, <2>2, <2>3
  <1>5. x.pc = "update" => x.version <= withdrawals'[x.w].version
    BY DEF AnyReq, Idle, RequestReq, ReadReq, UpdateReq
  <1>6. RequestsKnow'
    BY <1>1, <1>4, <1>5 DEF RequestsKnow
  <1>7. EventsTellStatus'
    BY DEF EventsTellStatus
  <1> QED
    BY <1>2, <1>3, <1>6, <1>7

LEMMA QuietStep ==
    ASSUME IInv, NEW h \in Requests, NEW x \in AnyReq, Step(h, x),
           UNCHANGED withdrawals,
           verdicts' \in [Withdrawals -> SUBSET Verdict],
           refused' \subseteq Amounts,
           \A w \in Withdrawals : verdicts'[w] \subseteq {withdrawals[w].status},
           x.pc \in {"read", "update"} => withdrawals[x.w] # NoWithdrawal,
           x.pc = "update" =>
             /\ x.version = withdrawals[x.w].version
             /\ withdrawals[x.w].status = "PENDING",
           x.pc # "publish"
    PROVE  IInv' /\ DecisionsStand
  <1>1. RowsAdvance
    BY RowType DEF IInv, RowsAdvance
  <1>2. withdrawals' \in [Withdrawals -> {NoWithdrawal} \cup Withdrawal] /\ PendingIsFresh'
    BY TypeParts DEF IInv, PendingIsFresh
  <1> QED
    BY <1>1, <1>2, RequestStep

LEMMA EndStep ==
    ASSUME IInv, NEW h \in Requests, End(h), UNCHANGED <<withdrawals, verdicts, refused>>
    PROVE  IInv' /\ DecisionsStand
  <1>1. Idle \in AnyReq /\ Idle.pc = "idle"
    BY DEF AnyReq, Idle
  <1> QED
    BY <1>1, QuietStep, TypeParts DEF End, IInv, EventsTellStatus

-----------------------------------------------------------------------------
(* One lemma per operation *)

LEMMA InitIInv == Init => IInv
  BY DEF Init, IInv, TypeOK, RequestsKnow, PendingIsFresh, EventsTellStatus, Idle, NoWithdrawal

LEMMA AskStep ==
    ASSUME IInv, NEW h \in Requests, NEW a \in Amounts, RequestWithdrawal(h, a)
    PROVE  IInv' /\ DecisionsStand
  <1> DEFINE x == [pc |-> "insert", amount |-> a]
  <1>1. CASE UNCHANGED req /\ refused' = refused \cup {a}
    <2>1. UNCHANGED <<withdrawals, verdicts, req>>
      BY <1>1 DEF RequestWithdrawal
    <2>2. TypeOK'
      BY <1>1, <2>1 DEF IInv, TypeOK
    <2> QED
      BY <2>1, <2>2 DEF IInv, RequestsKnow, PendingIsFresh, EventsTellStatus, DecisionsStand
  <1>2. CASE Step(h, x) /\ UNCHANGED refused
    <2>1. x \in AnyReq
      BY DEF AnyReq, RequestReq
    <2> QED
      BY <1>2, <2>1, QuietStep, TypeParts DEF IInv, EventsTellStatus, RequestWithdrawal
  <1> QED
    BY <1>1, <1>2 DEF RequestWithdrawal

LEMMA InsertStep ==
    ASSUME IInv, NEW h \in Requests, NEW w \in Withdrawals, InsertWithdrawal(h, w)
    PROVE  IInv' /\ DecisionsStand
  <1> DEFINE a == req[h].amount
             row == [status |-> "PENDING", amount |-> a, version |-> 1]
             x == IF AutoApproved(a) THEN [pc |-> "read", w |-> w, verdict |-> "APPROVED"]
                  ELSE Idle
  <1>1. req[h] \in RequestReq
    BY ReqKinds DEF IInv, InsertWithdrawal
  <1>2. CASE End(h) /\ UNCHANGED withdrawals
    BY <1>2, EndStep DEF InsertWithdrawal
  <1>3. CASE ~(End(h) /\ UNCHANGED withdrawals)
    <2>1. withdrawals' = [withdrawals EXCEPT ![w] = row] /\ Step(h, x)
      BY <1>3 DEF InsertWithdrawal, End
    <2>2. row \in Withdrawal /\ row # NoWithdrawal /\ row.version = 1
      BY <1>1 DEF RequestReq, Withdrawal, WithdrawalStatus, NoWithdrawal
    <2>3. x \in AnyReq /\ x.pc \in {"read", "idle"} /\ (x.pc = "read" => x.w = w)
      BY DEF AnyReq, ReadReq, Idle, Verdict
    <2> HIDE DEF row, x
    <2>4. withdrawals[w] = NoWithdrawal /\ UNCHANGED <<verdicts, refused>>
      BY DEF InsertWithdrawal
    <2>5. /\ withdrawals' \in [Withdrawals -> {NoWithdrawal} \cup Withdrawal]
          /\ withdrawals'[w] = row
          /\ \A v \in Withdrawals : v # w => withdrawals'[v] = withdrawals[v]
      BY <2>1, <2>2, TypeParts DEF IInv
    <2>6. RowsAdvance /\ PendingIsFresh'
      BY <2>2, <2>4, <2>5, RowType DEF IInv, RowsAdvance, PendingIsFresh
    <2>7. verdicts[w] = {}
      BY <2>4, TypeParts DEF IInv, EventsTellStatus, Verdict, NoWithdrawal
    <2>8. \A v \in Withdrawals : verdicts'[v] \subseteq {withdrawals'[v].status}
      BY <2>4, <2>5, <2>7 DEF IInv, EventsTellStatus
    <2> QED
      BY <2>1, <2>2, <2>3, <2>4, <2>5, <2>6, <2>8, RequestStep, TypeParts DEF IInv
  <1> QED
    BY <1>2, <1>3

LEMMA ApproveStep ==
    ASSUME IInv, NEW h \in Requests, NEW w \in Withdrawals, NEW v \in Verdict,
           ApproveWithdrawal(h, w, v)
    PROVE  IInv' /\ DecisionsStand
  <1> DEFINE x == [pc |-> "read", w |-> w, verdict |-> v]
  <1>1. x \in AnyReq /\ x.pc = "read" /\ x.w = w
    BY DEF AnyReq, ReadReq
  <1> QED
    BY <1>1, QuietStep, TypeParts DEF IInv, EventsTellStatus, ApproveWithdrawal

LEMMA ReadStep ==
    ASSUME IInv, NEW h \in Requests, ReadWithdrawal(h)
    PROVE  IInv' /\ DecisionsStand
  <1> DEFINE w == req[h].w
             x == [pc |-> "update", w |-> w, verdict |-> req[h].verdict,
                   version |-> withdrawals[w].version]
  <1>1. req[h] \in ReadReq
    BY ReqKinds DEF IInv, ReadWithdrawal
  <1>2. w \in Withdrawals /\ withdrawals[w] # NoWithdrawal
    BY <1>1 DEF IInv, RequestsKnow, ReadReq, ReadWithdrawal
  <1>3. CASE End(h)
    BY <1>3, EndStep DEF ReadWithdrawal
  <1>4. CASE Step(h, x) /\ withdrawals[w].status = "PENDING"
    <2>1. withdrawals[w].version \in Nat
      BY <1>2, RowType DEF IInv
    <2>2. x \in AnyReq /\ x.pc = "update" /\ x.w = w /\ x.version = withdrawals[w].version
      BY <1>1, <1>2, <2>1 DEF AnyReq, ReadReq, UpdateReq
    <2> HIDE DEF x
    <2>3. UNCHANGED <<withdrawals, verdicts, refused>>
      BY DEF ReadWithdrawal
    <2> QED
      BY <1>2, <1>4, <2>2, <2>3, QuietStep, TypeParts DEF IInv, EventsTellStatus
  <1> QED
    BY <1>3, <1>4 DEF ReadWithdrawal

LEMMA UpdateStep ==
    ASSUME IInv, NEW h \in Requests, UpdateWithdrawal(h)
    PROVE  IInv' /\ DecisionsStand
  <1> DEFINE w == req[h].w
             x == [pc |-> "publish", w |-> w, verdict |-> req[h].verdict]
  <1>1. req[h] \in UpdateReq
    BY ReqKinds DEF IInv, UpdateWithdrawal
  <1>2. w \in Withdrawals /\ req[h].verdict \in Verdict
    BY <1>1 DEF UpdateReq
  <1>3. withdrawals[w] # NoWithdrawal
    BY DEF IInv, RequestsKnow, UpdateWithdrawal
  <1>4. CASE End(h) /\ UNCHANGED withdrawals
    BY <1>4, EndStep DEF UpdateWithdrawal
  <1>5. CASE ~(End(h) /\ UNCHANGED withdrawals)
    <2>1. /\ withdrawals[w].version = req[h].version
          /\ withdrawals' = [withdrawals EXCEPT ![w].status = req[h].verdict,
                                                ![w].version = @ + 1]
          /\ Step(h, x)
      BY <1>5 DEF UpdateWithdrawal, Current
    <2>2. withdrawals[w].status = "PENDING" /\ withdrawals[w].version = 1
      BY <1>2, <2>1 DEF IInv, RequestsKnow, PendingIsFresh, UpdateWithdrawal
    <2> DEFINE old == withdrawals[w]
               row == [old EXCEPT !.status = req[h].verdict, !.version = old.version + 1]
    <2>3. old \in Withdrawal /\ old.version \in Nat
      BY <1>2, <1>3, RowType DEF IInv
    <2>4. [old EXCEPT !.status = req[h].verdict] \in Withdrawal
      BY <1>2, <2>3 DEF Withdrawal, WithdrawalStatus
    <2>5. /\ row \in Withdrawal /\ row.version = old.version + 1
          /\ row.status = req[h].verdict
      <3> DEFINE mid == [old EXCEPT !.status = req[h].verdict]
      <3>1. mid \in Withdrawal /\ mid.version = old.version /\ mid.status = req[h].verdict
        BY <2>3, <2>4 DEF Withdrawal
      <3>2. row = [mid EXCEPT !.version = old.version + 1]
        BY <2>3 DEF Withdrawal
      <3>3. old.version + 1 \in {1, 2}
        BY <2>2
      <3> HIDE DEF mid, row
      <3> QED
        BY <3>1, <3>2, <3>3 DEF Withdrawal
    <2>6. withdrawals' = [withdrawals EXCEPT ![w] = row]
      BY <1>2, <2>1, <2>3, TypeParts DEF IInv, Withdrawal
    <2>7. row # NoWithdrawal
      BY <1>2, <2>5 DEF Verdict, NoWithdrawal
    <2>8. x \in AnyReq /\ x.pc = "publish" /\ x.w = w /\ x.verdict = req[h].verdict
      BY <1>2 DEF AnyReq, ReadReq
    <2> HIDE DEF row, x
    <2>9. /\ withdrawals' \in [Withdrawals -> {NoWithdrawal} \cup Withdrawal]
          /\ withdrawals'[w] = row
          /\ \A v \in Withdrawals : v # w => withdrawals'[v] = withdrawals[v]
      BY <1>2, <2>5, <2>6, TypeParts DEF IInv
    <2>10. RowsAdvance /\ PendingIsFresh'
      BY <1>2, <2>2, <2>3, <2>5, <2>7, <2>9, RowType
         DEF IInv, RowsAdvance, PendingIsFresh, Verdict
    <2>11. verdicts[w] = {} /\ UNCHANGED <<verdicts, refused>>
      BY <1>2, <2>2, TypeParts DEF IInv, EventsTellStatus, Verdict, UpdateWithdrawal
    <2>12. \A v \in Withdrawals : verdicts'[v] \subseteq {withdrawals'[v].status}
      BY <2>9, <2>11 DEF IInv, EventsTellStatus
    <2> QED
      BY <2>1, <2>5, <2>8, <2>9, <2>10, <2>11, <2>12, RequestStep, TypeParts DEF IInv
  <1> QED
    BY <1>4, <1>5

LEMMA PublishStep ==
    ASSUME IInv, NEW h \in Requests, PublishVerdict(h)
    PROVE  IInv' /\ DecisionsStand
  <1> DEFINE w == req[h].w
  <1>1. req[h] \in ReadReq
    BY ReqKinds DEF IInv, PublishVerdict
  <1>2. w \in Withdrawals /\ req[h].verdict \in Verdict
    BY <1>1 DEF ReadReq
  <1>3. withdrawals[w].status = req[h].verdict
    BY DEF IInv, RequestsKnow, PublishVerdict
  <1>4. /\ verdicts' \in [Withdrawals -> SUBSET Verdict]
        /\ \A v \in Withdrawals : verdicts'[v] \subseteq {withdrawals[v].status}
    BY <1>2, <1>3, TypeParts DEF IInv, EventsTellStatus, PublishVerdict
  <1>5. Idle \in AnyReq /\ Idle.pc = "idle" /\ Step(h, Idle) /\ UNCHANGED <<withdrawals, refused>>
    BY DEF AnyReq, Idle, PublishVerdict, End
  <1> QED
    BY <1>4, <1>5, QuietStep, TypeParts DEF IInv

LEMMA NextIInv ==
    ASSUME IInv, [Next]_vars
    PROVE  IInv' /\ DecisionsStand
  <1>1. CASE UNCHANGED vars
    BY <1>1 DEF IInv, TypeOK, RequestsKnow, PendingIsFresh, EventsTellStatus, DecisionsStand, vars
  <1>2. ASSUME NEW h \in Requests, Work(h)
        PROVE  IInv' /\ DecisionsStand
    BY <1>2, InsertStep, ReadStep, UpdateStep, PublishStep DEF Work
  <1>3. ASSUME NEW h \in Requests, Crash(h)
        PROVE  IInv' /\ DecisionsStand
    BY <1>3, EndStep DEF Crash
  <1> QED
    BY <1>1, <1>2, <1>3, AskStep, ApproveStep DEF Next

LEMMA Invariance == Spec => []IInv
  <1>1. IInv /\ [Next]_vars => IInv'
    BY NextIInv
  <1> QED
    BY <1>1, InitIInv, PTL DEF Spec

-----------------------------------------------------------------------------
(* Theorems *)

\* The version check of ApproveWithdrawal (payment_service.go:361-371) makes a
\* decision final, however many administrators race with the automatic approval.
THEOREM DecisionIsFinal == Spec => DecidedOnce
  <1>1. IInv /\ [Next]_vars => [DecisionsStand]_vars
    BY NextIInv
  <1> QED
    BY <1>1, Invariance, PTL DEF Spec, DecidedOnce, DecisionsStand

\* A withdrawal.approved or withdrawal.rejected event in Kafka always tells the
\* status that the database has (and the type invariant holds).
THEOREM EventsAreTrue == Spec => []WithdrawalSafety
  <1>1. IInv => WithdrawalSafety
    BY DEF IInv, WithdrawalSafety
  <1> QED
    BY <1>1, Invariance, PTL

-----------------------------------------------------------------------------
(* RateLimiter: the bucket gives what the definition of a limit leaves, and no less *)

\* Readings are as old as a call of Redis takes at most, also the ones that are stored.
CallIsRecent(c) ==
    call[c] # Resting => call[c].now <= clock /\ clock <= call[c].now + MaxDelay

\* The tokens in a bucket are what is left in the interval with the least room.
BucketIsTight(k) ==
    /\ bucket[k] = NoBucket => \A t \in Instants : since[k][t] = 0
    /\ bucket[k] # NoBucket =>
         /\ \A t \in Instants : t > bucket[k].last => since[k][t] = 0
         /\ \A t \in 0..bucket[k].last : Room(k, t, bucket[k].last) >= bucket[k].tokens
         /\ \E t \in 0..bucket[k].last : Room(k, t, bucket[k].last) = bucket[k].tokens

LimiterInv ==
    /\ LimiterTypeOK
    /\ \A c \in Calls : CallIsRecent(c)
    /\ \A k \in LimitKeys : bucket[k] # NoBucket =>
         bucket[k].last <= bucket[k].touched /\ bucket[k].touched <= clock
    /\ \A k \in inOrder : BucketIsTight(k)

LEMMA Limits ==
    ASSUME NEW k \in LimitKeys
    PROVE  /\ RateOf(k) \in Nat /\ RateOf(k) >= 1
           /\ BurstOf(k) \in Nat /\ BurstOf(k) >= 1000
           /\ MaxDelay \in Nat /\ Ttl \in Nat /\ Horizon \in Nat
           /\ BurstOf(k) <= RateOf(k) * (Ttl - MaxDelay)
           /\ Ttl - MaxDelay >= 1
<1>1. /\ RateOf(k) \in Nat /\ RateOf(k) >= 1
      /\ BurstOf(k) \in Nat /\ BurstOf(k) >= 1000
      /\ MaxDelay \in Nat /\ Ttl \in Nat /\ Horizon \in Nat
      /\ BurstOf(k) <= RateOf(k) * (Ttl - MaxDelay)
  BY LimiterAssumption DEF LimitKeys, RateOf, BurstOf
<1>2. ASSUME NEW r \in Nat, NEW d \in Int, r * d >= 1000 PROVE d >= 1
  BY <1>2
<1>3. Ttl - MaxDelay >= 1
  BY <1>1, <1>2
<1>. QED BY <1>1, <1>3

LEMMA GainsAdd ==
    ASSUME NEW r \in Int, NEW a \in Int, NEW b \in Int, NEW c \in Int
    PROVE  r * (c - a) = r * (b - a) + r * (c - b)
  OBVIOUS

LEMMA Monotone ==
    ASSUME NEW r \in Nat, NEW a \in Int, NEW b \in Int, a <= b
    PROVE  r * a <= r * b
  OBVIOUS

LEMMA GainsOrdered ==
    ASSUME NEW r \in Nat, NEW a \in Int, NEW b \in Int, NEW max \in Int, a <= b, max <= r * a
    PROVE  max <= r * b
<1>1. r * a \in Int /\ r * b \in Int /\ r * a <= r * b
  BY Monotone
<1>. QED BY <1>1

LEMMA RoomFacts ==
    ASSUME LimiterTypeOK, NEW k \in LimitKeys, NEW t \in Instants, NEW to \in Int
    PROVE  /\ t \in Int /\ t >= 0 /\ t <= Horizon /\ since[k][t] \in Nat
           /\ Room(k, t, to) \in Int
           /\ Room(k, t, to) = BurstOf(k) + RateOf(k) * (to - t) - 1000 * since[k][t]
<1>1. t \in Int /\ t >= 0 /\ t <= Horizon /\ Horizon \in Nat
  BY Limits DEF Instants
<1>2. since[k][t] \in Nat
  BY DEF LimiterTypeOK
<1>3. RateOf(k) * (to - t) \in Int
  BY <1>1, Limits
<1>. QED BY <1>1, <1>2, <1>3, Limits DEF Room

\* A key that has expired would be full by now.
LEMMA RefilledFacts ==
    ASSUME LimiterInv, NEW k \in LimitKeys, NEW now \in Instants,
           now <= clock, clock <= now + MaxDelay
    PROVE  /\ Refilled(k, now) \in 0..BurstOf(k)
           /\ k \in inOrder /\ (bucket[k] # NoBucket => bucket[k].last <= now) =>
                /\ \A t \in Instants : t > now => since[k][t] = 0
                /\ \A t \in 0..now : Room(k, t, now) >= Refilled(k, now)
                /\ \E t \in 0..now : Room(k, t, now) = Refilled(k, now)
<1>. DEFINE b == bucket[k]
            R == RateOf(k)
            B == BurstOf(k)
            gain == Elapsed(k, now) * R
<1>1. /\ R \in Nat /\ R >= 1 /\ B \in Nat /\ B >= 1000 /\ Horizon \in Nat
      /\ MaxDelay \in Nat /\ Ttl \in Nat /\ B <= R * (Ttl - MaxDelay) /\ Ttl - MaxDelay >= 1
  BY Limits
<1>2. /\ clock \in Int /\ now \in Int /\ now >= 0 /\ now <= Horizon
      /\ since[k] \in [Instants -> Nat]
      /\ b # NoBucket => /\ b.tokens \in Int /\ b.tokens >= 0 /\ b.tokens <= B
                         /\ b.last \in Int /\ b.last >= 0 /\ b.touched \in Int
                         /\ b.last <= b.touched
  BY <1>1 DEF LimiterInv, LimiterTypeOK, Instants, Bucket
<1>3. Instants = {t \in Int : 0 <= t /\ t <= Horizon}
  BY <1>1 DEF Instants
<1>4. b # NoBucket =>
        /\ gain \in Int /\ gain >= 0
        /\ b.last <= now => gain = R * (now - b.last)
  <2>1. b # NoBucket => Elapsed(k, now) \in Nat
                        /\ (b.last <= now => Elapsed(k, now) = now - b.last)
    BY <1>2 DEF Elapsed
  <2>2. ASSUME NEW e \in Nat PROVE e * R \in Int /\ e * R >= 0 /\ e * R = R * e
    BY <1>1
  <2>. QED BY <2>1, <2>2
<1>5. CASE Absent(k)
  <2>1. Refilled(k, now) = B
    BY <1>5 DEF Refilled
  <2>2. ASSUME k \in inOrder, b # NoBucket => b.last <= now
        PROVE  \A t \in Instants : t > now => since[k][t] = 0
    BY <2>2, <1>2, <1>3 DEF LimiterInv, BucketIsTight
  <2>3. ASSUME k \in inOrder, b # NoBucket => b.last <= now, NEW t \in 0..now
        PROVE  Room(k, t, now) >= B /\ (t = now => Room(k, t, now) = B)
    <3>0. t \in Int /\ 0 <= t /\ t <= now /\ t \in Instants
      BY <1>1, <1>2, <1>3
    <3>1. t \in Int /\ 0 <= t /\ t <= now /\ t \in Instants /\ since[k][t] \in Nat
      BY <3>0, RoomFacts DEF LimiterInv
    <3>2. R * (now - t) \in Int /\ R * (now - t) >= 0 /\ (t = now => R * (now - t) = 0)
      BY <3>1, <1>1, <1>2
    <3>3. CASE since[k][t] = 0
      BY <3>2, <3>3, <1>1 DEF Room
    <3>4. CASE since[k][t] # 0
      <4>1. b # NoBucket /\ t <= b.last /\ clock - b.touched >= Ttl
        BY <3>1, <3>4, <2>3, <1>2, <1>5 DEF LimiterInv, BucketIsTight, Absent
      <4>2. now - b.last >= Ttl - MaxDelay
        BY <4>1, <1>1, <1>2
      <4>3. R * (now - b.last) >= B
        BY <4>1, <4>2, <1>1, <1>2, GainsOrdered
      <4>4. Room(k, t, b.last) >= 0
        <5>1. t \in 0..b.last /\ Room(k, t, b.last) >= b.tokens
          BY <4>1, <3>1, <1>2, <2>3 DEF LimiterInv, BucketIsTight
        <5>2. Room(k, t, b.last) \in Int
          BY <4>1, <3>1, <1>2, RoomFacts DEF LimiterInv
        <5>3. b.tokens \in Int /\ b.tokens >= 0
          BY <4>1, <1>2
        <5>. HIDE DEF b
        <5>. QED BY <5>1, <5>2, <5>3
      <4>5. R * (now - t) = R * (b.last - t) + R * (now - b.last)
        BY <4>1, <3>1, <1>1, <1>2, GainsAdd
      <4>6. R * (b.last - t) \in Int /\ R * (now - b.last) \in Int
        BY <4>1, <3>1, <1>1, <1>2
      <4>7. Room(k, t, now) >= B
        BY <4>3, <4>4, <4>5, <4>6, <3>1, <1>1 DEF Room
      <4>8. t # now
        BY <4>1, <4>2, <1>1, <1>2
      <4>. QED BY <4>7, <4>8
    <3>. QED BY <3>3, <3>4
  <2>4. now \in 0..now
    BY <1>2
  <2>. QED BY <2>1, <2>2, <2>3, <2>4, <1>1
<1>6. CASE ~Absent(k)
  <2>1. b # NoBucket
    BY <1>6 DEF Absent
  <2>2. Refilled(k, now) = IF b.tokens + gain > B THEN B ELSE b.tokens + gain
    BY <1>6 DEF Refilled
  <2>3. Refilled(k, now) \in 0..B
    BY <2>1, <2>2, <1>1, <1>2, <1>4
  <2>4. ASSUME k \in inOrder, b.last <= now
        PROVE  /\ \A t \in Instants : t > now => since[k][t] = 0
               /\ \A t \in 0..now : Room(k, t, now) >= Refilled(k, now)
               /\ \E t \in 0..now : Room(k, t, now) = Refilled(k, now)
    <3>1. /\ \A t \in Instants : t > b.last => since[k][t] = 0
          /\ \A t \in 0..b.last : Room(k, t, b.last) >= b.tokens
          /\ \E t \in 0..b.last : Room(k, t, b.last) = b.tokens
      BY <2>1, <2>4 DEF LimiterInv, BucketIsTight
    <3>2. ASSUME NEW t \in 0..b.last
          PROVE  Room(k, t, now) = Room(k, t, b.last) + gain /\ Room(k, t, b.last) \in Int
      <4>0. t \in Int /\ 0 <= t /\ t <= b.last /\ t \in Instants
        BY <2>1, <2>4, <1>1, <1>2, <1>3
      <4>1. t \in Int /\ 0 <= t /\ t <= b.last /\ since[k][t] \in Nat
        BY <4>0, RoomFacts DEF LimiterInv
      <4>2. R * (now - t) = R * (b.last - t) + R * (now - b.last)
        BY <4>1, <2>1, <1>1, <1>2, GainsAdd
      <4>3. R * (b.last - t) \in Int /\ R * (now - b.last) \in Int
        BY <4>1, <2>1, <1>1, <1>2
      <4>. QED BY <4>1, <4>2, <4>3, <2>1, <2>4, <1>1, <1>4 DEF Room
    <3>3. ASSUME NEW t \in 0..now, t > b.last
          PROVE  Room(k, t, now) >= B /\ (t = now => Room(k, t, now) = B)
      <4>0. t \in Int /\ 0 <= t /\ t <= now /\ t \in Instants
        BY <1>1, <1>2, <1>3
      <4>1. t \in Int /\ 0 <= t /\ t <= now /\ since[k][t] = 0
        BY <4>0, <3>1, <3>3
      <4>2. R * (now - t) \in Int /\ R * (now - t) >= 0 /\ (t = now => R * (now - t) = 0)
        BY <4>1, <1>1, <1>2
      <4>. QED BY <4>1, <4>2, <1>1 DEF Room
    <3>4. ASSUME NEW t \in 0..now PROVE Room(k, t, now) >= Refilled(k, now)
      <4>0. t \in Int /\ 0 <= t /\ t <= now /\ t \in Instants /\ Room(k, t, now) \in Int
        <5>1. t \in Int /\ 0 <= t /\ t <= now /\ t \in Instants
          BY <1>1, <1>2, <1>3
        <5>. QED BY <5>1, <1>2, RoomFacts DEF LimiterInv
      <4>1. CASE t > b.last
        BY <4>0, <4>1, <3>3, <2>3, <1>1
      <4>2. CASE ~(t > b.last)
        <5>1. t \in 0..b.last
          BY <4>2, <2>1, <1>2
        <5>. QED BY <5>1, <3>1, <3>2, <2>1, <2>2, <1>1, <1>2, <1>4
      <4>. QED BY <4>1, <4>2
    <3>5. \E t \in 0..now : Room(k, t, now) = Refilled(k, now)
      <4>1. PICK u \in 0..b.last : Room(k, u, b.last) = b.tokens
        BY <3>1
      <4>2. u \in 0..now
        BY <2>1, <2>4, <1>2
      <4>3. CASE b.tokens + gain <= B
        BY <4>1, <4>2, <4>3, <3>2, <2>1, <2>2, <1>1, <1>2, <1>4
      <4>4. CASE ~(b.tokens + gain <= B)
        <5>1. Refilled(k, now) = B
          BY <4>4, <2>1, <2>2, <1>1, <1>2, <1>4
        <5>2. now > b.last
          <6>1. b.last # now
            <7>1. SUFFICES ASSUME b.last = now PROVE FALSE
              OBVIOUS
            <7>2. R * (now - b.last) = 0
              BY <7>1, <2>1, <1>1, <1>2
            <7>. QED BY <7>1, <7>2, <4>4, <2>1, <1>1, <1>2, <1>4
          <6>. QED BY <6>1, <2>1, <2>4, <1>2
        <5>3. now \in 0..now
          BY <1>2
        <5>. QED BY <5>1, <5>2, <5>3, <3>3
      <4>. QED BY <4>3, <4>4
    <3>6. \A t \in Instants : t > now => since[k][t] = 0
      BY <3>1, <2>1, <2>4, <1>2, <1>3
    <3>. QED BY <3>4, <3>5, <3>6
  <2>. QED BY <2>1, <2>3, <2>4
<1>. QED BY <1>5, <1>6

LimiterParts ==
    /\ clock \in Instants
    /\ DOMAIN bucket = LimitKeys
    /\ \A k \in LimitKeys : bucket[k] \in Bucket(k) \cup {NoBucket}
    /\ since \in [LimitKeys -> [Instants -> Nat]]
    /\ inOrder \subseteq LimitKeys
    /\ \A k \in LimitKeys : bucket[k] # NoBucket =>
         bucket[k].last <= bucket[k].touched /\ bucket[k].touched <= clock
    /\ \A k \in inOrder : BucketIsTight(k)

\* The script keeps what the invariant says of keys.
LEMMA RunScriptStep ==
    ASSUME LimiterInv, NEW k \in LimitKeys, NEW now \in Instants,
           now <= clock, clock <= now + MaxDelay, RunScript(k, now), UNCHANGED clock
    PROVE  LimiterParts'
<1>. DEFINE left == Left(k, now)
            new == [tokens |-> left, last |-> now, touched |-> clock]
<1>1. /\ BurstOf(k) \in Nat /\ BurstOf(k) >= 1000 /\ Horizon \in Nat
      /\ now \in Int /\ now >= 0 /\ now <= Horizon /\ clock \in Instants /\ clock \in Int
  BY Limits DEF LimiterInv, LimiterTypeOK, Instants
<1>2. Refilled(k, now) \in 0..BurstOf(k)
  BY RefilledFacts
<1>3. left \in 0..BurstOf(k)
      /\ left = IF Allowed(k, now) THEN Refilled(k, now) - 1000 ELSE Refilled(k, now)
  BY <1>1, <1>2 DEF Left, Allowed
<1>4. new \in Bucket(k) /\ new # NoBucket
  BY <1>1, <1>3 DEF Bucket, NoBucket
<1>5. /\ bucket' = [bucket EXCEPT ![k] = new]
      /\ since' = IF Allowed(k, now)
                  THEN [since EXCEPT ![k] = [t \in Instants |-> IF t <= now THEN since[k][t] + 1
                                                                 ELSE since[k][t]]]
                  ELSE since
      /\ inOrder' = IF bucket[k] # NoBucket /\ now < bucket[k].last THEN inOrder \ {k}
                    ELSE inOrder
  BY DEF RunScript, LimiterInv, LimiterTypeOK
<1>6. since' \in [LimitKeys -> [Instants -> Nat]]
  BY <1>5 DEF LimiterInv, LimiterTypeOK
<1>7. /\ DOMAIN bucket' = LimitKeys /\ bucket'[k] = new
      /\ \A j \in LimitKeys \ {k} : bucket'[j] = bucket[j] /\ since'[j] = since[j]
      /\ inOrder' \subseteq inOrder
  BY <1>5 DEF LimiterInv, LimiterTypeOK
<1>8. ASSUME NEW j \in inOrder', j # k PROVE BucketIsTight(j)'
  <2>1. BucketIsTight(j) /\ j \in LimitKeys
    BY <1>7, <1>8 DEF LimiterInv, LimiterTypeOK
  <2>2. bucket'[j] = bucket[j] /\ since'[j] = since[j]
    BY <1>7, <1>8, <2>1
  <2>. QED BY <2>1, <2>2 DEF BucketIsTight, Room
<1>9. ASSUME k \in inOrder' PROVE BucketIsTight(k)'
  <2>1. k \in inOrder /\ (bucket[k] # NoBucket => ~(now < bucket[k].last))
    BY <1>5, <1>9
  <2>2. bucket[k] # NoBucket => bucket[k].last \in Int
    BY DEF LimiterInv, LimiterTypeOK, Bucket, Instants
  <2>3. /\ \A t \in Instants : t > now => since[k][t] = 0
        /\ \A t \in 0..now : Room(k, t, now) >= Refilled(k, now)
        /\ \E t \in 0..now : Room(k, t, now) = Refilled(k, now)
    BY <2>1, <2>2, <1>1, RefilledFacts
  <2>4. ASSUME NEW t \in 0..now
        PROVE  /\ Room(k, t, now) \in Int
               /\ Room(k, t, now)' = IF Allowed(k, now) THEN Room(k, t, now) - 1000
                                     ELSE Room(k, t, now)
    <3>1. t \in Instants /\ t \in Int /\ t <= now
      BY <1>1 DEF Instants
    <3>2. /\ since[k][t] \in Nat /\ Room(k, t, now) \in Int
          /\ Room(k, t, now) = BurstOf(k) + RateOf(k) * (now - t) - 1000 * since[k][t]
      BY <3>1, <1>1, RoomFacts DEF LimiterInv
    <3>3. since'[k][t] = IF Allowed(k, now) THEN since[k][t] + 1 ELSE since[k][t]
      BY <3>1, <1>5 DEF LimiterInv, LimiterTypeOK
    <3>4. RateOf(k) * (now - t) \in Int
      BY <3>1, <1>1, Limits
    <3>5. Room(k, t, now)' = BurstOf(k) + RateOf(k) * (now - t) - 1000 * since'[k][t]
      BY DEF Room
    <3>. HIDE DEF Room
    <3>. QED BY <3>2, <3>3, <3>4, <3>5, <1>1
  <2>5. ASSUME NEW t \in Instants, t > now PROVE since'[k][t] = 0
    <3>1. t \in Int /\ since[k][t] = 0
      BY <2>3, <2>5, <1>1 DEF Instants
    <3>. QED BY <3>1, <2>5, <1>1, <1>5 DEF LimiterInv, LimiterTypeOK
  <2>6. ASSUME NEW t \in 0..now PROVE Room(k, t, now)' >= left
    BY <2>3, <2>4, <1>2, <1>3
  <2>7. \E t \in 0..now : Room(k, t, now)' = left
    <3>1. PICK t \in 0..now : Room(k, t, now) = Refilled(k, now)
      BY <2>3
    <3>. QED BY <3>1, <2>4, <1>2, <1>3
  <2>8. bucket'[k] # NoBucket /\ bucket'[k].last = now /\ bucket'[k].tokens = left
    BY <1>4, <1>7
  <2>. QED BY <2>5, <2>6, <2>7, <2>8 DEF BucketIsTight
<1>10. \A j \in LimitKeys : bucket'[j] \in Bucket(j) \cup {NoBucket}
  BY <1>4, <1>7 DEF LimiterInv, LimiterTypeOK
<1>11. ASSUME NEW j \in LimitKeys, bucket'[j] # NoBucket
       PROVE  bucket'[j].last <= bucket'[j].touched /\ bucket'[j].touched <= clock'
  <2>1. CASE j = k
    BY <2>1, <1>1, <1>7
  <2>2. CASE j # k
    BY <2>2, <1>7, <1>11 DEF LimiterInv
  <2>. QED BY <2>1, <2>2
<1>12. \A j \in inOrder' : BucketIsTight(j)'
  BY <1>8, <1>9
<1>13. inOrder' \subseteq LimitKeys /\ clock' \in Instants
  BY <1>1, <1>7 DEF LimiterInv, LimiterTypeOK
<1>. QED BY <1>6, <1>7, <1>10, <1>11, <1>12, <1>13 DEF LimiterParts

AnyCall == [at: LimitKeys, public: BOOLEAN, now: Instants] \cup {Resting}

LEMMA KeysUnchanged ==
    ASSUME LimiterInv, UNCHANGED <<bucket, since, inOrder>>, clock' \in Instants, clock' >= clock
    PROVE  LimiterParts'
<1>1. clock \in Int /\ clock' \in Int
  BY Limits DEF LimiterInv, LimiterTypeOK, Instants, LimitKeys
<1>2. \A k \in LimitKeys : bucket[k] # NoBucket => bucket[k].touched \in Int
  BY DEF LimiterInv, LimiterTypeOK, Bucket, Instants
<1>3. \A k \in inOrder : BucketIsTight(k) => BucketIsTight(k)'
  BY DEF BucketIsTight, Room
<1>. QED BY <1>1, <1>2, <1>3 DEF LimiterInv, LimiterTypeOK, LimiterParts

\* A request whose time is read takes the place of the one before.
LEMMA AwaitStep ==
    ASSUME LimiterInv, LimiterParts', UNCHANGED clock, NEW c \in Calls, NEW state, Await(c, state),
           \/ state = Resting
           \/ state \in [at: LimitKeys, public: BOOLEAN, now: {clock}]
    PROVE  LimiterInv'
<1>1. /\ clock \in Instants /\ clock \in Int /\ MaxDelay \in Nat
      /\ call \in [Calls -> AnyCall] /\ call' = [call EXCEPT ![c] = state]
  BY Limits DEF LimiterInv, LimiterTypeOK, Instants, LimitKeys, AnyCall, Await
<1>2. state \in AnyCall
  BY <1>1 DEF AnyCall
<1>3. call' \in [Calls -> AnyCall]
  BY <1>1, <1>2
<1>4. ASSUME NEW d \in Calls PROVE CallIsRecent(d)'
  <2>1. CASE d = c
    BY <2>1, <1>1 DEF CallIsRecent
  <2>2. CASE d # c
    BY <2>2, <1>1 DEF CallIsRecent, LimiterInv
  <2>. QED BY <2>1, <2>2
<1>. QED BY <1>3, <1>4 DEF LimiterInv, LimiterTypeOK, LimiterParts, AnyCall

LEMMA ArriveStep ==
    ASSUME LimiterInv, NEW c \in Calls, NEW public \in BOOLEAN, Arrive(c, public)
    PROVE  LimiterInv'
<1>1. LimiterParts'
  BY KeysUnchanged, Limits DEF Arrive, LimiterInv, LimiterTypeOK, LimitKeys, Instants
<1>2. [at |-> "global", public |-> public, now |-> clock]
        \in [at: LimitKeys, public: BOOLEAN, now: {clock}]
  BY DEF LimitKeys
<1>. QED BY <1>1, <1>2, AwaitStep DEF Arrive

LEMMA CallFacts ==
    ASSUME LimiterInv, NEW c \in Calls, call[c] # Resting
    PROVE  /\ call[c].at \in LimitKeys /\ call[c].now \in Instants
           /\ call[c].now <= clock /\ clock <= call[c].now + MaxDelay
<1>1. call[c] \in [at: LimitKeys, public: BOOLEAN, now: Instants]
  BY DEF LimiterInv, LimiterTypeOK
<1>. QED BY <1>1 DEF LimiterInv, CallIsRecent

LEMMA GoOnStep ==
    ASSUME LimiterInv, LimiterParts', UNCHANGED clock, NEW c \in Calls, GoOn(c)
    PROVE  LimiterInv'
<1>1. [at |-> "public", public |-> TRUE, now |-> clock]
        \in [at: LimitKeys, public: BOOLEAN, now: {clock}]
  BY DEF LimitKeys
<1>. QED BY <1>1, AwaitStep DEF GoOn

LEMMA EvaluateStep ==
    ASSUME LimiterInv, NEW c \in Calls, Evaluate(c)
    PROVE  LimiterInv'
<1>1. LimiterParts'
  BY CallFacts, RunScriptStep DEF Evaluate
<1>. QED BY <1>1, GoOnStep, AwaitStep DEF Evaluate

LEMMA EvaluateFailsStep ==
    ASSUME LimiterInv, NEW c \in Calls, EvaluateFails(c)
    PROVE  LimiterInv'
<1>1. CASE RunScript(call[c].at, call[c].now)
  <2>1. LimiterParts'
    BY <1>1, CallFacts, RunScriptStep DEF EvaluateFails
  <2>. QED BY <2>1, GoOnStep DEF EvaluateFails
<1>2. CASE UNCHANGED <<bucket, since, inOrder>>
  <2>1. LimiterParts'
    <3>1. clock' = clock /\ clock \in Instants /\ clock \in Int
      BY Limits DEF EvaluateFails, LimiterInv, LimiterTypeOK, LimitKeys, Instants
    <3>. QED BY <1>2, <3>1, KeysUnchanged
  <2>. QED BY <2>1, GoOnStep DEF EvaluateFails
<1>. QED BY <1>1, <1>2 DEF EvaluateFails

LEMMA TockStep ==
    ASSUME LimiterInv, Tock
    PROVE  LimiterInv'
<1>1. /\ clock \in Int /\ clock' = clock + 1 /\ clock' \in Instants /\ MaxDelay \in Nat
  BY Limits DEF Tock, LimiterInv, LimiterTypeOK, Instants, LimitKeys
<1>2. LimiterParts'
  BY <1>1, KeysUnchanged DEF Tock
<1>3. ASSUME NEW c \in Calls PROVE CallIsRecent(c)'
  <2>1. call[c] # Resting => call[c].now \in Int
    BY CallFacts, Limits DEF Instants, LimitKeys
  <2>. QED BY <2>1, <1>1 DEF Tock, CallIsRecent, LimiterInv
<1>4. call' \in [Calls -> [at: LimitKeys, public: BOOLEAN, now: Instants] \cup {Resting}]
  BY DEF Tock, LimiterInv, LimiterTypeOK
<1>. QED BY <1>2, <1>3, <1>4 DEF LimiterInv, LimiterTypeOK, LimiterParts

LEMMA LimiterInitLemma == LimiterInit => LimiterInv
<1>. SUFFICES ASSUME LimiterInit PROVE LimiterInv
  OBVIOUS
<1>1. 0 \in Instants
  BY Limits DEF Instants, LimitKeys
<1>2. LimiterTypeOK
  BY <1>1 DEF LimiterInit, LimiterTypeOK
<1>3. \A k \in inOrder : BucketIsTight(k)
  BY DEF LimiterInit, BucketIsTight
<1>. QED BY <1>2, <1>3 DEF LimiterInit, LimiterInv, CallIsRecent

LEMMA LimiterNextLemma ==
    ASSUME LimiterInv, [LimiterNext]_limiterVars
    PROVE  LimiterInv'
<1>1. ASSUME UNCHANGED limiterVars PROVE LimiterInv'
  <2>1. \A k \in inOrder : BucketIsTight(k) => BucketIsTight(k)'
    BY <1>1 DEF limiterVars, BucketIsTight, Room
  <2>2. \A c \in Calls : CallIsRecent(c) => CallIsRecent(c)'
    BY <1>1 DEF limiterVars, CallIsRecent
  <2>. QED BY <1>1, <2>1, <2>2 DEF limiterVars, LimiterInv, LimiterTypeOK
<1>. QED BY <1>1, TockStep, ArriveStep, EvaluateStep, EvaluateFailsStep DEF LimiterNext

\* Both properties follow: what a bucket holds is the least room, and the script gives a
\* token exactly if that is one.
LEMMA BucketIsTrue == LimiterInv => LimitIsKept /\ AnswersAreDue
<1>. SUFFICES ASSUME LimiterInv PROVE LimitIsKept /\ AnswersAreDue
  OBVIOUS
<1>1. LimitIsKept
  <2>. SUFFICES ASSUME NEW k \in inOrder, bucket[k] # NoBucket, NEW t \in 0..bucket[k].last
       PROVE  Room(k, t, bucket[k].last) >= 0
    BY DEF LimitIsKept
  <2>1. k \in LimitKeys /\ bucket[k] \in Bucket(k)
    BY DEF LimiterInv, LimiterTypeOK
  <2>2. bucket[k].tokens \in Nat /\ bucket[k].last \in Int /\ t \in Instants
    BY <2>1, Limits DEF Bucket, Instants
  <2>3. Room(k, t, bucket[k].last) >= bucket[k].tokens
    BY DEF LimiterInv, BucketIsTight
  <2>. QED BY <2>1, <2>2, <2>3, RoomFacts DEF LimiterInv
<1>2. AnswersAreDue
  <2>. SUFFICES ASSUME NEW c \in Calls, call[c] # Resting, call[c].at \in inOrder,
                       bucket[call[c].at].last <= call[c].now
       PROVE  Allowed(call[c].at, call[c].now)
                <=> \A t \in 0..call[c].now : Room(call[c].at, t, call[c].now) >= 1000
    BY DEF AnswersAreDue
  <2>. DEFINE k == call[c].at
              now == call[c].now
  <2>1. k \in LimitKeys /\ now \in Instants /\ now <= clock /\ clock <= now + MaxDelay
    BY CallFacts
  <2>2. /\ Refilled(k, now) \in Int
        /\ \A t \in 0..now : Room(k, t, now) >= Refilled(k, now)
        /\ \E t \in 0..now : Room(k, t, now) = Refilled(k, now)
    BY <2>1, RefilledFacts, Limits
  <2>3. \A t \in 0..now : Room(k, t, now) \in Int
    <3>1. now \in Int /\ 0..now \subseteq Instants
      BY <2>1, Limits DEF Instants
    <3>. QED BY <2>1, <3>1, RoomFacts DEF LimiterInv
  <2>. QED BY <2>2, <2>3 DEF Allowed
<1>. QED BY <1>1, <1>2

\* For any limits, requests and delays, with lost answers and keys that expire: every key
\* whose readings arrive in order gives, in any interval, what its limit allows and no
\* more, and refuses nothing that it would allow (the Lua script, ratelimit.go:44).
THEOREM LimiterIsSafe == LimiterSpec => []LimiterSafety
<1>1. LimiterInv => LimiterSafety
  BY BucketIsTrue DEF LimiterSafety, LimiterInv
<1>. QED BY <1>1, LimiterInitLemma, LimiterNextLemma, PTL DEF LimiterSpec
=============================================================================
