---------------------------- MODULE Withdrawals ----------------------------
(***************************************************************************)
(* payment-service: sellers' withdrawals                                    *)
(* (internal/service/payment_service.go, RequestWithdrawal and               *)
(* ApproveWithdrawal).                                                      *)
(*                                                                          *)
(* A small withdrawal is approved by the request that makes it, a large one  *)
(* by an administrator; both go through ApproveWithdrawal, which reads the   *)
(* row, writes it WHERE version = the one it read, and publishes.           *)
(***************************************************************************)
EXTENDS Naturals

CONSTANTS
    Withdrawals,    \* withdrawal ids (uuid.New)
    Requests,       \* requests in flight at the same time
    Amounts,        \* amounts the sellers ask for
    MinAmount,      \* WITHDRAWAL_MIN_AMOUNT
    AutoApproveMax, \* WITHDRAWAL_AUTO_APPROVE_MAX
    Faults          \* failures the environment shows

ASSUME WithdrawalAssumption ==
    /\ Amounts \subseteq Nat \ {0}
    /\ MinAmount \in Nat /\ AutoApproveMax \in Nat
    /\ Faults \subseteq {"net", "db", "crash"}

VARIABLES
    withdrawals,    \* payment_svc.withdrawals
    req,            \* the state of each request
    verdicts,       \* the withdrawal.approved and .rejected events in Kafka
    refused         \* the amounts sellers were told are below the minimum

vars == <<withdrawals, req, verdicts, refused>>

Verdict == {"APPROVED", "REJECTED"}
WithdrawalStatus == {"PENDING"} \cup Verdict

\* version counts the row as inserted and its one decision.
NoWithdrawal == [status |-> "NONE"]
Withdrawal == [status: WithdrawalStatus, amount: Amounts, version: {1, 2}]

Idle == [pc |-> "idle"]
RequestReq == [pc: {"insert"}, amount: Amounts]
ReadReq == [pc: {"read", "publish"}, w: Withdrawals, verdict: Verdict]
UpdateReq == [pc: {"update"}, w: Withdrawals, verdict: Verdict, version: Nat]

TypeOK ==
    /\ withdrawals \in [Withdrawals -> {NoWithdrawal} \cup Withdrawal]
    /\ req \in [Requests -> {Idle} \cup RequestReq \cup ReadReq \cup UpdateReq]
    /\ verdicts \in [Withdrawals -> SUBSET Verdict]
    /\ refused \subseteq Amounts

Init ==
    /\ withdrawals = [w \in Withdrawals |-> NoWithdrawal]
    /\ req = [h \in Requests |-> Idle]
    /\ verdicts = [w \in Withdrawals |-> {}]
    /\ refused = {}

Step(h, x) == req' = [req EXCEPT ![h] = x]
End(h) == Step(h, Idle)

-----------------------------------------------------------------------------
(* RequestWithdrawal *)

TooSmall(a) == a <= MinAmount

RequestWithdrawal(h, a) ==
    /\ req[h] = Idle
    /\ \/ TooSmall(a) /\ refused' = refused \cup {a} /\ UNCHANGED req
       \/ ~TooSmall(a) /\ Step(h, [pc |-> "insert", amount |-> a]) /\ UNCHANGED refused
    /\ UNCHANGED <<withdrawals, verdicts>>

AutoApproved(a) == a <= AutoApproveMax

\* The row, and for a small amount the approval in the same request.
InsertWithdrawal(h, w) ==
    /\ req[h].pc = "insert"
    /\ withdrawals[w] = NoWithdrawal
    /\ LET a == req[h].amount
       IN  \/ /\ withdrawals' = [withdrawals EXCEPT ![w] =
                                   [status |-> "PENDING", amount |-> a, version |-> 1]]
              /\ IF AutoApproved(a)
                 THEN Step(h, [pc |-> "read", w |-> w, verdict |-> "APPROVED"])
                 ELSE End(h)
           \/ "db" \in Faults /\ End(h) /\ UNCHANGED withdrawals
    /\ UNCHANGED <<verdicts, refused>>

-----------------------------------------------------------------------------
(* ApproveWithdrawal *)

\* An administrator's request; any withdrawal may be named.
ApproveWithdrawal(h, w, v) ==
    /\ req[h] = Idle
    /\ withdrawals[w] # NoWithdrawal
    /\ Step(h, [pc |-> "read", w |-> w, verdict |-> v])
    /\ UNCHANGED <<withdrawals, verdicts, refused>>

\* Mutant: no look at the status.
BugReadWithdrawal(h) ==
    /\ req[h].pc = "read"
    /\ Step(h, [pc |-> "update", w |-> req[h].w, verdict |-> req[h].verdict,
                version |-> withdrawals[req[h].w].version])
    /\ UNCHANGED <<withdrawals, verdicts, refused>>

\* SELECT: only a PENDING withdrawal can be decided.
ReadWithdrawal(h) ==
    /\ req[h].pc = "read"
    /\ LET x == req[h]
       IN  \/ /\ withdrawals[x.w].status = "PENDING"
              /\ Step(h, [pc |-> "update", w |-> x.w, verdict |-> x.verdict,
                          version |-> withdrawals[x.w].version])
           \/ withdrawals[x.w].status # "PENDING" /\ End(h)
           \/ "db" \in Faults /\ End(h)
    /\ UNCHANGED <<withdrawals, verdicts, refused>>

\* Mutant: UPDATE ... WHERE id = $1, without the version.
BugCurrent(x) == TRUE

Current(x) == withdrawals[x.w].version = x.version

\* UPDATE ... WHERE version = the one read; no row is a "concurrent update".
UpdateWithdrawal(h) ==
    /\ req[h].pc = "update"
    /\ LET x == req[h]
       IN  \/ /\ Current(x)
              /\ withdrawals' = [withdrawals EXCEPT ![x.w].status = x.verdict,
                                                    ![x.w].version = @ + 1]
              /\ Step(h, [pc |-> "publish", w |-> x.w, verdict |-> x.verdict])
           \/ /\ ~Current(x) \/ "db" \in Faults
              /\ End(h)
              /\ UNCHANGED withdrawals
    /\ UNCHANGED <<verdicts, refused>>

PublishVerdict(h) ==
    /\ req[h].pc = "publish"
    /\ \/ verdicts' = [verdicts EXCEPT ![req[h].w] = @ \cup {req[h].verdict}]
       \/ "net" \in Faults /\ UNCHANGED verdicts
    /\ End(h)
    /\ UNCHANGED <<withdrawals, refused>>

-----------------------------------------------------------------------------

Crash(h) ==
    /\ "crash" \in Faults
    /\ req[h] # Idle
    /\ End(h)
    /\ UNCHANGED <<withdrawals, verdicts, refused>>

Work(h) ==
    \/ \E w \in Withdrawals : InsertWithdrawal(h, w)
    \/ ReadWithdrawal(h) \/ UpdateWithdrawal(h) \/ PublishVerdict(h)

Next ==
    \E h \in Requests :
        \/ Work(h) \/ Crash(h)
        \/ \E a \in Amounts : RequestWithdrawal(h, a)
        \/ \E w \in Withdrawals, v \in Verdict : ApproveWithdrawal(h, w, v)

\* A goroutine that is not killed runs to its end.
Fairness == \A h \in Requests : WF_vars(Work(h))

Spec == Init /\ [][Next]_vars /\ Fairness

-----------------------------------------------------------------------------
(* Properties *)

\* A decision stands: administrators who race with one another, or with the
\* automatic approval, never turn an approved withdrawal into a rejected one.
DecidedOnce ==
    [][\A w \in Withdrawals :
         withdrawals[w].status \in Verdict
           => withdrawals'[w].status = withdrawals[w].status]_vars

\* Consumers never hear of a verdict other than the one in the database.
EventsTellStatus ==
    \A w \in Withdrawals : verdicts[w] \subseteq {withdrawals[w].status}

\* What withdrawals and their events look like at any time.
WithdrawalSafety ==
    /\ TypeOK
    /\ EventsTellStatus

-----------------------------------------------------------------------------
(* Promises of the documents and comments that the code does not keep: no run  *)
(* of the project checks them, README.md says how each one fails.              *)

\* A seller may withdraw the minimum amount.
MinimumIsAccepted == \A a \in refused : a < MinAmount
=============================================================================
