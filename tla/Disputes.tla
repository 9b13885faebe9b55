----------------------------- MODULE Disputes -----------------------------
(***************************************************************************)
(* dispute-service (app/main.py): a buyer opens a dispute about an order,   *)
(* the seller answers, the buyer escalates, an administrator resolves.      *)
(*                                                                          *)
(* Every handler tests the status it has loaded and saves the columns it     *)
(* changed, so two handlers at once leave a row that mixes both.            *)
(***************************************************************************)
EXTENDS DbSessions, Naturals

CONSTANTS
    Disputes,       \* dispute ids (uuid4)
    DisputeOrders,  \* orders, each with its buyer
    Refunds,        \* refund amounts an administrator may name
    Posters,        \* roles that write messages besides their decisions
    SellerKnown,    \* whether a dispute names its seller; create_dispute writes the nil UUID
                    \* ("TODO: from order"), with which every seller is refused
    Verdicts        \* resolutions an administrator may give

ASSUME DisputeAssumption ==
    /\ Posters \subseteq {"buyer", "seller", "admin"} /\ SellerKnown \in BOOLEAN
    /\ Verdicts \subseteq {"FULL_REFUND", "PARTIAL_REFUND", "REPLACE", "REJECT"}

VARIABLES
    dispute,        \* dispute.disputes
    said,           \* dispute.dispute_messages: who has written to a dispute
    disputeReq,     \* the state of each session
    disputeRaced    \* history: disputes saved though their row had changed, and orders for
                    \* which two disputes were being opened

disputeVars == <<dispute, said, disputeReq, disputeRaced>>

Role == {"buyer", "seller", "admin"}
Refunding == {"FULL_REFUND", "PARTIAL_REFUND", "REPLACE"}
Resolution == Refunding \cup {"REJECT"}
OpenStatus == {"OPEN", "SELLER_RESPONDED", "ESCALATED"}
ClosedStatus == {"RESOLVED", "REJECTED"}

\* "REQUESTED" is the requested_refund_amount of the buyer.
Amount == Refunds \cup {"REQUESTED", None}
Dispute == [order: DisputeOrders, status: OpenStatus \cup ClosedStatus,
            resolution: Resolution \cup {None}, approved: Amount,
            answered: BOOLEAN, escalated: BOOLEAN]

\* The value of a column or of a row that is not there is no other value.
ASSUME NoDisputeAssumption == None \notin Dispute \cup Resolution \cup Role

NewDispute(o) == [order |-> o, status |-> "OPEN", resolution |-> None, approved |-> None,
                  answered |-> FALSE, escalated |-> FALSE]

OpenReq == [pc: {"open"}, o: DisputeOrders]
SaveDisputeReq == [pc: {"save"}, d: Disputes, read: Dispute, obj: Dispute, by: Role \cup {None}]

DisputeTypeOK ==
    /\ dispute \in [Disputes -> Dispute \cup {None}]
    /\ said \in [Disputes -> SUBSET Role]
    /\ disputeReq \in [Sessions -> {Idle} \cup OpenReq \cup SaveDisputeReq]
    /\ disputeRaced \subseteq Disputes \cup DisputeOrders

DisputeInit ==
    /\ dispute = [d \in Disputes |-> None]
    /\ said = [d \in Disputes |-> {}]
    /\ disputeReq = [s \in Sessions |-> Idle]
    /\ disputeRaced = {}

OpenFor(o) == {d \in Disputes : /\ dispute[d] # None
                                /\ dispute[d].order = o /\ dispute[d].status \in OpenStatus}

-----------------------------------------------------------------------------

Opening(o) == {s \in Sessions : disputeReq[s].pc = "open" /\ disputeReq[s].o = o}

\* Mutant: a dispute the seller has answered does not count.
BugReadOpen(s, o) ==
    /\ disputeReq[s] = Idle
    /\ \A d \in OpenFor(o) : dispute[d].status # "OPEN"
    /\ disputeReq' = [disputeReq EXCEPT ![s] = [pc |-> "open", o |-> o]]
    /\ disputeRaced' = IF Opening(o) # {} THEN disputeRaced \cup {o} ELSE disputeRaced
    /\ UNCHANGED <<dispute, said>>

\* POST /disputes: 409 if the order has an open dispute, and an error if it has two.
ReadOpen(s, o) ==
    /\ disputeReq[s] = Idle
    /\ OpenFor(o) = {}
    /\ disputeReq' = [disputeReq EXCEPT ![s] = [pc |-> "open", o |-> o]]
    /\ disputeRaced' = IF Opening(o) # {} THEN disputeRaced \cup {o} ELSE disputeRaced
    /\ UNCHANGED <<dispute, said>>

InsertDispute(s, d) ==
    /\ disputeReq[s].pc = "open" /\ dispute[d] = None
    /\ dispute' = [dispute EXCEPT ![d] = NewDispute(disputeReq[s].o)]
    /\ disputeReq' = [disputeReq EXCEPT ![s] = Idle]
    /\ UNCHANGED <<said, disputeRaced>>

\* A handler has loaded dispute d and made obj of it; by is who writes a message.
Load(s, d, obj, by) ==
    /\ disputeReq[s] = Idle
    /\ disputeReq' = [disputeReq EXCEPT ![s] = [pc |-> "save", d |-> d, read |-> dispute[d],
                                                obj |-> obj, by |-> by]]
    /\ UNCHANGED <<dispute, said, disputeRaced>>

\* Mutant: sellers may answer at any time.
BugSellerResponse(s, d, accepts) ==
    /\ dispute[d] # None /\ SellerKnown
    /\ LET row == dispute[d]
       IN  Load(s, d, IF accepts
                      THEN [row EXCEPT !.answered = TRUE, !.status = "RESOLVED",
                                       !.resolution = "FULL_REFUND", !.approved = "REQUESTED"]
                      ELSE [row EXCEPT !.answered = TRUE, !.status = "SELLER_RESPONDED"],
                "seller")

\* POST /disputes/{id}/seller-response; ACCEPT_REFUND closes the dispute.
SellerResponse(s, d, accepts) ==
    /\ dispute[d] # None /\ SellerKnown /\ dispute[d].status = "OPEN"
    /\ LET row == dispute[d]
       IN  Load(s, d, IF accepts
                      THEN [row EXCEPT !.answered = TRUE, !.status = "RESOLVED",
                                       !.resolution = "FULL_REFUND", !.approved = "REQUESTED"]
                      ELSE [row EXCEPT !.answered = TRUE, !.status = "SELLER_RESPONDED"],
                "seller")

\* Mutant: a buyer escalates without waiting for the answer.
BugEscalate(s, d) ==
    /\ dispute[d] # None /\ dispute[d].status \in {"OPEN", "SELLER_RESPONDED"}
    /\ Load(s, d, [dispute[d] EXCEPT !.escalated = TRUE, !.status = "ESCALATED"], "buyer")

\* POST /disputes/{id}/escalate
Escalate(s, d) ==
    /\ dispute[d] # None /\ dispute[d].status = "SELLER_RESPONDED"
    /\ Load(s, d, [dispute[d] EXCEPT !.escalated = TRUE, !.status = "ESCALATED"], "buyer")

\* POST /disputes/{id}/messages: one row, and nothing of the dispute.
AddMessage(d, role) ==
    /\ dispute[d] # None /\ (role = "seller" => SellerKnown)
    /\ said' = [said EXCEPT ![d] = @ \cup {role}]
    /\ UNCHANGED <<dispute, disputeReq, disputeRaced>>

\* Mutant: a rejection is saved as a resolution.
BugAdminResolve(s, d, resolution, amount) ==
    /\ dispute[d] # None
    /\ Load(s, d, [dispute[d] EXCEPT !.status = "RESOLVED", !.resolution = resolution,
                                     !.approved = amount], None)

\* POST /admin/disputes/{id}/resolve, whatever the status.
AdminResolve(s, d, resolution, amount) ==
    /\ dispute[d] # None
    /\ Load(s, d, [dispute[d] EXCEPT
                     !.status = IF resolution # "REJECT" THEN "RESOLVED" ELSE "REJECTED",
                     !.resolution = resolution, !.approved = amount], None)

SaveDispute(s) ==
    LET q == disputeReq[s]
    IN  /\ q.pc = "save"
        /\ dispute' = [dispute EXCEPT ![q.d] = Flush(@, q.read, q.obj)]
        /\ said' = [said EXCEPT ![q.d] = @ \cup ({q.by} \ {None})]
        /\ disputeRaced' = IF Changed(dispute[q.d], q.read) THEN disputeRaced \cup {q.d}
                                                            ELSE disputeRaced
        /\ disputeReq' = [disputeReq EXCEPT ![s] = Idle]

DisputeNext ==
    \/ \E s \in Sessions :
         \/ \E o \in DisputeOrders : ReadOpen(s, o)
         \/ \E d \in Disputes :
              \/ InsertDispute(s, d) \/ Escalate(s, d)
              \/ \E accepts \in BOOLEAN : SellerResponse(s, d, accepts)
              \/ \E r \in Verdicts, a \in Refunds \cup {None} : AdminResolve(s, d, r, a)
         \/ SaveDispute(s)
    \/ \E d \in Disputes, role \in Posters : AddMessage(d, role)

DisputeSpec == DisputeInit /\ [][DisputeNext]_disputeVars

-----------------------------------------------------------------------------
(* Properties *)

\* Whatever handlers overlap, an administrator finds the seller's side of every
\* dispute that was escalated: an answer and the messages of both.
EscalatedWasAnswered ==
    \A d \in Disputes : dispute[d] # None =>
        /\ dispute[d].status \in {"SELLER_RESPONDED", "ESCALATED"} => dispute[d].answered
        /\ dispute[d].answered => "seller" \in said[d]
        /\ dispute[d].escalated => dispute[d].answered /\ "buyer" \in said[d]

\* The status, the resolution and the amount of a dispute that no two handlers
\* saved at once tell the same verdict.
VerdictMatches ==
    \A d \in Disputes \ disputeRaced : dispute[d] # None =>
        /\ dispute[d].status = "RESOLVED" <=> dispute[d].resolution \in Refunding
        /\ dispute[d].status = "REJECTED" <=> dispute[d].resolution = "REJECT"
        /\ dispute[d].approved # None => dispute[d].status \in ClosedStatus

\* Such a dispute, once closed, is not opened again.
ClosedStaysClosed ==
    [][\A d \in Disputes \ disputeRaced' :
         dispute[d] # None /\ dispute[d].status \in ClosedStatus
           => dispute'[d].status \in ClosedStatus]_disputeVars

\* An order has one open dispute, unless two were opened at once or a stale save
\* opened an old one again.
OneOpenPerOrder ==
    \A o \in DisputeOrders \ disputeRaced : \A d, e \in OpenFor(o) :
        d = e \/ {d, e} \cap disputeRaced # {}

\* The life cycle of a dispute, as far as handlers that overlap keep to it.
DisputeSafety ==
    /\ [](DisputeTypeOK /\ EscalatedWasAnswered /\ VerdictMatches /\ OneOpenPerOrder)
    /\ ClosedStaysClosed

-----------------------------------------------------------------------------
(* Promises that the code does not keep: see README.md.                        *)

\* A buyer has one open dispute about an order.
OneOpenPerOrderAlways == \A o \in DisputeOrders : \A d, e \in OpenFor(o) : d = e

\* Only an escalated dispute is resolved by an administrator.
ResolvedWasEscalated ==
    \A d \in Disputes : dispute[d] # None /\ dispute[d].status = "REJECTED"
        => dispute[d].escalated
=============================================================================
