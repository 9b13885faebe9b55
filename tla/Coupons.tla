------------------------------ MODULE Coupons ------------------------------
(***************************************************************************)
(* coupon-service (app/main.py).                                            *)
(*                                                                          *)
(* A client asks whether a coupon applies to its cart (validate) and later   *)
(* records the use of it for an order (apply). validate tests the limits,    *)
(* apply does not: it adds one to the counter it has read.                   *)
(***************************************************************************)
EXTENDS DbSessions, Integers, FiniteSets

CONSTANTS
    Coupons,        \* coupon codes
    Shoppers,       \* users
    CouponOrders,   \* orders a coupon may be used for
    UsageLimits,    \* values of max_usage_global and max_usage_per_user
    Values,         \* discount_value: percent or amount
    Caps,           \* max_discount; 0 is the missing one, which the code cannot tell from 0
    CartTotals,     \* totals of the part of the cart to which the coupon applies
    MinPurchase,    \* min_purchase
    StartAt, EndAt, LastHour    \* the window of validity, and the bound of the clock

ASSUME CouponAssumption ==
    /\ UsageLimits \subseteq Nat \ {0}
    /\ Values \subseteq Nat /\ Caps \subseteq Nat /\ CartTotals \subseteq Nat \ {0}
    /\ MinPurchase \in Nat
    /\ StartAt \in Nat /\ EndAt \in Nat /\ LastHour \in Nat /\ StartAt < EndAt

VARIABLES
    coupon,         \* coupon.coupons
    redemption,     \* coupon.coupon_redemptions, whose order_id is UNIQUE
    couponReq,      \* the state of each session
    hour,           \* the clock
    couponRaced     \* history: coupons used though the row had changed since validate read it

couponVars == <<coupon, redemption, couponReq, hour, couponRaced>>

Rule == [type: {"PERCENTAGE", "FIXED"}, value: Values, cap: Caps]
          \cup [type: {"FREE_SHIPPING"}, value: {0}, cap: {0}]
Coupon == [rule: Rule, users: SUBSET Shoppers, global: UsageLimits, perUser: UsageLimits,
           count: Nat, active: BOOLEAN]

\* The row that is not there is no row.
ASSUME NoCouponAssumption == None \notin Coupon \cup [c: Coupons, u: Shoppers]

CountReq == [pc: {"count"}, c: Coupons, u: Shoppers, seen: Coupon, total: CartTotals]
QuoteReq == [pc: {"quoted"}, c: Coupons, u: Shoppers, seen: Coupon, total: CartTotals,
             discount: Nat]
ApplyReq == [pc: {"apply"}, c: Coupons, u: Shoppers, seen: Coupon, read: Coupon,
             o: CouponOrders]

CouponTypeOK ==
    /\ coupon \in [Coupons -> Coupon \cup {None}]
    /\ redemption \in [CouponOrders -> [c: Coupons, u: Shoppers] \cup {None}]
    /\ couponReq \in [Sessions -> {Idle} \cup CountReq \cup QuoteReq \cup ApplyReq]
    /\ hour \in 0..LastHour
    /\ couponRaced \subseteq Coupons

CouponInit ==
    /\ coupon = [c \in Coupons |-> None]
    /\ redemption = [o \in CouponOrders |-> None]
    /\ couponReq = [s \in Sessions |-> Idle]
    /\ hour = 0
    /\ couponRaced = {}

Uses(c) == {o \in CouponOrders : redemption[o] # None /\ redemption[o].c = c}
UsesBy(c, u) == {o \in Uses(c) : redemption[o].u = u}

-----------------------------------------------------------------------------
(* Administration *)

\* users is the set of named users; the whole set when the coupon is for everyone.
CreateCoupon(c, rule, users, global, perUser) ==
    /\ coupon[c] = None
    /\ coupon' = [coupon EXCEPT ![c] = [rule |-> rule, users |-> users, global |-> global,
                                        perUser |-> perUser, count |-> 0, active |-> TRUE]]
    /\ UNCHANGED <<redemption, couponReq, hour, couponRaced>>

DeactivateCoupon(c) ==
    /\ coupon[c] # None
    /\ coupon' = [coupon EXCEPT ![c].active = FALSE]
    /\ UNCHANGED <<redemption, couponReq, hour, couponRaced>>

-----------------------------------------------------------------------------
(* POST /coupons/validate *)

\* The tests made on the row of the coupon alone.
Usable(row, u) ==
    /\ row.active
    /\ ~(hour < StartAt) /\ ~(hour > EndAt)
    /\ ~(row.count >= row.global)
    /\ u \in row.users

ValidateCoupon(s, c, u, total) ==
    /\ couponReq[s] = Idle
    /\ coupon[c] # None /\ Usable(coupon[c], u)
    /\ couponReq' = [couponReq EXCEPT ![s] = [pc |-> "count", c |-> c, u |-> u,
                                              seen |-> coupon[c], total |-> total]]
    /\ UNCHANGED <<coupon, redemption, hour, couponRaced>>

Least(a, b) == IF a < b THEN a ELSE b

\* Mutant: a fixed amount is not limited by what it is taken from.
BugDiscount(rule, total) ==
    IF rule.type = "FIXED" THEN rule.value ELSE 0

Discount(rule, total) ==
    CASE rule.type = "PERCENTAGE" ->
           LET part == (total * rule.value) \div 100
           IN  IF rule.cap # 0 THEN Least(part, rule.cap) ELSE part
      [] rule.type = "FIXED" -> Least(rule.value, total)
      [] rule.type = "FREE_SHIPPING" -> 0

\* Mutant: one use too many.
BugCountRedemptions(s) ==
    LET r == couponReq[s]
    IN  /\ r.pc = "count"
        /\ IF /\ Cardinality(UsesBy(r.c, r.u)) <= r.seen.perUser
              /\ r.total >= MinPurchase
           THEN couponReq' = [couponReq EXCEPT ![s] =
                  [pc |-> "quoted", c |-> r.c, u |-> r.u, seen |-> r.seen, total |-> r.total,
                   discount |-> Discount(r.seen.rule, r.total)]]
           ELSE couponReq' = [couponReq EXCEPT ![s] = Idle]
        /\ UNCHANGED <<coupon, redemption, hour, couponRaced>>

\* The second SELECT, of the user's redemptions, and the answer.
CountRedemptions(s) ==
    LET r == couponReq[s]
    IN  /\ r.pc = "count"
        /\ IF /\ Cardinality(UsesBy(r.c, r.u)) < r.seen.perUser
              /\ r.total >= MinPurchase
           THEN couponReq' = [couponReq EXCEPT ![s] =
                  [pc |-> "quoted", c |-> r.c, u |-> r.u, seen |-> r.seen, total |-> r.total,
                   discount |-> Discount(r.seen.rule, r.total)]]
           ELSE couponReq' = [couponReq EXCEPT ![s] = Idle]
        /\ UNCHANGED <<coupon, redemption, hour, couponRaced>>

-----------------------------------------------------------------------------
(* POST /coupons/apply, sent by clients that got a quote *)

\* No redemption of the order yet, and the coupon as it is now; otherwise 409.
ReadForApply(s, o) ==
    LET r == couponReq[s]
    IN  /\ r.pc = "quoted"
        /\ IF redemption[o] = None
           THEN couponReq' = [couponReq EXCEPT ![s] =
                  [pc |-> "apply", c |-> r.c, u |-> r.u, seen |-> r.seen,
                   read |-> coupon[r.c], o |-> o]]
           ELSE couponReq' = [couponReq EXCEPT ![s] = Idle]
        /\ UNCHANGED <<coupon, redemption, hour, couponRaced>>

\* Mutant: the counter is raised in a transaction of its own.
BugCommitApply(s) ==
    LET r == couponReq[s]
    IN  /\ r.pc = "apply"
        /\ coupon' = [coupon EXCEPT ![r.c].count = @ + 1]
        /\ redemption' = [redemption EXCEPT ![r.o] = IF @ = None THEN [c |-> r.c, u |-> r.u] ELSE @]
        /\ couponRaced' = IF Changed(coupon[r.c], r.seen) THEN couponRaced \cup {r.c}
                                                          ELSE couponRaced
        /\ couponReq' = [couponReq EXCEPT ![s] = Idle]
        /\ UNCHANGED hour

\* Counter and redemption in one transaction; UNIQUE(order_id) refuses both.
CommitApply(s) ==
    LET r == couponReq[s]
    IN  /\ r.pc = "apply"
        /\ \/ /\ redemption[r.o] = None
              /\ coupon' = [coupon EXCEPT ![r.c] =
                              Flush(@, r.read, [r.read EXCEPT !.count = @ + 1])]
              /\ redemption' = [redemption EXCEPT ![r.o] = [c |-> r.c, u |-> r.u]]
              /\ couponRaced' = IF Changed(coupon[r.c], r.seen) THEN couponRaced \cup {r.c}
                                                                ELSE couponRaced
           \/ redemption[r.o] # None /\ UNCHANGED <<coupon, redemption, couponRaced>>
        /\ couponReq' = [couponReq EXCEPT ![s] = Idle]
        /\ UNCHANGED hour

\* The client does not order after all.
DropQuote(s) ==
    /\ couponReq[s].pc = "quoted"
    /\ couponReq' = [couponReq EXCEPT ![s] = Idle]
    /\ UNCHANGED <<coupon, redemption, hour, couponRaced>>

HourPasses ==
    /\ hour < LastHour
    /\ hour' = hour + 1
    /\ UNCHANGED <<coupon, redemption, couponReq, couponRaced>>

CouponNext ==
    \/ HourPasses
    \/ \E c \in Coupons :
         \/ DeactivateCoupon(c)
         \/ \E rule \in Rule, users \in (SUBSET Shoppers) \ {{}}, g, p \in UsageLimits :
              CreateCoupon(c, rule, users, g, p)
    \/ \E s \in Sessions :
         \/ \E c \in Coupons, u \in Shoppers, total \in CartTotals : ValidateCoupon(s, c, u, total)
         \/ CountRedemptions(s) \/ CommitApply(s) \/ DropQuote(s)
         \/ \E o \in CouponOrders : ReadForApply(s, o)

CouponSpec == CouponInit /\ [][CouponNext]_couponVars

-----------------------------------------------------------------------------
(* Properties *)

\* However uses of a coupon race, the counter that limits them never runs ahead
\* of the redemptions on record: nobody is refused for a use that does not exist.
CountNeverAhead ==
    \A c \in Coupons : coupon[c] # None => coupon[c].count <= Cardinality(Uses(c))

\* A coupon that nobody used or changed between a client's validate and its apply
\* has an exact counter, and both of its limits are kept.
LimitsKept ==
    \A c \in Coupons \ couponRaced : coupon[c] # None =>
        /\ coupon[c].count = Cardinality(Uses(c))
        /\ coupon[c].count <= coupon[c].global
        /\ \A u \in Shoppers : Cardinality(UsesBy(c, u)) <= coupon[c].perUser

\* A quote takes no more from the cart than the cart holds, nor than the cap, as
\* long as percentages stay below one hundred.
QuoteFitsCart ==
    \A s \in Sessions : couponReq[s].pc = "quoted" =>
        LET r == couponReq[s]
            rule == r.seen.rule
        IN  /\ ~(rule.type = "PERCENTAGE" /\ rule.value > 100) => r.discount <= r.total
            /\ rule.type = "PERCENTAGE" /\ rule.cap # 0 => r.discount <= rule.cap

\* Mutant: the list shows coupons of the hour after their end.
BugListed(u, c) ==
    /\ coupon[c].active /\ StartAt <= hour /\ EndAt + 1 >= hour
    /\ u \in coupon[c].users
    /\ Cardinality(UsesBy(c, u)) < coupon[c].perUser
    /\ coupon[c].count < coupon[c].global

\* GET /users/{id}/coupons has tests of its own for what it shows to a user.
Listed(u, c) ==
    /\ coupon[c].active /\ StartAt <= hour /\ EndAt >= hour
    /\ u \in coupon[c].users
    /\ Cardinality(UsesBy(c, u)) < coupon[c].perUser
    /\ coupon[c].count < coupon[c].global

\* What the list shows is what validate accepts, at the edges of the window too.
ListedIsUsable ==
    \A c \in Coupons, u \in Shoppers : coupon[c] # None =>
        (Listed(u, c) <=> /\ Usable(coupon[c], u)
                          /\ Cardinality(UsesBy(c, u)) < coupon[c].perUser)

\* What races leave of the coupons: counters never ahead, limits and quotes kept, and
\* one answer from the two places that decide who may use a coupon.
CouponSafety ==
    /\ CouponTypeOK
    /\ CountNeverAhead
    /\ LimitsKept
    /\ QuoteFitsCart
    /\ ListedIsUsable

-----------------------------------------------------------------------------
(* Promises that the code does not keep: see README.md.                        *)

\* The limits of a coupon hold, whoever else uses it at the time.
LimitsAlwaysKept ==
    \A c \in Coupons : coupon[c] # None => Cardinality(Uses(c)) <= coupon[c].global
=============================================================================
