------------------------------ MODULE Loyalty ------------------------------
(***************************************************************************)
(* loyalty-service (app/main.py): points, tiers, cashback and rewards.      *)
(*                                                                          *)
(* earn and redeem load the row of the member, compute in Python and save    *)
(* the columns they changed, together with a row of point_transactions.      *)
(* Amounts are in points: 100 rupiah earn one.                              *)
(***************************************************************************)
EXTENDS DbSessions, Integers

CONSTANTS
    Members,        \* user ids
    Rewards,        \* reward ids
    Earnings,       \* points of an order
    Costs,          \* points a reward costs
    Stocks,         \* units of a reward at first (None: unlimited)
    GoldMin, PlatinumMin, DiamondMin,   \* TIER_*_MIN
    MaxLifetime     \* bound: orders of a member are rewarded up to this many points

ASSUME LoyaltyAssumption ==
    /\ Earnings \subseteq Nat /\ Costs \subseteq Nat /\ Stocks \subseteq Nat \cup {None}
    /\ {GoldMin, PlatinumMin, DiamondMin} \subseteq Nat \ {0} /\ MaxLifetime \in Nat
    /\ None \notin Nat

VARIABLES
    member,         \* loyalty.members
    booked,         \* loyalty.point_transactions: the sums of a member's EARN and REDEEM rows
    reward,         \* loyalty.rewards
    vouchers,       \* loyalty.reward_redemptions: how many of each reward
    loyaltyReq,     \* the state of each session
    loyaltyRaced    \* history: members and rewards saved though their row had changed

loyaltyVars == <<member, booked, reward, vouchers, loyaltyReq, loyaltyRaced>>

Tier == 1..4    \* tier_rank: SILVER, GOLD, PLATINUM, DIAMOND
Member == [tier: Tier, points: Int, lifetime: Nat, cashback: Nat]
ASSUME NoRowAssumption == None \notin Member

NewMember == [tier |-> 1, points |-> 0, lifetime |-> 0, cashback |-> 0]
Reward == [cost: Costs, minTier: Tier, stock: Int \cup {None}, active: BOOLEAN]

EarnReq == [pc: {"earn"}, m: Members, read: Member \cup {None}, points: Earnings]
MemberReq == [pc: {"member"}, m: Members, r: Rewards, reward: Reward]
RedeemReq == [pc: {"redeem"}, m: Members, r: Rewards, reward: Reward, read: Member]

LoyaltyTypeOK ==
    /\ member \in [Members -> Member \cup {None}]
    /\ booked \in [Members -> [earned: Nat, spent: Nat]]
    /\ reward \in [Rewards -> Reward]
    /\ vouchers \in [Rewards -> Nat]
    /\ loyaltyReq \in [Sessions -> {Idle} \cup EarnReq \cup MemberReq \cup RedeemReq]
    /\ loyaltyRaced \subseteq Members \cup Rewards

LoyaltyInit ==
    /\ member = [m \in Members |-> None]
    /\ booked = [m \in Members |-> [earned |-> 0, spent |-> 0]]
    /\ reward \in [Rewards -> [cost: Costs, minTier: {1, 2}, stock: Stocks, active: {TRUE}]]
    /\ vouchers = [r \in Rewards |-> 0]
    /\ loyaltyReq = [s \in Sessions |-> Idle]
    /\ loyaltyRaced = {}

\* get_tier_for_points
TierFor(points) ==
    IF points >= DiamondMin THEN 4
    ELSE IF points >= PlatinumMin THEN 3
    ELSE IF points >= GoldMin THEN 2
    ELSE 1

\* CASHBACK_PERCENT
CashbackPercent == <<1, 2, 3, 5>>

-----------------------------------------------------------------------------

\* GET /loyalty/me creates the membership.
Join(m) ==
    /\ member[m] = None
    /\ member' = [member EXCEPT ![m] = NewMember]
    /\ UNCHANGED <<booked, reward, vouchers, loyaltyReq, loyaltyRaced>>

\* POST /loyalty/earn, the SELECT. The bound is on what members are given.
ReadForEarn(s, m, points) ==
    /\ loyaltyReq[s] = Idle
    /\ booked[m].earned + points <= MaxLifetime
    /\ loyaltyReq' = [loyaltyReq EXCEPT ![s] = [pc |-> "earn", m |-> m, read |-> member[m],
                                                points |-> points]]
    /\ UNCHANGED <<member, booked, reward, vouchers, loyaltyRaced>>

\* Mutant: the cashback goes to the points.
BugCreditedTwice(row, points) ==
    [row EXCEPT !.points = @ + points + points * CashbackPercent[row.tier],
                !.lifetime = @ + points,
                !.tier = IF TierFor(row.lifetime + points) > @
                         THEN TierFor(row.lifetime + points) ELSE @]

\* The member with the points of an order: cashback at the tier before it, and a
\* tier that is only ever raised.
Earned(row, points) ==
    [row EXCEPT !.points = @ + points,
                !.lifetime = @ + points,
                !.cashback = @ + points * CashbackPercent[row.tier],
                !.tier = IF TierFor(row.lifetime + points) > @
                         THEN TierFor(row.lifetime + points) ELSE @]

\* A member who was not there is inserted, and the INSERT of a second session fails.
CommitEarn(s) ==
    LET q == loyaltyReq[s]
        before == IF q.read = None THEN NewMember ELSE q.read
    IN  /\ q.pc = "earn"
        /\ \/ /\ q.read = None => member[q.m] = None
              /\ member' = [member EXCEPT ![q.m] =
                   IF q.read = None THEN Earned(before, q.points)
                                    ELSE Flush(@, before, Earned(before, q.points))]
              /\ booked' = [booked EXCEPT ![q.m].earned = @ + q.points]
              /\ loyaltyRaced' = IF Changed(member[q.m], q.read) THEN loyaltyRaced \cup {q.m}
                                                                 ELSE loyaltyRaced
           \/ /\ q.read = None /\ member[q.m] # None
              /\ UNCHANGED <<member, booked, loyaltyRaced>>
        /\ loyaltyReq' = [loyaltyReq EXCEPT ![s] = Idle]
        /\ UNCHANGED <<reward, vouchers>>

-----------------------------------------------------------------------------
(* POST /loyalty/redeem *)

\* The first SELECT, of the reward.
ReadReward(s, m, r) ==
    /\ loyaltyReq[s] = Idle
    /\ reward[r].active
    /\ loyaltyReq' = [loyaltyReq EXCEPT ![s] = [pc |-> "member", m |-> m, r |-> r,
                                                reward |-> reward[r]]]
    /\ UNCHANGED <<member, booked, reward, vouchers, loyaltyRaced>>

\* Mutant: a balance below the cost is not noticed.
BugRedeemable(row, rew) == row # None /\ ~(rew.stock # None /\ rew.stock <= 0)

Redeemable(row, rew) ==
    /\ row # None /\ row.points >= rew.cost
    /\ row.tier >= rew.minTier
    /\ ~(rew.stock # None /\ rew.stock <= 0)

\* The second SELECT, of the member, and the checks of both rows.
ReadMember(s) ==
    LET q == loyaltyReq[s]
    IN  /\ q.pc = "member"
        /\ loyaltyReq' = [loyaltyReq EXCEPT ![s] =
             IF Redeemable(member[q.m], q.reward)
             THEN [pc |-> "redeem", m |-> q.m, r |-> q.r, reward |-> q.reward,
                   read |-> member[q.m]]
             ELSE Idle]
        /\ UNCHANGED <<member, booked, reward, vouchers, loyaltyRaced>>

\* Mutant: the row of the transaction is lost.
BugBookSpent(b, cost) == b

BookSpent(b, cost) == [b EXCEPT !.spent = @ + cost]

TakeUnit(rew) == IF rew.stock = None THEN rew ELSE [rew EXCEPT !.stock = @ - 1]

CommitRedeem(s) ==
    LET q == loyaltyReq[s]
    IN  /\ q.pc = "redeem"
        /\ member' = [member EXCEPT ![q.m] =
                        Flush(@, q.read, [q.read EXCEPT !.points = @ - q.reward.cost])]
        /\ booked' = [booked EXCEPT ![q.m] = BookSpent(@, q.reward.cost)]
        /\ reward' = [reward EXCEPT ![q.r] = Flush(@, q.reward, TakeUnit(q.reward))]
        /\ vouchers' = [vouchers EXCEPT ![q.r] = @ + 1]
        /\ loyaltyRaced' = loyaltyRaced
             \cup (IF Changed(member[q.m], q.read) THEN {q.m} ELSE {})
             \cup (IF Changed(reward[q.r], q.reward) THEN {q.r} ELSE {})
        /\ loyaltyReq' = [loyaltyReq EXCEPT ![s] = Idle]

LoyaltyNext ==
    \/ \E m \in Members : Join(m)
    \/ \E s \in Sessions :
         \/ \E m \in Members, points \in Earnings : ReadForEarn(s, m, points)
         \/ \E m \in Members, r \in Rewards : ReadReward(s, m, r)
         \/ CommitEarn(s) \/ ReadMember(s) \/ CommitRedeem(s)

LoyaltySpec == LoyaltyInit /\ [][LoyaltyNext]_loyaltyVars

-----------------------------------------------------------------------------
(* Properties *)

\* No race between orders and redemptions makes points: balance and lifetime
\* points stay within what the EARN rows give, and the tier within theirs.
PointsWereEarned ==
    \A m \in Members : member[m] # None =>
        /\ member[m].points <= booked[m].earned
        /\ member[m].lifetime <= booked[m].earned
        /\ member[m].tier <= TierFor(booked[m].earned)

\* Nobody spends what is not there, even while another request spends it too: the
\* balance and the stock are saved as computed from values that were tested.
NothingOverdrawn ==
    /\ \A m \in Members : member[m] # None => member[m].points >= 0
    /\ \A r \in Rewards : reward[r].stock # None => reward[r].stock >= 0

\* The books of a member whose requests did not overwrite one another balance, and
\* the tier is the one the lifetime points deserve.
BooksBalance ==
    \A m \in Members \ loyaltyRaced : member[m] # None =>
        /\ member[m].points = booked[m].earned - booked[m].spent
        /\ member[m].lifetime = booked[m].earned
        /\ member[m].tier = TierFor(member[m].lifetime)

\* What earn_points and redeem_reward together guarantee a member and the shop.
LoyaltySafety ==
    /\ LoyaltyTypeOK
    /\ PointsWereEarned
    /\ NothingOverdrawn
    /\ BooksBalance

-----------------------------------------------------------------------------
(* Promises that the code does not keep: see README.md.                        *)

\* Every point a member earned or spent shows in the balance.
BooksAlwaysBalance ==
    \A m \in Members : member[m] # None =>
        member[m].points = booked[m].earned - booked[m].spent

\* A tier that was reached is not lost.
TierNeverFalls ==
    [][\A m \in Members : member[m] # None => member'[m].tier >= member[m].tier]_loyaltyVars
=============================================================================
