--------------------------- MODULE MCShopServices ---------------------------
(***************************************************************************)
(* The small services side by side. They share nothing, so a behaviour is    *)
(* about one of them, which service names: the state space is the sum of      *)
(* theirs.                                                                  *)
(***************************************************************************)
EXTENDS Addresses, AuditTrail, Coupons, Disputes, Fraud, Loyalty, Reviews, SearchCache,
        Sellers, Wishlists, TLC

VARIABLE service

vars == <<service, addressVars, auditVars, couponVars, disputeVars, fraudVars, loyaltyVars,
          reviewVars, searchVars, sellerVars, wishVars>>

Services == {"address", "audit", "coupon", "dispute", "fraud", "loyalty", "review", "search",
             "seller", "wishlist"}

Init ==
    /\ service \in Services
    /\ AddressInit /\ AuditInit /\ CouponInit /\ DisputeInit /\ FraudInit /\ LoyaltyInit
    /\ ReviewInit /\ SearchInit /\ SellerInit /\ WishlistInit
    \* One initial state for services that are not the one.
    /\ service # "audit" =>
         topic = "audit" /\ owner = [p \in Partitions |-> CHOOSE c \in Consumers : TRUE]
    /\ service # "loyalty" => \A r \in Rewards : reward[r].minTier = 1

Next ==
    /\ UNCHANGED service
    /\ IF service = "address" THEN AddressNext ELSE UNCHANGED addressVars
    /\ IF service = "audit" THEN AuditNext ELSE UNCHANGED auditVars
    /\ IF service = "coupon" THEN CouponNext ELSE UNCHANGED couponVars
    /\ IF service = "dispute" THEN DisputeNext ELSE UNCHANGED disputeVars
    /\ IF service = "fraud" THEN FraudNext ELSE UNCHANGED fraudVars
    /\ IF service = "loyalty" THEN LoyaltyNext ELSE UNCHANGED loyaltyVars
    /\ IF service = "review" THEN ReviewNext ELSE UNCHANGED reviewVars
    /\ IF service = "search" THEN SearchNext ELSE UNCHANGED searchVars
    /\ IF service = "seller" THEN SellerNext ELSE UNCHANGED sellerVars
    /\ IF service = "wishlist" THEN WishlistNext ELSE UNCHANGED wishVars

Spec == Init /\ [][Next]_vars

Symmetric == Permutations(Sessions) \cup Permutations(Disputes)
=============================================================================
