------------------------- MODULE ShopServicesProofs -------------------------
(***************************************************************************)
(* Theorems about the columns that a late save keeps, the cache of searches,  *)
(* the points of loyalty-service, the disputes, the audit trail, the coupons  *)
(* and the addresses, for any number of rows and sessions.                   *)
(***************************************************************************)
EXTENDS SearchCache, Sellers, Loyalty, Disputes, AuditTrail, Coupons, Addresses,
        FiniteSetTheorems, WellFoundedInduction, TLAPS

-----------------------------------------------------------------------------
(* Sellers: a suspension lasts *)

\* Every profile is suspended or active, and so are the two copies that a session holds
\* of it; profiles are suspended for good, so a copy is never ahead of the row.
Consistent(row) == row.suspended <=> ~row.active

SellerSaves(q, rows) ==
    q.pc = "save" =>
        /\ Consistent(q.obj)
        /\ q.read # None =>
             /\ rows[q.u] # None /\ Consistent(q.read)
             /\ q.read.suspended => rows[q.u].suspended /\ q.obj.suspended

SellerInv ==
    /\ SellerTypeOK
    /\ \A u \in Sellers : seller[u] # None => Consistent(seller[u])
    /\ \A s \in Sessions : SellerSaves(sellerReq[s], seller)

SuspensionStep ==
    \A u \in Sellers : seller[u] # None /\ seller[u].suspended
        => seller'[u].suspended /\ ~seller'[u].active

LEMMA SellerFlush ==
    ASSUME NEW row \in Seller, NEW read \in Seller, NEW obj \in Seller
    PROVE  /\ Flush(row, read, obj) \in Seller
           /\ Flush(row, read, obj).suspended =
                IF obj.suspended # read.suspended THEN obj.suspended ELSE row.suspended
           /\ Flush(row, read, obj).active =
                IF obj.active # read.active THEN obj.active ELSE row.active
<1>. DEFINE new == Flush(row, read, obj)
<1>1. DOMAIN row = {"content", "verified", "score", "badge", "active", "suspended"}
  BY DEF Seller
<1>2. new = [content |-> IF obj.content # read.content THEN obj.content ELSE row.content,
             verified |-> IF obj.verified # read.verified THEN obj.verified ELSE row.verified,
             score |-> IF obj.score # read.score THEN obj.score ELSE row.score,
             badge |-> IF obj.badge # read.badge THEN obj.badge ELSE row.badge,
             active |-> IF obj.active # read.active THEN obj.active ELSE row.active,
             suspended |-> IF obj.suspended # read.suspended THEN obj.suspended
                           ELSE row.suspended]
  BY <1>1 DEF Flush
<1>. QED BY <1>2 DEF Seller

LEMMA SellerInitLemma == SellerInit => SellerInv
  BY DEF SellerInit, SellerInv, SellerTypeOK, SellerSaves, Idle

\* Loading keeps the invariant when the handler's copy is consistent and lifts no suspension.
LEMMA LoadSellerStep ==
    ASSUME SellerInv, NEW s \in Sessions, NEW u \in Sellers, NEW obj \in Seller,
           LoadSeller(s, u, obj), Consistent(obj),
           seller[u] # None => (seller[u].suspended => obj.suspended)
    PROVE  SellerInv' /\ SuspensionStep
<1>. DEFINE q == [pc |-> "save", u |-> u, read |-> seller[u], obj |-> obj]
<1>1. /\ sellerReq' = [sellerReq EXCEPT ![s] = q] /\ UNCHANGED <<seller, sellerRaced>>
      /\ seller[u] \in Seller \cup {None}
  BY DEF LoadSeller, SellerInv, SellerTypeOK
<1>2. SellerTypeOK'
  BY <1>1 DEF SellerInv, SellerTypeOK
<1>3. SellerSaves(q, seller)
  BY DEF SellerSaves, SellerInv
<1>4. \A r \in Sessions : SellerSaves(sellerReq[r], seller)'
  <2>. HIDE DEF q
  <2>. QED BY <1>1, <1>3 DEF SellerSaves, SellerInv, SellerTypeOK
<1>5. SuspensionStep
  BY <1>1 DEF SuspensionStep, SellerInv, Consistent
<1>. QED BY <1>1, <1>2, <1>4, <1>5 DEF SellerInv

LEMMA EditProfileStep ==
    ASSUME SellerInv, NEW s \in Sessions, NEW u \in Sellers, NEW content \in Contents,
           EditProfile(s, u, content)
    PROVE  SellerInv' /\ SuspensionStep
<1>1. CASE seller[u] = None
  <2>1. NewSeller(content) \in Seller /\ Consistent(NewSeller(content))
    BY DEF NewSeller, Seller, Badge, Consistent
  <2>. QED BY <1>1, <2>1, LoadSellerStep DEF EditProfile
<1>2. CASE seller[u] # None
  <2>. DEFINE obj == [seller[u] EXCEPT !.content = content]
  <2>1. seller[u] \in Seller /\ Consistent(seller[u])
    BY <1>2 DEF SellerInv, SellerTypeOK
  <2>2. obj \in Seller /\ obj.suspended = seller[u].suspended /\ obj.active = seller[u].active
    BY <2>1 DEF Seller
  <2>3. Consistent(obj)
    BY <2>1, <2>2 DEF Consistent
  <2>. QED BY <1>2, <2>2, <2>3, LoadSellerStep DEF EditProfile
<1>. QED BY <1>1, <1>2

LEMMA VerifySellerStep ==
    ASSUME SellerInv, NEW s \in Sessions, NEW u \in Sellers, VerifySeller(s, u)
    PROVE  SellerInv' /\ SuspensionStep
<1>. DEFINE raised == seller[u].score + 20
            score == IF raised < 100 THEN raised ELSE 100
            badge == BadgeFor(score)
            obj == [seller[u] EXCEPT !.verified = TRUE, !.score = score, !.badge = badge]
<1>1. seller[u] # None /\ LoadSeller(s, u, obj)
  BY DEF VerifySeller
<1>2. seller[u] \in Seller /\ Consistent(seller[u])
  BY <1>1 DEF SellerInv, SellerTypeOK
<1>3. score \in 0..100 /\ badge \in Badge
  BY <1>2 DEF Seller, BadgeFor, Badge
<1>. HIDE DEF score, badge
<1>. DEFINE verified == [seller[u] EXCEPT !.verified = TRUE]
            scored == [verified EXCEPT !.score = score]
<1>4. verified \in Seller /\ verified.suspended = seller[u].suspended
      /\ verified.active = seller[u].active
  BY <1>2 DEF Seller
<1>5. obj = [scored EXCEPT !.badge = badge]
  OBVIOUS
<1>. HIDE DEF verified
<1>6. scored \in Seller /\ scored.suspended = seller[u].suspended
      /\ scored.active = seller[u].active
  BY <1>3, <1>4 DEF Seller
<1>. HIDE DEF scored
<1>7. obj \in Seller /\ obj.suspended = seller[u].suspended /\ obj.active = seller[u].active
  BY <1>3, <1>5, <1>6 DEF Seller
<1>. HIDE DEF obj
<1>8. Consistent(obj)
  BY <1>2, <1>7 DEF Consistent
<1>. QED BY <1>1, <1>7, <1>8, LoadSellerStep

LEMMA SuspendSellerStep ==
    ASSUME SellerInv, NEW s \in Sessions, NEW u \in Sellers, SuspendSeller(s, u)
    PROVE  SellerInv' /\ SuspensionStep
<1>. DEFINE obj == [seller[u] EXCEPT !.suspended = TRUE, !.active = FALSE]
            half == [seller[u] EXCEPT !.suspended = TRUE]
<1>1. seller[u] # None /\ LoadSeller(s, u, obj)
  BY DEF SuspendSeller
<1>2. seller[u] \in Seller
  BY <1>1 DEF SellerInv, SellerTypeOK
<1>3. half \in Seller /\ half.suspended
  BY <1>2 DEF Seller
<1>4. obj = [half EXCEPT !.active = FALSE]
  OBVIOUS
<1>. HIDE DEF half
<1>5. obj \in Seller /\ obj.suspended /\ ~obj.active
  BY <1>3, <1>4 DEF Seller
<1>. HIDE DEF obj
<1>6. Consistent(obj)
  BY <1>5 DEF Consistent
<1>. QED BY <1>1, <1>5, <1>6, LoadSellerStep

LEMMA SaveSellerStep ==
    ASSUME SellerInv, NEW s \in Sessions, SaveSeller(s)
    PROVE  SellerInv' /\ SuspensionStep
<1>0. PICK q : q = sellerReq[s]
  OBVIOUS
<1>1. /\ q.pc = "save" /\ q.u \in Sellers /\ q.read \in Seller \cup {None} /\ q.obj \in Seller
      /\ SellerSaves(q, seller)
  BY <1>0 DEF SaveSeller, SellerInv, SellerTypeOK, Idle
<1>2. sellerReq' = [sellerReq EXCEPT ![s] = Idle]
  BY DEF SaveSeller
<1>. DEFINE row == IF q.read = None THEN q.obj ELSE Flush(seller[q.u], q.read, q.obj)
<1>3. \/ UNCHANGED <<seller, sellerRaced>>
      \/ /\ q.read # None \/ seller[q.u] = None
         /\ seller' = [seller EXCEPT ![q.u] = row]
         /\ sellerRaced' \in {sellerRaced, sellerRaced \cup {q.u}}
  BY <1>0, SMTT(30) DEF SaveSeller
<1>4. /\ row \in Seller /\ row # None
      /\ Consistent(row)
      /\ q.read # None => (seller[q.u].suspended => row.suspended)
  <2>1. CASE q.read = None
    BY <1>1, <2>1, SellerAssumption DEF SellerSaves
  <2>2. CASE q.read # None
    <3>1. q.read \in Seller /\ seller[q.u] \in Seller
      BY <1>1, <2>2 DEF SellerSaves, SellerInv, SellerTypeOK
    <3>2. /\ row = Flush(seller[q.u], q.read, q.obj)
          /\ row \in Seller
          /\ row.suspended = IF q.obj.suspended # q.read.suspended THEN q.obj.suspended
                             ELSE seller[q.u].suspended
          /\ row.active = IF q.obj.active # q.read.active THEN q.obj.active
                          ELSE seller[q.u].active
      BY <1>1, <2>2, <3>1, SellerFlush
    <3>3. /\ {q.obj.suspended, q.read.suspended, seller[q.u].suspended} \subseteq BOOLEAN
          /\ {q.obj.active, q.read.active, seller[q.u].active} \subseteq BOOLEAN
      BY <1>1, <3>1 DEF Seller
    <3>4. /\ Consistent(q.obj) /\ Consistent(q.read) /\ Consistent(seller[q.u])
          /\ q.read.suspended => seller[q.u].suspended /\ q.obj.suspended
      BY <1>1, <2>2 DEF SellerSaves, SellerInv
    <3>. HIDE DEF row
    <3>5. Consistent(row) /\ (seller[q.u].suspended => row.suspended)
      BY <3>2, <3>3, <3>4 DEF Consistent
    <3>. QED BY <3>2, <3>5, SellerAssumption
  <2>. QED BY <2>1, <2>2
<1>. HIDE DEF row
<1>5. /\ \A u \in Sellers : seller[u] # None => seller'[u] # None
      /\ \A u \in Sellers : seller[u] # None /\ seller[u].suspended => seller'[u].suspended
      /\ \A u \in Sellers : seller'[u] # None => Consistent(seller'[u])
      /\ seller' \in [Sellers -> Seller \cup {None}]
  BY <1>1, <1>3, <1>4 DEF SellerInv, SellerTypeOK
<1>6. SellerTypeOK'
  BY <1>1, <1>2, <1>3, <1>5 DEF SellerInv, SellerTypeOK
<1>7. \A r \in Sessions : SellerSaves(sellerReq'[r], seller')
  <2>. SUFFICES ASSUME NEW r \in Sessions PROVE SellerSaves(sellerReq'[r], seller')
    OBVIOUS
  <2>1. CASE r = s
    BY <1>2, <2>1 DEF SellerSaves, SellerInv, SellerTypeOK, Idle
  <2>2. CASE r # s
    <3>1. sellerReq'[r] = sellerReq[r] /\ SellerSaves(sellerReq[r], seller)
          /\ (sellerReq[r].pc = "save" => sellerReq[r].u \in Sellers)
      BY <1>2, <2>2 DEF SellerInv, SellerTypeOK, Idle
    <3>. QED BY <1>5, <3>1 DEF SellerSaves
  <2>. QED BY <2>1, <2>2
<1>8. SuspensionStep
  BY <1>5 DEF SuspensionStep, Consistent
<1>. QED BY <1>5, <1>6, <1>7, <1>8 DEF SellerInv

LEMMA SellerNextLemma ==
    SellerInv /\ [SellerNext]_sellerVars => SellerInv' /\ (SuspensionStep \/ UNCHANGED sellerVars)
<1>1. SellerInv /\ UNCHANGED sellerVars => SellerInv'
  BY DEF SellerInv, SellerTypeOK, SellerSaves, sellerVars
<1>2. SellerInv /\ SellerNext => SellerInv' /\ SuspensionStep
  BY EditProfileStep, VerifySellerStep, SuspendSellerStep, SaveSellerStep DEF SellerNext
<1>. QED BY <1>1, <1>2

\* A suspension is never lifted, though edits and verifications that were loaded before it
\* are saved after it: they write the columns they changed, and none of them clears it.
THEOREM SuspensionsLast == SellerSpec => SuspensionLasts
<1>1. SellerInv /\ [SellerNext]_sellerVars =>
        SellerInv' /\ [\A u \in Sellers : seller[u] # None /\ seller[u].suspended
                         => seller'[u].suspended /\ ~seller'[u].active]_sellerVars
  BY SellerNextLemma DEF SuspensionStep
<1>. QED BY <1>1, SellerInitLemma, PTL DEF SellerSpec, SuspensionLasts

\* The badge that belongs to a row.
Badged(row) == row.badge = IF row.verified THEN BadgeFor(row.score) ELSE "NEW"

\* Handlers make rows with the right badge of rows with the right badge.
BadgeInv ==
    /\ SellerInv
    /\ BadgeMatchesScore
    /\ \A s \in Sessions : sellerReq[s].pc = "save" =>
         ((sellerReq[s].read # None => Badged(sellerReq[s].read)) => Badged(sellerReq[s].obj))

LEMMA LoadSellerBadge ==
    ASSUME BadgeInv, SellerInv', NEW s \in Sessions, NEW u \in Sellers, NEW obj \in Seller,
           LoadSeller(s, u, obj),
           (seller[u] # None => Badged(seller[u])) => Badged(obj)
    PROVE  BadgeInv'
<1>. DEFINE q == [pc |-> "save", u |-> u, read |-> seller[u], obj |-> obj]
<1>1. sellerReq' = [sellerReq EXCEPT ![s] = q] /\ UNCHANGED <<seller, sellerRaced>>
  BY DEF LoadSeller
<1>2. q.pc = "save" => ((q.read # None => Badged(q.read)) => Badged(q.obj))
  OBVIOUS
<1>. HIDE DEF q
<1>3. \A r \in Sessions : sellerReq'[r] = IF r = s THEN q ELSE sellerReq[r]
  BY <1>1 DEF BadgeInv, SellerInv, SellerTypeOK
<1>4. ASSUME NEW r \in Sessions, sellerReq'[r].pc = "save",
             sellerReq'[r].read # None => Badged(sellerReq'[r].read)
      PROVE  Badged(sellerReq'[r].obj)
  <2>1. CASE r = s
    BY <1>2, <1>3, <1>4, <2>1
  <2>2. CASE r # s
    BY <1>3, <1>4, <2>2 DEF BadgeInv
  <2>. QED BY <2>1, <2>2
<1>5. BadgeMatchesScore'
  BY <1>1 DEF BadgeInv, BadgeMatchesScore, BadgeFor
<1>. QED BY <1>4, <1>5 DEF BadgeInv, Badged, BadgeFor

LEMMA HandlersBadge ==
    ASSUME BadgeInv, NEW s \in Sessions, NEW u \in Sellers,
           \/ \E content \in Contents : EditProfile(s, u, content)
           \/ VerifySeller(s, u)
           \/ SuspendSeller(s, u)
    PROVE  BadgeInv'
<1>0. SellerInv'
  BY EditProfileStep, VerifySellerStep, SuspendSellerStep DEF BadgeInv
<1>1. seller[u] # None => seller[u] \in Seller
  BY DEF BadgeInv, SellerInv, SellerTypeOK
<1>2. ASSUME NEW content \in Contents, EditProfile(s, u, content) PROVE BadgeInv'
  <2>1. CASE seller[u] = None
    <3>1. NewSeller(content) \in Seller /\ Badged(NewSeller(content))
      BY DEF NewSeller, Seller, Badge, Badged
    <3>. QED BY <1>0, <1>2, <2>1, <3>1, LoadSellerBadge DEF EditProfile
  <2>2. CASE seller[u] # None
    <3>. DEFINE obj == [seller[u] EXCEPT !.content = content]
    <3>1. obj \in Seller /\ obj.badge = seller[u].badge /\ obj.verified = seller[u].verified
          /\ obj.score = seller[u].score
      BY <1>1, <2>2 DEF Seller
    <3>2. Badged(seller[u]) => Badged(obj)
      BY <3>1 DEF Badged
    <3>. QED BY <1>0, <1>2, <2>2, <3>1, <3>2, LoadSellerBadge DEF EditProfile
  <2>. QED BY <2>1, <2>2
<1>3. CASE VerifySeller(s, u)
  <2>. DEFINE raised == seller[u].score + 20
              score == IF raised < 100 THEN raised ELSE 100
              badge == BadgeFor(score)
              obj == [seller[u] EXCEPT !.verified = TRUE, !.score = score, !.badge = badge]
              verified == [seller[u] EXCEPT !.verified = TRUE]
              scored == [verified EXCEPT !.score = score]
  <2>1. seller[u] # None /\ LoadSeller(s, u, obj)
    BY <1>3 DEF VerifySeller
  <2>2. score \in 0..100 /\ badge \in Badge
    BY <1>1, <2>1 DEF Seller, BadgeFor, Badge
  <2>3. badge = BadgeFor(score)
    OBVIOUS
  <2>. HIDE DEF score, badge
  <2>4. verified \in Seller /\ verified.verified
    BY <1>1, <2>1 DEF Seller
  <2>5. obj = [scored EXCEPT !.badge = badge]
    OBVIOUS
  <2>. HIDE DEF verified
  <2>6. scored \in Seller /\ scored.verified /\ scored.score = score
    BY <2>2, <2>4 DEF Seller
  <2>. HIDE DEF scored
  <2>7. obj \in Seller /\ obj.verified /\ obj.score = score /\ obj.badge = badge
    BY <2>2, <2>5, <2>6 DEF Seller
  <2>. HIDE DEF obj
  <2>8. Badged(obj)
    BY <2>3, <2>7 DEF Badged
  <2>. QED BY <1>0, <2>1, <2>7, <2>8, LoadSellerBadge
<1>4. CASE SuspendSeller(s, u)
  <2>. DEFINE obj == [seller[u] EXCEPT !.suspended = TRUE, !.active = FALSE]
              half == [seller[u] EXCEPT !.suspended = TRUE]
  <2>1. seller[u] # None /\ LoadSeller(s, u, obj)
    BY <1>4 DEF SuspendSeller
  <2>2. half \in Seller /\ half.badge = seller[u].badge /\ half.verified = seller[u].verified
        /\ half.score = seller[u].score
    BY <1>1, <2>1 DEF Seller
  <2>3. obj = [half EXCEPT !.active = FALSE]
    OBVIOUS
  <2>. HIDE DEF half
  <2>4. obj \in Seller /\ obj.badge = seller[u].badge /\ obj.verified = seller[u].verified
        /\ obj.score = seller[u].score
    BY <2>2, <2>3 DEF Seller
  <2>. HIDE DEF obj
  <2>5. Badged(seller[u]) => Badged(obj)
    BY <2>4 DEF Badged
  <2>. QED BY <1>0, <2>1, <2>4, <2>5, LoadSellerBadge
<1>. QED BY <1>2, <1>3, <1>4

\* A profile that is still the one that was read takes all columns of the handler's copy.
LEMMA SellerFlushUnchanged ==
    ASSUME NEW row \in Seller, NEW obj \in Seller
    PROVE  Flush(row, row, obj) = obj
<1>1. DOMAIN row = {"content", "verified", "score", "badge", "active", "suspended"}
  BY DEF Seller
<1>2. Flush(row, row, obj) =
        [content |-> IF obj.content # row.content THEN obj.content ELSE row.content,
         verified |-> IF obj.verified # row.verified THEN obj.verified ELSE row.verified,
         score |-> IF obj.score # row.score THEN obj.score ELSE row.score,
         badge |-> IF obj.badge # row.badge THEN obj.badge ELSE row.badge,
         active |-> IF obj.active # row.active THEN obj.active ELSE row.active,
         suspended |-> IF obj.suspended # row.suspended THEN obj.suspended ELSE row.suspended]
  BY <1>1 DEF Flush
<1>. QED BY <1>2 DEF Seller

LEMMA SaveSellerBadge ==
    ASSUME BadgeInv, NEW s \in Sessions, SaveSeller(s) PROVE BadgeInv'
<1>0. PICK q : q = sellerReq[s]
  OBVIOUS
<1>1. /\ q.pc = "save" /\ q.u \in Sellers /\ q.read \in Seller \cup {None} /\ q.obj \in Seller
      /\ (q.read # None => Badged(q.read)) => Badged(q.obj)
  BY <1>0 DEF SaveSeller, BadgeInv, SellerInv, SellerTypeOK, Idle
<1>2. SellerInv'
  BY SaveSellerStep DEF BadgeInv
<1>3. ASSUME NEW r \in Sessions, sellerReq'[r].pc = "save"
      PROVE  (sellerReq'[r].read # None => Badged(sellerReq'[r].read)) => Badged(sellerReq'[r].obj)
  <2>1. sellerReq'[r] = IF r = s THEN Idle ELSE sellerReq[r]
    BY DEF SaveSeller, BadgeInv, SellerInv, SellerTypeOK
  <2>. QED BY <1>3, <2>1 DEF Idle, BadgeInv
<1>. DEFINE row == IF q.read = None THEN q.obj ELSE Flush(seller[q.u], q.read, q.obj)
<1>4. \/ UNCHANGED <<seller, sellerRaced>>
      \/ /\ seller' = [seller EXCEPT ![q.u] = row]
         /\ sellerRaced' = IF Changed(seller[q.u], q.read) THEN sellerRaced \cup {q.u}
                                                           ELSE sellerRaced
  BY <1>0 DEF SaveSeller
<1>5. ~Changed(seller[q.u], q.read) /\ q.u \notin sellerRaced => Badged(row)
  <2>. SUFFICES ASSUME seller[q.u] = q.read, q.u \notin sellerRaced PROVE Badged(row)
    BY DEF Changed
  <2>1. CASE q.read = None
    BY <1>1, <2>1
  <2>2. CASE q.read # None
    <3>1. Badged(q.read)
      BY <1>1, <2>2 DEF BadgeInv, BadgeMatchesScore, Badged
    <3>2. row = q.obj
      BY <1>1, <2>2, SellerFlushUnchanged
    <3>. QED BY <1>1, <3>1, <3>2
  <2>. QED BY <2>1, <2>2
<1>. HIDE DEF row
<1>6. BadgeMatchesScore'
  <2>. SUFFICES ASSUME NEW u \in Sellers, u \notin sellerRaced', seller'[u] # None
                PROVE  Badged(seller'[u])
    BY DEF BadgeMatchesScore, Badged, BadgeFor
  <2>1. u \notin sellerRaced
    BY <1>4
  <2>2. CASE seller'[u] = seller[u]
    BY <2>1, <2>2 DEF BadgeInv, BadgeMatchesScore, Badged
  <2>3. CASE seller'[u] # seller[u]
    <3>1. u = q.u /\ seller'[u] = row
      BY <1>1, <1>4, <2>3 DEF BadgeInv, SellerInv, SellerTypeOK
    <3>. QED BY <1>4, <1>5, <2>1, <2>3, <3>1
  <2>. QED BY <2>2, <2>3
<1>. QED BY <1>2, <1>3, <1>6 DEF BadgeInv, Badged, BadgeFor

\* Profiles of any number of sellers, edited, verified and suspended at once: suspensions
\* last, and the badge is the one of the score wherever no two requests saved at once.
THEOREM SellersAreSafe == SellerSpec => SellerSafety
<1>1. SellerInit => BadgeInv
  BY SellerInitLemma DEF SellerInit, BadgeInv, BadgeMatchesScore, Idle
<1>2. BadgeInv /\ UNCHANGED sellerVars => BadgeInv'
  <2>1. SellerInv /\ UNCHANGED sellerVars => SellerInv'
    BY SellerNextLemma
  <2>. QED BY <2>1 DEF BadgeInv, BadgeMatchesScore, Badged, BadgeFor, sellerVars
<1>3. BadgeInv /\ SellerNext => BadgeInv'
  BY HandlersBadge, SaveSellerBadge DEF SellerNext
<1>4. BadgeInv => SellerTypeOK /\ BadgeMatchesScore
  BY DEF BadgeInv, SellerInv
<1>5. SellerSpec => [](SellerTypeOK /\ BadgeMatchesScore)
  BY <1>1, <1>2, <1>3, <1>4, PTL DEF SellerSpec
<1>. QED BY <1>5, SuspensionsLast DEF SellerSafety

-----------------------------------------------------------------------------
(* Searches: what is cached is current *)

\* No session is about to store the fallback as the answer of a search.
FallbackIsNotStored ==
    \A s \in Sessions : searchReq[s].pc = "store" /\ searchReq[s].key = "search" =>
        ~searchReq[s].result.fallback

SearchInv == SearchTypeOK /\ CachedIsCurrent /\ OutageIsNotCached /\ FallbackIsNotStored

AnySearchReq == {Idle} \cup [pc: {"query"}, key: Keys] \cup [pc: {"invalidate"}]
                  \cup [pc: {"store"}, key: Keys, result: Result]

\* A step that only moves a request of s on, and is not one that clears the cache.
LEMMA BecomeStep ==
    ASSUME SearchInv, NEW s \in Sessions, NEW req \in AnySearchReq, Become(s, req),
           searchReq[s].pc = "invalidate" => req.pc = "invalidate",
           req.pc = "store" /\ req.key = "search" => ~req.result.fallback,
           UNCHANGED <<doc, shown, cache, behind>>
    PROVE  SearchInv'
<1>1. SearchTypeOK'
  BY DEF SearchInv, SearchTypeOK, Become, AnySearchReq
<1>2. Clearing => Clearing'
  BY DEF Clearing, Become, SearchInv, SearchTypeOK
<1>3. CachedIsCurrent' /\ OutageIsNotCached'
  BY <1>2 DEF SearchInv, CachedIsCurrent, OutageIsNotCached, Hits
<1>4. FallbackIsNotStored'
  BY DEF SearchInv, SearchTypeOK, FallbackIsNotStored, Become
<1>. QED BY <1>1, <1>3, <1>4 DEF SearchInv

LEMMA HitsFacts ==
    ASSUME SearchInv, NEW key \in Keys
    PROVE  Hits(key) \in Result /\ ~Hits(key).fallback
<1>1. \A p \in SearchProducts : shown[p] # None => shown[p].text \in Texts
  BY DEF SearchInv, SearchTypeOK, Index, Doc
<1>. QED BY <1>1 DEF Hits, Result

LEMMA QueryStep ==
    ASSUME SearchInv, NEW s \in Sessions,
           \/ \E key \in Keys : MissCache(s, key)
           \/ QueryIndex(s) \/ QueryFails(s)
    PROVE  SearchInv'
<1>1. ASSUME NEW key \in Keys, MissCache(s, key) PROVE SearchInv'
  BY <1>1, BecomeStep DEF MissCache, AnySearchReq, Idle
<1>2. ASSUME searchReq[s].pc = "query" PROVE searchReq[s].key \in Keys
  BY <1>2 DEF SearchInv, SearchTypeOK, Idle
<1>3. CASE QueryIndex(s)
  <2>. DEFINE req == [pc |-> "store", key |-> searchReq[s].key,
                      result |-> Hits(searchReq[s].key)]
  <2>1. Become(s, req) /\ searchReq[s].pc = "query" /\ UNCHANGED <<doc, shown, cache, behind>>
    BY <1>3 DEF QueryIndex
  <2>2. Hits(searchReq[s].key) \in Result /\ ~Hits(searchReq[s].key).fallback
    BY <1>2, <2>1, HitsFacts
  <2>3. req \in AnySearchReq
    BY <1>2, <2>1, <2>2 DEF AnySearchReq
  <2>. QED BY <2>1, <2>2, <2>3, BecomeStep
<1>4. CASE QueryFails(s)
  <2>. DEFINE req == IF searchReq[s].key = "search" THEN Idle
                     ELSE [pc |-> "store", key |-> searchReq[s].key, result |-> NoHits]
  <2>1. Become(s, req) /\ searchReq[s].pc = "query" /\ UNCHANGED <<doc, shown, cache, behind>>
    BY <1>4 DEF QueryFails
  <2>2. req \in AnySearchReq /\ (req.pc = "store" => req.key # "search")
    BY <1>2, <2>1 DEF AnySearchReq, Result, NoHits, Idle
  <2>. HIDE DEF req
  <2>. QED BY <2>1, <2>2, BecomeStep
<1>. QED BY <1>1, <1>3, <1>4

\* Entries of the cache that are removed, or stored for what is answered now.
LEMMA StoreAnswerStep ==
    ASSUME SearchInv, NEW s \in Sessions, StoreAnswer(s)
    PROVE  SearchInv'
<1>1. PICK q : q = searchReq[s] /\ q.pc = "store" /\ q.key \in Keys /\ q.result \in Result
        /\ (q.key = "search" => ~q.result.fallback)
  BY DEF StoreAnswer, SearchInv, SearchTypeOK, FallbackIsNotStored, Idle
<1>. DEFINE entry == [result |-> q.result, raced |-> q.result # Hits(q.key)]
<1>2. /\ cache' = [cache EXCEPT ![q.key] = entry] /\ searchReq' = [searchReq EXCEPT ![s] = Idle]
      /\ UNCHANGED <<doc, shown, behind>>
  BY <1>1 DEF StoreAnswer, Become
<1>3. /\ entry \in Entry /\ entry.result = q.result
      /\ ~entry.raced => entry.result = Hits(q.key)
  BY <1>1 DEF Entry
<1>. HIDE DEF entry
<1>4. SearchTypeOK'
  BY <1>1, <1>2, <1>3 DEF SearchInv, SearchTypeOK
<1>5. Clearing => Clearing'
  BY <1>1, <1>2 DEF Clearing, SearchInv, SearchTypeOK
<1>6. CachedIsCurrent'
  <2>1. Hits("search")' = Hits("search")
    BY <1>2 DEF Hits
  <2>2. cache'["search"] = IF q.key = "search" THEN entry ELSE cache["search"]
    BY <1>1, <1>2 DEF SearchInv, SearchTypeOK, Keys
  <2>. QED BY <1>2, <1>3, <1>5, <2>1, <2>2 DEF SearchInv, CachedIsCurrent
<1>7. OutageIsNotCached'
  BY <1>1, <1>2, <1>3 DEF SearchInv, SearchTypeOK, OutageIsNotCached, Keys
<1>8. FallbackIsNotStored'
  BY <1>2 DEF SearchInv, SearchTypeOK, FallbackIsNotStored, Idle
<1>. QED BY <1>4, <1>6, <1>7, <1>8 DEF SearchInv

LEMMA RemovalStep ==
    ASSUME SearchInv,
           \/ \E key \in Keys : ExpireEntry(key)
           \/ \E s \in Sessions : Invalidate(s) \/ InvalidateFails(s)
    PROVE  SearchInv'
<1>1. ASSUME NEW key \in Keys, ExpireEntry(key) PROVE SearchInv'
  BY <1>1 DEF SearchInv, SearchTypeOK, ExpireEntry, CachedIsCurrent, OutageIsNotCached,
              FallbackIsNotStored, Clearing, Hits, Keys
<1>2. ASSUME NEW s \in Sessions, Invalidate(s) PROVE SearchInv'
  BY <1>2 DEF SearchInv, SearchTypeOK, Invalidate, Become, CachedIsCurrent, OutageIsNotCached,
              FallbackIsNotStored, Idle, Keys
<1>3. ASSUME NEW s \in Sessions, InvalidateFails(s) PROVE SearchInv'
  BY <1>3 DEF SearchInv, SearchTypeOK, InvalidateFails, Become, CachedIsCurrent,
              OutageIsNotCached, FallbackIsNotStored, Idle
<1>. QED BY <1>1, <1>2, <1>3

\* Writes reach the documents first; a write to come clears the cache, or behind tells.
LEMMA WriteIndexStep ==
    ASSUME SearchInv, NEW s \in Sessions, NEW index \in Index, WriteIndex(s, index)
    PROVE  SearchInv'
<1>1. doc' = index /\ UNCHANGED <<shown, cache, behind>> /\ searchReq[s] = Idle
  BY DEF WriteIndex
<1>2. CASE UNCHANGED searchReq
  BY <1>1, <1>2 DEF SearchInv, SearchTypeOK, CachedIsCurrent, OutageIsNotCached,
                    FallbackIsNotStored, Clearing, Hits
<1>3. CASE Become(s, [pc |-> "invalidate"])
  <2>1. Clearing'
    BY <1>3 DEF Clearing, Become, SearchInv, SearchTypeOK
  <2>. QED BY <1>1, <1>3, <2>1 DEF SearchInv, SearchTypeOK, CachedIsCurrent, OutageIsNotCached,
                                   FallbackIsNotStored, Become
<1>. QED BY <1>2, <1>3 DEF WriteIndex

LEMMA WritesStep ==
    ASSUME SearchInv, NEW s \in Sessions,
           \/ \E p \in SearchProducts : DeleteProduct(s, p) \/ \E d \in Doc : IndexProduct(s, p, d)
           \/ \E P \in (SUBSET SearchProducts) \ {{}}, d \in Doc : BulkIndex(s, P, d)
    PROVE  SearchInv'
<1>1. ASSUME NEW p \in SearchProducts, DeleteProduct(s, p) PROVE SearchInv'
  <2>1. [doc EXCEPT ![p] = None] \in Index
    BY DEF SearchInv, SearchTypeOK, Index
  <2>. QED BY <1>1, <2>1, WriteIndexStep DEF DeleteProduct
<1>2. ASSUME NEW p \in SearchProducts, NEW d \in Doc, IndexProduct(s, p, d) PROVE SearchInv'
  <2>1. [doc EXCEPT ![p] = d] \in Index
    BY DEF SearchInv, SearchTypeOK, Index
  <2>. QED BY <1>2, <2>1, WriteIndexStep DEF IndexProduct
<1>3. ASSUME NEW P \in SUBSET SearchProducts, NEW d \in Doc, BulkIndex(s, P, d) PROVE SearchInv'
  <2>1. [p \in SearchProducts |-> IF p \in P THEN d ELSE doc[p]] \in Index
    BY DEF SearchInv, SearchTypeOK, Index
  <2>. QED BY <1>3, <2>1, WriteIndexStep DEF BulkIndex
<1>. QED BY <1>1, <1>2, <1>3

LEMMA EventStep ==
    ASSUME SearchInv, NEW p \in SearchProducts, NEW d \in Doc \cup {None}, ConsumeEvent(p, d)
    PROVE  SearchInv'
  BY DEF SearchInv, SearchTypeOK, Index, ConsumeEvent, CachedIsCurrent, OutageIsNotCached,
         FallbackIsNotStored, Clearing, Hits

LEMMA RefreshIndexStep ==
    ASSUME SearchInv, RefreshIndex
    PROVE  SearchInv'
<1>1. Clearing' <=> Clearing
  BY DEF RefreshIndex, Clearing
<1>2. CachedIsCurrent'
  BY <1>1 DEF RefreshIndex, CachedIsCurrent
<1>. QED BY <1>2 DEF SearchInv, SearchTypeOK, RefreshIndex, OutageIsNotCached,
                     FallbackIsNotStored

LEMMA SearchInvariance == SearchSpec => []SearchInv
<1>1. SearchInit => SearchInv
  <2>. SUFFICES ASSUME SearchInit PROVE SearchInv
    OBVIOUS
  <2>1. SearchTypeOK
    BY DEF SearchInit, SearchTypeOK, Index
  <2>2. cache["search"] = None /\ \A s \in Sessions : searchReq[s].pc = "idle"
    BY DEF SearchInit, Keys, Idle
  <2>. QED BY <2>1, <2>2 DEF SearchInv, CachedIsCurrent, OutageIsNotCached, FallbackIsNotStored
<1>2. SearchInv /\ UNCHANGED searchVars => SearchInv'
  BY DEF SearchInv, SearchTypeOK, searchVars, CachedIsCurrent, OutageIsNotCached,
         FallbackIsNotStored, Clearing, Hits
<1>3. SearchInv /\ SearchNext => SearchInv'
  BY QueryStep, StoreAnswerStep, RemovalStep, WritesStep, EventStep, RefreshIndexStep
     DEF SearchNext
<1>. QED BY <1>1, <1>2, <1>3, PTL DEF SearchSpec

\* A search answered from the cache is answered as Elasticsearch would, for any number of
\* requests and writes, but for the races that the history variables record, and never with
\* the fallback of an outage.
THEOREM SearchIsSafe == SearchSpec => []SearchSafety
<1>1. SearchInv => SearchSafety
  BY DEF SearchInv, SearchSafety
<1>. QED BY <1>1, SearchInvariance, PTL

-----------------------------------------------------------------------------
(* Loyalty: what every row promises was earned *)

\* A row of a member, in the table or in a session, promises no more than the earned
\* points that are booked.
Within(row, earned) ==
    /\ row.points <= earned
    /\ row.lifetime <= earned
    /\ row.tier <= TierFor(earned)

\* The rows that sessions have read are within what was earned as much as the table is:
\* this is what a stale row may still be trusted for.
ReadWithin ==
    \A s \in Sessions :
        /\ loyaltyReq[s].pc = "earn" /\ loyaltyReq[s].read # None =>
             /\ member[loyaltyReq[s].m] # None
             /\ Within(loyaltyReq[s].read, booked[loyaltyReq[s].m].earned)
        /\ loyaltyReq[s].pc = "redeem" =>
             /\ member[loyaltyReq[s].m] # None
             /\ Within(loyaltyReq[s].read, booked[loyaltyReq[s].m].earned)

LoyaltyInv == LoyaltyTypeOK /\ PointsWereEarned /\ ReadWithin

-----------------------------------------------------------------------------
(* Loyalty: the operators *)

LEMMA TierForGrows ==
    ASSUME NEW a \in Int, NEW b \in Int, a <= b
    PROVE  TierFor(a) \in Tier /\ TierFor(a) <= TierFor(b)
  BY LoyaltyAssumption DEF TierFor, Tier

LEMMA FlushMember ==
    ASSUME NEW row \in Member, NEW read \in Member, NEW obj \in Member
    PROVE  /\ Flush(row, read, obj) \in Member
           /\ Flush(row, read, obj).points \in {row.points, obj.points}
           /\ Flush(row, read, obj).lifetime \in {row.lifetime, obj.lifetime}
           /\ Flush(row, read, obj).tier \in {row.tier, obj.tier}
<1>1. DOMAIN row = {"tier", "points", "lifetime", "cashback"}
  BY DEF Member
<1>2. Flush(row, read, obj) =
        [tier |-> IF obj.tier # read.tier THEN obj.tier ELSE row.tier,
         points |-> IF obj.points # read.points THEN obj.points ELSE row.points,
         lifetime |-> IF obj.lifetime # read.lifetime THEN obj.lifetime ELSE row.lifetime,
         cashback |-> IF obj.cashback # read.cashback THEN obj.cashback ELSE row.cashback]
  BY <1>1 DEF Flush
<1>. QED BY <1>2 DEF Member

LEMMA FlushReward ==
    ASSUME NEW row \in Reward, NEW read \in Reward, NEW obj \in Reward
    PROVE  Flush(row, read, obj) \in Reward
<1>1. DOMAIN row = {"cost", "minTier", "stock", "active"}
  BY DEF Reward
<1>2. Flush(row, read, obj) =
        [cost |-> IF obj.cost # read.cost THEN obj.cost ELSE row.cost,
         minTier |-> IF obj.minTier # read.minTier THEN obj.minTier ELSE row.minTier,
         stock |-> IF obj.stock # read.stock THEN obj.stock ELSE row.stock,
         active |-> IF obj.active # read.active THEN obj.active ELSE row.active]
  BY <1>1 DEF Flush
<1>. QED BY <1>2 DEF Reward

LEMMA CashbackIsNat ==
    ASSUME NEW t \in Tier, NEW p \in Nat
    PROVE  p * CashbackPercent[t] \in Nat
<1>1. CashbackPercent[t] \in {1, 2, 3, 5}
  <2>1. t = 1 \/ t = 2 \/ t = 3 \/ t = 4
    BY DEF Tier
  <2>. QED BY <2>1 DEF CashbackPercent
<1>. QED BY <1>1

\* What Earned makes of a row, column by column.
LEMMA EarnedColumns ==
    ASSUME NEW row \in Member, NEW points \in Nat
    PROVE  /\ Earned(row, points) \in Member
           /\ Earned(row, points).points = row.points + points
           /\ Earned(row, points).lifetime = row.lifetime + points
           /\ Earned(row, points).cashback = row.cashback + points * CashbackPercent[row.tier]
           /\ Earned(row, points).tier = IF TierFor(row.lifetime + points) > row.tier
                                         THEN TierFor(row.lifetime + points) ELSE row.tier
<1>. DEFINE c == points * CashbackPercent[row.tier]
            t == TierFor(row.lifetime + points)
<1>1. /\ row.points \in Int /\ row.lifetime \in Nat /\ row.tier \in Tier /\ row.cashback \in Nat
  BY DEF Member
<1>2. t \in Tier
  BY <1>1, TierForGrows
<1>3. c \in Nat
  BY <1>1, CashbackIsNat
<1>4. Earned(row, points) =
        [tier |-> IF t > row.tier THEN t ELSE row.tier, points |-> row.points + points,
         lifetime |-> row.lifetime + points, cashback |-> row.cashback + c]
  <2>1. row = [tier |-> row.tier, points |-> row.points, lifetime |-> row.lifetime,
               cashback |-> row.cashback]
    BY DEF Member
  <2>. DEFINE r1 == [row EXCEPT !.points = @ + points]
              r2 == [r1 EXCEPT !.lifetime = @ + points]
              r3 == [r2 EXCEPT !.cashback = @ + c]
              r4 == [r3 EXCEPT !.tier = IF t > row.tier THEN t ELSE row.tier]
  <2>. HIDE DEF r1, r2, r3, r4
  <2>2. r1 = [tier |-> row.tier, points |-> row.points + points, lifetime |-> row.lifetime,
              cashback |-> row.cashback]
    BY <2>1 DEF r1
  <2>3. r2 = [tier |-> row.tier, points |-> row.points + points,
              lifetime |-> row.lifetime + points, cashback |-> row.cashback]
    BY <2>2 DEF r2
  <2>4. r3 = [tier |-> row.tier, points |-> row.points + points,
              lifetime |-> row.lifetime + points, cashback |-> row.cashback + c]
    BY <2>3 DEF r3
  <2>5. r4 = [tier |-> IF t > row.tier THEN t ELSE row.tier, points |-> row.points + points,
              lifetime |-> row.lifetime + points, cashback |-> row.cashback + c]
    BY <2>4 DEF r4
  <2>6. Earned(row, points) = r4
    BY <2>1 DEF Earned, r1, r2, r3, r4, t, c
  <2>. QED BY <2>5, <2>6
<1>5. row.cashback + c \in Nat
  BY <1>1, <1>3
<1>. HIDE DEF c, t
<1>6. Earned(row, points) \in Member
  BY <1>1, <1>2, <1>4, <1>5 DEF Member
<1>. QED BY <1>4, <1>6 DEF c, t

\* Earned raises points and lifetime points by what is booked, and the tier by no more
\* than that allows.
LEMMA EarnedWithin ==
    ASSUME NEW row \in Member, NEW points \in Earnings, NEW e \in Nat,
           row.points <= e, row.lifetime <= e, row.tier <= TierFor(e)
    PROVE  /\ Earned(row, points) \in Member
           /\ Earned(row, points).points <= e + points
           /\ Earned(row, points).lifetime <= e + points
           /\ Earned(row, points).tier <= TierFor(e + points)
<1>1. points \in Nat
  BY LoyaltyAssumption
<1>2. row.points \in Int /\ row.lifetime \in Nat /\ row.tier \in Tier
  BY DEF Member
<1>3. TierFor(row.lifetime + points) <= TierFor(e + points)
  BY <1>1, <1>2, TierForGrows
<1>4. /\ TierFor(e) <= TierFor(e + points)
      /\ TierFor(e) \in Tier /\ TierFor(e + points) \in Tier
  BY <1>1, TierForGrows
<1>5. row.tier <= TierFor(e + points)
  BY <1>2, <1>4 DEF Tier
<1>6. /\ Earned(row, points) \in Member
      /\ Earned(row, points).points = row.points + points
      /\ Earned(row, points).lifetime = row.lifetime + points
      /\ Earned(row, points).tier \in {TierFor(row.lifetime + points), row.tier}
  BY <1>1, EarnedColumns
<1>. QED BY <1>1, <1>2, <1>3, <1>5, <1>6

-----------------------------------------------------------------------------
(* Loyalty: sessions *)

AnyLoyaltyReq == {Idle} \cup EarnReq \cup MemberReq \cup RedeemReq

LEMMA LoyaltyReqKinds ==
    ASSUME LoyaltyTypeOK, NEW s \in Sessions
    PROVE  /\ loyaltyReq[s] \in AnyLoyaltyReq
           /\ loyaltyReq[s].pc = "earn" => loyaltyReq[s] \in EarnReq
           /\ loyaltyReq[s].pc = "member" => loyaltyReq[s] \in MemberReq
           /\ loyaltyReq[s].pc = "redeem" => loyaltyReq[s] \in RedeemReq
  BY DEF LoyaltyTypeOK, AnyLoyaltyReq, Idle, EarnReq, MemberReq, RedeemReq

\* A step that books nothing less, deletes no member, and leaves a session idle or with
\* a row that is within, keeps ReadWithin.
LEMMA ReadWithinKept ==
    ASSUME LoyaltyInv, NEW s \in Sessions, NEW x \in AnyLoyaltyReq,
           loyaltyReq' = [loyaltyReq EXCEPT ![s] = x],
           booked' \in [Members -> [earned: Nat, spent: Nat]],
           \A m \in Members : booked[m].earned <= booked'[m].earned,
           \A m \in Members : member[m] # None => member'[m] # None,
           x.pc = "earn" /\ x.read # None =>
             x \in EarnReq /\ member[x.m] # None /\ Within(x.read, booked[x.m].earned),
           x.pc = "redeem" => x \in RedeemReq /\ member[x.m] # None /\ Within(x.read, booked[x.m].earned)
    PROVE  /\ loyaltyReq' \in [Sessions -> AnyLoyaltyReq]
           /\ ReadWithin'
<1>1. loyaltyReq \in [Sessions -> AnyLoyaltyReq]
  BY DEF LoyaltyInv, LoyaltyTypeOK, AnyLoyaltyReq
<1>2. \A m \in Members, row \in Member :
        Within(row, booked[m].earned) => Within(row, booked'[m].earned)
  <2>. SUFFICES ASSUME NEW m \in Members, NEW row \in Member, Within(row, booked[m].earned)
                PROVE  Within(row, booked'[m].earned)
    OBVIOUS
  <2>1. /\ booked[m].earned \in Nat /\ booked'[m].earned \in Nat
        /\ booked[m].earned <= booked'[m].earned
    BY DEF LoyaltyInv, LoyaltyTypeOK
  <2>2. /\ TierFor(booked[m].earned) <= TierFor(booked'[m].earned)
        /\ TierFor(booked[m].earned) \in Tier /\ TierFor(booked'[m].earned) \in Tier
    BY <2>1, TierForGrows
  <2>3. row.points \in Int /\ row.lifetime \in Nat /\ row.tier \in Tier
    BY DEF Member
  <2>. QED BY <2>1, <2>2, <2>3 DEF Within, Tier
<1>3. ASSUME NEW g \in Sessions, loyaltyReq'[g].pc = "earn", loyaltyReq'[g].read # None
      PROVE  member'[loyaltyReq'[g].m] # None /\ Within(loyaltyReq'[g].read, booked'[loyaltyReq'[g].m].earned)
  <2>1. /\ loyaltyReq'[g] \in EarnReq
        /\ member[loyaltyReq'[g].m] # None
        /\ Within(loyaltyReq'[g].read, booked[loyaltyReq'[g].m].earned)
    BY <1>1, <1>3, LoyaltyReqKinds DEF LoyaltyInv, ReadWithin
  <2>2. loyaltyReq'[g].m \in Members /\ loyaltyReq'[g].read \in Member
    BY <1>3, <2>1 DEF EarnReq
  <2>3. Within(loyaltyReq'[g].read, booked'[loyaltyReq'[g].m].earned)
    BY <1>2, <2>1, <2>2
  <2>. QED BY <2>1, <2>2, <2>3
<1>4. ASSUME NEW g \in Sessions, loyaltyReq'[g].pc = "redeem"
      PROVE  member'[loyaltyReq'[g].m] # None /\ Within(loyaltyReq'[g].read, booked'[loyaltyReq'[g].m].earned)
  <2>1. /\ loyaltyReq'[g] \in RedeemReq
        /\ member[loyaltyReq'[g].m] # None
        /\ Within(loyaltyReq'[g].read, booked[loyaltyReq'[g].m].earned)
    BY <1>1, <1>4, LoyaltyReqKinds DEF LoyaltyInv, ReadWithin
  <2>2. loyaltyReq'[g].m \in Members /\ loyaltyReq'[g].read \in Member
    BY <2>1 DEF RedeemReq
  <2>3. Within(loyaltyReq'[g].read, booked'[loyaltyReq'[g].m].earned)
    BY <1>2, <2>1, <2>2
  <2>. QED BY <2>1, <2>2, <2>3
<1>. QED BY <1>1, <1>3, <1>4 DEF ReadWithin

-----------------------------------------------------------------------------
(* Loyalty: the actions *)

LEMMA LoyaltyInitLemma == LoyaltyInit => LoyaltyInv
<1>. SUFFICES ASSUME LoyaltyInit PROVE LoyaltyInv
  OBVIOUS
<1>1. LoyaltyTypeOK
  <2>1. reward \in [Rewards -> Reward]
    <3>1. [cost: Costs, minTier: {1, 2}, stock: Stocks, active: {TRUE}] \subseteq Reward
      <4>1. Stocks \subseteq Int \cup {None} /\ {1, 2} \subseteq Tier
        BY LoyaltyAssumption DEF Tier
      <4>. QED BY <4>1 DEF Reward
    <3>. QED BY <3>1 DEF LoyaltyInit
  <2>. QED BY <2>1 DEF LoyaltyInit, LoyaltyTypeOK
<1>. QED BY <1>1 DEF LoyaltyInv, LoyaltyInit, PointsWereEarned, ReadWithin, Idle

\* What LoyaltyInv says of one member.
LEMMA MemberFacts ==
    ASSUME LoyaltyInv, NEW m \in Members, member[m] # None
    PROVE  member[m] \in Member /\ Within(member[m], booked[m].earned)
  BY DEF LoyaltyInv, LoyaltyTypeOK, PointsWereEarned, Within

LEMMA JoinLemma ==
    ASSUME LoyaltyInv, NEW m \in Members, Join(m) PROVE LoyaltyInv'
<1>1. NewMember \in Member
  BY DEF NewMember, Member, Tier
<1>2. LoyaltyTypeOK'
  BY <1>1 DEF LoyaltyInv, LoyaltyTypeOK, Join
<1>3. 1 <= TierFor(booked[m].earned) /\ 0 <= booked[m].earned
  <2>1. booked[m].earned \in Nat
    BY DEF LoyaltyInv, LoyaltyTypeOK
  <2>. QED BY <2>1, TierForGrows DEF Tier
<1>4. PointsWereEarned'
  <2>. SUFFICES ASSUME NEW n \in Members, member'[n] # None
                PROVE  /\ member'[n].points <= booked[n].earned
                       /\ member'[n].lifetime <= booked[n].earned
                       /\ member'[n].tier <= TierFor(booked[n].earned)
    BY DEF PointsWereEarned, Join, TierFor
  <2>1. CASE n = m
    BY <1>3, <2>1 DEF Join, NewMember, LoyaltyInv, LoyaltyTypeOK
  <2>2. CASE n # m
    BY <2>2 DEF Join, LoyaltyInv, LoyaltyTypeOK, PointsWereEarned
  <2>. QED BY <2>1, <2>2
<1>5. ReadWithin'
  <2>1. \A n \in Members : member[n] # None => member'[n] # None
    BY DEF Join, LoyaltyInv, LoyaltyTypeOK
  <2>2. \A s \in Sessions : loyaltyReq[s].pc \in {"earn", "redeem"} => loyaltyReq[s].m \in Members
    BY LoyaltyReqKinds DEF LoyaltyInv, EarnReq, RedeemReq
  <2>. QED BY <2>1, <2>2 DEF Join, LoyaltyInv, ReadWithin, Within, TierFor
<1>. QED BY <1>2, <1>4, <1>5 DEF LoyaltyInv

LEMMA ReadForEarnLemma ==
    ASSUME LoyaltyInv, NEW s \in Sessions, NEW m \in Members, NEW points \in Earnings,
           ReadForEarn(s, m, points)
    PROVE  LoyaltyInv'
<1>. DEFINE x == [pc |-> "earn", m |-> m, read |-> member[m], points |-> points]
<1>1. x \in EarnReq /\ x \in AnyLoyaltyReq
  BY DEF LoyaltyInv, LoyaltyTypeOK, EarnReq, AnyLoyaltyReq
<1>2. x.read # None => member[x.m] # None /\ Within(x.read, booked[x.m].earned)
  BY MemberFacts
<1>3. loyaltyReq' \in [Sessions -> AnyLoyaltyReq] /\ ReadWithin'
  <2>1. booked' \in [Members -> [earned: Nat, spent: Nat]]
        /\ \A n \in Members : booked[n].earned <= booked'[n].earned
    BY DEF ReadForEarn, LoyaltyInv, LoyaltyTypeOK
  <2>. HIDE DEF x
  <2>2. loyaltyReq' = [loyaltyReq EXCEPT ![s] = x]
    BY DEF ReadForEarn, x
  <2>3. x.pc = "earn"
    BY DEF x
  <2>. QED BY <1>1, <1>2, <2>1, <2>2, <2>3, ReadWithinKept DEF ReadForEarn
<1>4. LoyaltyTypeOK' /\ PointsWereEarned'
  BY <1>3 DEF ReadForEarn, LoyaltyInv, LoyaltyTypeOK, PointsWereEarned, AnyLoyaltyReq, TierFor
<1>. QED BY <1>3, <1>4 DEF LoyaltyInv

\* Steps that only let a session go on: nothing but its request changes.
LEMMA LoyaltyRequestOnly ==
    ASSUME LoyaltyInv, NEW s \in Sessions, NEW x \in AnyLoyaltyReq,
           loyaltyReq' = [loyaltyReq EXCEPT ![s] = x],
           UNCHANGED <<member, booked, reward, vouchers, loyaltyRaced>>,
           x.pc # "earn",
           x.pc = "redeem" => x \in RedeemReq /\ member[x.m] # None /\ Within(x.read, booked[x.m].earned)
    PROVE  LoyaltyInv'
<1>1. booked' \in [Members -> [earned: Nat, spent: Nat]]
      /\ \A n \in Members : booked[n].earned <= booked'[n].earned
  BY DEF LoyaltyInv, LoyaltyTypeOK
<1>2. loyaltyReq' \in [Sessions -> AnyLoyaltyReq] /\ ReadWithin'
  BY <1>1, ReadWithinKept
<1>. QED BY <1>2 DEF LoyaltyInv, LoyaltyTypeOK, PointsWereEarned, AnyLoyaltyReq, TierFor

LEMMA ReadRewardLemma ==
    ASSUME LoyaltyInv, NEW s \in Sessions, NEW m \in Members, NEW r \in Rewards, ReadReward(s, m, r)
    PROVE  LoyaltyInv'
<1>. DEFINE x == [pc |-> "member", m |-> m, r |-> r, reward |-> reward[r]]
<1>1. x \in AnyLoyaltyReq
  BY DEF LoyaltyInv, LoyaltyTypeOK, MemberReq, AnyLoyaltyReq
<1>. QED BY <1>1, LoyaltyRequestOnly DEF ReadReward

LEMMA ReadMemberLemma ==
    ASSUME LoyaltyInv, NEW s \in Sessions, ReadMember(s) PROVE LoyaltyInv'
<1>. DEFINE q == loyaltyReq[s]
            x == [pc |-> "redeem", m |-> q.m, r |-> q.r, reward |-> q.reward,
                  read |-> member[q.m]]
<1>1. q.pc = "member" /\ q \in MemberReq
  BY LoyaltyReqKinds DEF ReadMember, LoyaltyInv
<1>2. Idle \in AnyLoyaltyReq /\ Idle.pc = "idle"
  BY DEF AnyLoyaltyReq, Idle
<1>3. CASE Redeemable(member[q.m], q.reward)
  <2>1. member[q.m] # None /\ q.m \in Members
    BY <1>1, <1>3 DEF Redeemable, MemberReq
  <2>2. member[q.m] \in Member /\ Within(member[q.m], booked[q.m].earned)
    BY <2>1, MemberFacts
  <2>3. x \in RedeemReq /\ x \in AnyLoyaltyReq
    BY <1>1, <2>2 DEF MemberReq, RedeemReq, AnyLoyaltyReq
  <2>. QED BY <1>3, <2>1, <2>2, <2>3, LoyaltyRequestOnly DEF ReadMember
<1>4. CASE ~Redeemable(member[q.m], q.reward)
  BY <1>2, <1>4, LoyaltyRequestOnly DEF ReadMember
<1>. QED BY <1>3, <1>4

LEMMA CommitEarnLemma ==
    ASSUME LoyaltyInv, NEW s \in Sessions, CommitEarn(s) PROVE LoyaltyInv'
<1>. DEFINE q == loyaltyReq[s]
            before == IF q.read = None THEN NewMember ELSE q.read
<1>1. /\ q \in EarnReq /\ q.m \in Members /\ q.points \in Earnings /\ q.points \in Nat
      /\ q.read \in Member \cup {None}
  BY LoyaltyReqKinds, LoyaltyAssumption DEF CommitEarn, LoyaltyInv, EarnReq
<1>2. Idle \in AnyLoyaltyReq /\ Idle.pc = "idle" /\ loyaltyReq' = [loyaltyReq EXCEPT ![s] = Idle]
  BY DEF AnyLoyaltyReq, Idle, CommitEarn
<1>3. CASE UNCHANGED <<member, booked, loyaltyRaced>>
  BY <1>2, <1>3, LoyaltyRequestOnly DEF CommitEarn
<1>4. CASE /\ q.read = None => member[q.m] = None
           /\ member' = [member EXCEPT ![q.m] =
                IF q.read = None THEN Earned(before, q.points)
                                 ELSE Flush(member[q.m], before, Earned(before, q.points))]
           /\ booked' = [booked EXCEPT ![q.m].earned = @ + q.points]
           /\ loyaltyRaced' = IF Changed(member[q.m], q.read) THEN loyaltyRaced \cup {q.m}
                                                              ELSE loyaltyRaced
  <2>. DEFINE e == booked[q.m].earned
              new == IF q.read = None THEN Earned(before, q.points)
                     ELSE Flush(member[q.m], before, Earned(before, q.points))
  <2>1. e \in Nat
    BY <1>1 DEF LoyaltyInv, LoyaltyTypeOK
  <2>2. before \in Member /\ before.points <= e /\ before.lifetime <= e /\ before.tier <= TierFor(e)
    <3>1. CASE q.read = None
      BY <2>1, <3>1, TierForGrows DEF NewMember, Member, Tier
    <3>2. CASE q.read # None
      BY <1>1, <3>2 DEF CommitEarn, LoyaltyInv, ReadWithin, Within
    <3>. QED BY <3>1, <3>2
  <2>3. /\ Earned(before, q.points) \in Member
        /\ Earned(before, q.points).points <= e + q.points
        /\ Earned(before, q.points).lifetime <= e + q.points
        /\ Earned(before, q.points).tier <= TierFor(e + q.points)
    BY <1>1, <2>1, <2>2, EarnedWithin
  <2>4. booked' \in [Members -> [earned: Nat, spent: Nat]]
        /\ booked'[q.m].earned = e + q.points
        /\ \A n \in Members : n # q.m => booked'[n] = booked[n]
    BY <1>1, <1>4 DEF LoyaltyInv, LoyaltyTypeOK
  <2>5. /\ new \in Member /\ new.points <= e + q.points /\ new.lifetime <= e + q.points
        /\ new.tier <= TierFor(e + q.points)
    <3>1. CASE q.read = None
      BY <2>3, <3>1
    <3>2. CASE q.read # None
      <4>1. member[q.m] # None
        BY <3>2, <1>1 DEF CommitEarn, LoyaltyInv, ReadWithin
      <4>2. /\ member[q.m] \in Member /\ member[q.m].points <= e /\ member[q.m].lifetime <= e
            /\ member[q.m].tier <= TierFor(e)
        BY <1>1, <4>1, MemberFacts DEF Within
      <4>3. TierFor(e) <= TierFor(e + q.points) /\ TierFor(e) \in Tier /\ TierFor(e + q.points) \in Tier
        BY <1>1, <2>1, TierForGrows
      <4>4. /\ new \in Member
            /\ new.points \in {member[q.m].points, Earned(before, q.points).points}
            /\ new.lifetime \in {member[q.m].lifetime, Earned(before, q.points).lifetime}
            /\ new.tier \in {member[q.m].tier, Earned(before, q.points).tier}
        BY <2>2, <2>3, <3>2, <4>2, FlushMember
      <4>5. /\ member[q.m].points <= e + q.points /\ member[q.m].lifetime <= e + q.points
            /\ member[q.m].tier <= TierFor(e + q.points)
        <5>1. member[q.m].points \in Int /\ member[q.m].lifetime \in Nat /\ member[q.m].tier \in Int
          BY <4>2 DEF Member, Tier
        <5>. QED BY <5>1, <1>1, <2>1, <4>2, <4>3 DEF Tier
      <4>. QED BY <2>3, <4>4, <4>5
    <3>. QED BY <3>1, <3>2
  <2>. HIDE DEF new, e
  <2>6. member' = [member EXCEPT ![q.m] = new]
    BY <1>4 DEF new
  <2>7. PointsWereEarned'
    <3>. SUFFICES ASSUME NEW n \in Members, member'[n] # None
                  PROVE  /\ member'[n].points <= booked'[n].earned
                         /\ member'[n].lifetime <= booked'[n].earned
                         /\ member'[n].tier <= TierFor(booked'[n].earned)
      BY DEF PointsWereEarned, TierFor
    <3>1. CASE n = q.m
      BY <1>1, <2>4, <2>5, <2>6, <3>1 DEF LoyaltyInv, LoyaltyTypeOK
    <3>2. CASE n # q.m
      BY <1>1, <2>4, <2>6, <3>2 DEF LoyaltyInv, LoyaltyTypeOK, PointsWereEarned
    <3>. QED BY <3>1, <3>2
  <2>8. loyaltyReq' \in [Sessions -> AnyLoyaltyReq] /\ ReadWithin'
    <3>1. \A n \in Members : booked[n].earned <= booked'[n].earned
      BY <1>1, <2>1, <2>4 DEF LoyaltyInv, LoyaltyTypeOK, e
    <3>2. \A n \in Members : member[n] # None => member'[n] # None
      <4>1. CASE q.read = None
        BY <1>1, <1>4, <2>6, <4>1 DEF LoyaltyInv, LoyaltyTypeOK
      <4>2. CASE q.read # None
        BY <1>1, <2>5, <2>6, NoRowAssumption DEF LoyaltyInv, LoyaltyTypeOK
      <4>. QED BY <4>1, <4>2
    <3>. QED BY <1>2, <2>4, <3>1, <3>2, ReadWithinKept
  <2>9. LoyaltyTypeOK'
    <3>1. member' \in [Members -> Member \cup {None}]
      BY <1>1, <2>5, <2>6 DEF LoyaltyInv, LoyaltyTypeOK
    <3>2. loyaltyRaced' \subseteq Members \cup Rewards
      BY <1>1, <1>4 DEF LoyaltyInv, LoyaltyTypeOK
    <3>. QED BY <2>4, <2>8, <3>1, <3>2 DEF LoyaltyInv, LoyaltyTypeOK, AnyLoyaltyReq, CommitEarn
  <2>. QED BY <2>7, <2>8, <2>9 DEF LoyaltyInv
<1>. QED BY <1>3, <1>4 DEF CommitEarn

LEMMA CommitRedeemLemma ==
    ASSUME LoyaltyInv, NEW s \in Sessions, CommitRedeem(s) PROVE LoyaltyInv'
<1>. DEFINE q == loyaltyReq[s]
            e == booked[q.m].earned
            obj == [q.read EXCEPT !.points = @ - q.reward.cost]
            new == Flush(member[q.m], q.read, obj)
<1>1. /\ q \in RedeemReq /\ q.m \in Members /\ q.r \in Rewards /\ q.read \in Member
      /\ q.reward \in Reward /\ q.reward.cost \in Nat
  BY LoyaltyReqKinds, LoyaltyAssumption DEF CommitRedeem, LoyaltyInv, RedeemReq, Reward
<1>2. Idle \in AnyLoyaltyReq /\ Idle.pc = "idle" /\ loyaltyReq' = [loyaltyReq EXCEPT ![s] = Idle]
  BY DEF AnyLoyaltyReq, Idle, CommitRedeem
<1>3. member[q.m] # None /\ Within(q.read, e)
  BY DEF CommitRedeem, LoyaltyInv, ReadWithin
<1>4. member[q.m] \in Member /\ Within(member[q.m], e)
  BY <1>1, <1>3, MemberFacts
<1>5. e \in Nat
  BY <1>1 DEF LoyaltyInv, LoyaltyTypeOK
\* What was spent is less than what was read, and that was earned.
<1>6. obj \in Member /\ Within(obj, e)
  <2>1. obj = [tier |-> q.read.tier, points |-> q.read.points - q.reward.cost,
               lifetime |-> q.read.lifetime, cashback |-> q.read.cashback]
    BY <1>1 DEF Member
  <2>2. q.read.points \in Int /\ q.read.points - q.reward.cost <= q.read.points
    BY <1>1 DEF Member
  <2>. QED BY <1>1, <1>3, <1>5, <2>1, <2>2 DEF Within, Member
<1>7. new \in Member /\ Within(new, e)
  <2>1. /\ new \in Member /\ new.points \in {member[q.m].points, obj.points}
        /\ new.lifetime \in {member[q.m].lifetime, obj.lifetime}
        /\ new.tier \in {member[q.m].tier, obj.tier}
    BY <1>1, <1>4, <1>6, FlushMember
  <2>. QED BY <1>4, <1>6, <2>1 DEF Within
<1>. HIDE DEF e, obj, new
<1>8. member' = [member EXCEPT ![q.m] = new]
  BY DEF CommitRedeem, new, obj
<1>9. /\ booked' \in [Members -> [earned: Nat, spent: Nat]]
      /\ \A n \in Members : booked'[n].earned = booked[n].earned
  <2>1. \A b \in [earned: Nat, spent: Nat] :
           /\ BookSpent(b, q.reward.cost) \in [earned: Nat, spent: Nat]
           /\ BookSpent(b, q.reward.cost).earned = b.earned
    BY <1>1 DEF BookSpent
  <2>. QED BY <1>1, <2>1 DEF CommitRedeem, LoyaltyInv, LoyaltyTypeOK
<1>10. reward' \in [Rewards -> Reward]
  <2>1. TakeUnit(q.reward) \in Reward
    BY <1>1 DEF TakeUnit, Reward
  <2>2. Flush(reward[q.r], q.reward, TakeUnit(q.reward)) \in Reward
    BY <1>1, <2>1, FlushReward DEF LoyaltyInv, LoyaltyTypeOK
  <2>. QED BY <1>1, <2>2 DEF CommitRedeem, LoyaltyInv, LoyaltyTypeOK
<1>11. loyaltyReq' \in [Sessions -> AnyLoyaltyReq] /\ ReadWithin'
  <2>1. \A n \in Members : booked[n].earned <= booked'[n].earned
    BY <1>9 DEF LoyaltyInv, LoyaltyTypeOK
  <2>2. \A n \in Members : member[n] # None => member'[n] # None
    BY <1>1, <1>7, <1>8, NoRowAssumption DEF LoyaltyInv, LoyaltyTypeOK
  <2>. QED BY <1>2, <1>9, <2>1, <2>2, ReadWithinKept
<1>12. PointsWereEarned'
  <2>. SUFFICES ASSUME NEW n \in Members, member'[n] # None
                PROVE  Within(member'[n], booked[n].earned)
    BY <1>9 DEF PointsWereEarned, Within
  <2>1. CASE n = q.m
    BY <1>1, <1>7, <1>8, <2>1 DEF LoyaltyInv, LoyaltyTypeOK, e
  <2>2. CASE n # q.m
    BY <1>1, <1>8, <2>2, MemberFacts DEF LoyaltyInv, LoyaltyTypeOK
  <2>. QED BY <2>1, <2>2
<1>13. LoyaltyTypeOK'
  <2>1. member' \in [Members -> Member \cup {None}]
    BY <1>1, <1>7, <1>8 DEF LoyaltyInv, LoyaltyTypeOK
  <2>2. vouchers' \in [Rewards -> Nat] /\ loyaltyRaced' \subseteq Members \cup Rewards
    BY <1>1 DEF CommitRedeem, LoyaltyInv, LoyaltyTypeOK
  <2>. QED BY <1>9, <1>10, <1>11, <2>1, <2>2 DEF LoyaltyTypeOK, AnyLoyaltyReq
<1>. QED BY <1>11, <1>12, <1>13 DEF LoyaltyInv

LEMMA LoyaltyNextLemma ==
    ASSUME LoyaltyInv, [LoyaltyNext]_loyaltyVars PROVE LoyaltyInv'
<1>1. CASE LoyaltyNext
  BY <1>1, JoinLemma, ReadForEarnLemma, ReadRewardLemma, ReadMemberLemma, CommitEarnLemma,
     CommitRedeemLemma DEF LoyaltyNext
<1>2. CASE UNCHANGED loyaltyVars
  BY <1>2 DEF loyaltyVars, LoyaltyInv, LoyaltyTypeOK, PointsWereEarned, ReadWithin, Within, TierFor
<1>. QED BY <1>1, <1>2

THEOREM LoyaltyInvariance == LoyaltySpec => []LoyaltyInv
<1>1. LoyaltyInit => LoyaltyInv
  BY LoyaltyInitLemma
<1>2. LoyaltyInv /\ [LoyaltyNext]_loyaltyVars => LoyaltyInv'
  BY LoyaltyNextLemma
<1>. QED BY <1>1, <1>2, PTL DEF LoyaltySpec

-----------------------------------------------------------------------------
(* Balances and books *)

\* Sessions hold what covers the request they go on with.
ReadCovers ==
    \A s \in Sessions :
        /\ loyaltyReq[s].pc = "earn" /\ loyaltyReq[s].read # None => loyaltyReq[s].read.points >= 0
        /\ loyaltyReq[s].pc = "redeem" =>
             /\ loyaltyReq[s].read.points >= loyaltyReq[s].reward.cost
             /\ loyaltyReq[s].reward.stock # None => loyaltyReq[s].reward.stock > 0

\* Nothing is booked for somebody who is no member.
NothingBookedBefore ==
    \A m \in Members : member[m] = None => booked[m].earned = 0 /\ booked[m].spent = 0

LoyaltyBooks == LoyaltyInv /\ NothingOverdrawn /\ BooksBalance /\ ReadCovers /\ NothingBookedBefore

\* A row that was not read again, with the books it was saved with.
Balanced(row, book) ==
    /\ row.points = book.earned - book.spent
    /\ row.lifetime = book.earned
    /\ row.tier = TierFor(row.lifetime)

\* A session that covers its request, in place of another, keeps ReadCovers.
LEMMA ReadCoversKept ==
    ASSUME LoyaltyBooks, NEW s \in Sessions, NEW x,
           loyaltyReq' = [loyaltyReq EXCEPT ![s] = x],
           x.pc = "earn" /\ x.read # None => x.read.points >= 0,
           x.pc = "redeem" => /\ x.read.points >= x.reward.cost
                              /\ x.reward.stock # None => x.reward.stock > 0
    PROVE  ReadCovers'
<1>. SUFFICES ASSUME NEW g \in Sessions
              PROVE  /\ loyaltyReq'[g].pc = "earn" /\ loyaltyReq'[g].read # None
                          => loyaltyReq'[g].read.points >= 0
                     /\ loyaltyReq'[g].pc = "redeem" =>
                          /\ loyaltyReq'[g].read.points >= loyaltyReq'[g].reward.cost
                          /\ loyaltyReq'[g].reward.stock # None => loyaltyReq'[g].reward.stock > 0
  BY DEF ReadCovers
<1>1. loyaltyReq'[g] = IF g = s THEN x ELSE loyaltyReq[g]
  BY DEF LoyaltyBooks, LoyaltyInv, LoyaltyTypeOK
<1>2. CASE g = s
  BY <1>1, <1>2
<1>3. CASE g # s
  BY <1>1, <1>3 DEF LoyaltyBooks, ReadCovers
<1>. QED BY <1>2, <1>3

\* Steps that change no row keep all that is said of rows.
LEMMA RowsKept ==
    ASSUME LoyaltyBooks, LoyaltyInv', ReadCovers', UNCHANGED <<member, booked, reward, loyaltyRaced>>
    PROVE  LoyaltyBooks'
  BY DEF LoyaltyBooks, NothingOverdrawn, BooksBalance, NothingBookedBefore, TierFor

LEMMA BooksInit == LoyaltyInit => LoyaltyBooks
<1>. SUFFICES ASSUME LoyaltyInit PROVE LoyaltyBooks
  OBVIOUS
<1>1. ReadCovers /\ BooksBalance /\ NothingBookedBefore
  BY DEF LoyaltyInit, Idle, ReadCovers, BooksBalance, NothingBookedBefore
<1>2. NothingOverdrawn
  <2>1. \A m \in Members : member[m] = None
    BY DEF LoyaltyInit
  <2>2. \A r \in Rewards : reward[r].stock \in Nat \cup {None}
    BY LoyaltyAssumption DEF LoyaltyInit
  <2>. QED BY <2>1, <2>2 DEF NothingOverdrawn
<1>. QED BY <1>1, <1>2, LoyaltyInitLemma DEF LoyaltyBooks

LEMMA BooksJoin ==
    ASSUME LoyaltyBooks, NEW m \in Members, Join(m) PROVE LoyaltyBooks'
<1>1. LoyaltyInv'
  BY JoinLemma DEF LoyaltyBooks
<1>2. ReadCovers'
  BY DEF LoyaltyBooks, Join, ReadCovers
<1>3. TierFor(0) = 1
  BY LoyaltyAssumption DEF TierFor
<1>4. \A n \in Members : member'[n] = IF n = m THEN NewMember ELSE member[n]
  BY DEF Join, LoyaltyBooks, LoyaltyInv, LoyaltyTypeOK
<1>5. booked[m].earned = 0 /\ booked[m].spent = 0
  BY DEF LoyaltyBooks, NothingBookedBefore, Join
<1>6. NothingOverdrawn' /\ NothingBookedBefore'
  BY <1>4, NoRowAssumption DEF LoyaltyBooks, NothingOverdrawn, NothingBookedBefore, Join, NewMember, Member, Tier
<1>7. BooksBalance'
  <2>. SUFFICES ASSUME NEW n \in Members \ loyaltyRaced, member'[n] # None
                PROVE  Balanced(member'[n], booked[n])
    BY DEF BooksBalance, Balanced, Join, TierFor
  <2>1. CASE n = m
    BY <1>3, <1>4, <1>5, <2>1 DEF Balanced, NewMember
  <2>2. CASE n # m
    BY <1>4, <2>2 DEF LoyaltyBooks, BooksBalance, Balanced
  <2>. QED BY <2>1, <2>2
<1>. QED BY <1>1, <1>2, <1>6, <1>7 DEF LoyaltyBooks

LEMMA BooksReadForEarn ==
    ASSUME LoyaltyBooks, NEW s \in Sessions, NEW m \in Members, NEW points \in Earnings,
           ReadForEarn(s, m, points)
    PROVE  LoyaltyBooks'
<1>. DEFINE x == [pc |-> "earn", m |-> m, read |-> member[m], points |-> points]
<1>1. LoyaltyInv'
  BY ReadForEarnLemma DEF LoyaltyBooks
<1>2. x.read # None => x.read.points >= 0
  BY DEF LoyaltyBooks, NothingOverdrawn
<1>3. x.pc # "redeem"
  OBVIOUS
<1>. HIDE DEF x
<1>4. loyaltyReq' = [loyaltyReq EXCEPT ![s] = x]
  BY DEF ReadForEarn, x
<1>5. ReadCovers'
  BY <1>2, <1>3, <1>4, ReadCoversKept
<1>. QED BY <1>1, <1>5, RowsKept DEF ReadForEarn

LEMMA BooksReadReward ==
    ASSUME LoyaltyBooks, NEW s \in Sessions, NEW m \in Members, NEW r \in Rewards, ReadReward(s, m, r)
    PROVE  LoyaltyBooks'
<1>. DEFINE x == [pc |-> "member", m |-> m, r |-> r, reward |-> reward[r]]
<1>1. LoyaltyInv'
  BY ReadRewardLemma DEF LoyaltyBooks
<1>2. x.pc # "earn" /\ x.pc # "redeem"
  OBVIOUS
<1>. HIDE DEF x
<1>3. loyaltyReq' = [loyaltyReq EXCEPT ![s] = x]
  BY DEF ReadReward, x
<1>4. ReadCovers'
  BY <1>2, <1>3, ReadCoversKept
<1>. QED BY <1>1, <1>4, RowsKept DEF ReadReward

LEMMA BooksReadMember ==
    ASSUME LoyaltyBooks, NEW s \in Sessions, ReadMember(s) PROVE LoyaltyBooks'
<1>. DEFINE q == loyaltyReq[s]
            x == [pc |-> "redeem", m |-> q.m, r |-> q.r, reward |-> q.reward,
                  read |-> member[q.m]]
<1>1. LoyaltyInv'
  BY ReadMemberLemma DEF LoyaltyBooks
<1>2. q.pc = "member" /\ q \in MemberReq
  BY LoyaltyReqKinds DEF ReadMember, LoyaltyBooks, LoyaltyInv
<1>3. Idle.pc # "earn" /\ Idle.pc # "redeem"
  BY DEF Idle
<1>4. ReadCovers'
  <2>1. CASE Redeemable(member[q.m], q.reward)
    <3>1. q.reward.stock \in Int \cup {None}
      BY <1>2 DEF MemberReq, Reward
    <3>2. x.read.points >= x.reward.cost /\ (x.reward.stock # None => x.reward.stock > 0)
      BY <2>1, <3>1 DEF Redeemable
    <3>3. x.pc # "earn"
      OBVIOUS
    <3>4. loyaltyReq' = [loyaltyReq EXCEPT ![s] = x]
      BY <2>1 DEF ReadMember
    <3>. HIDE DEF x
    <3>. QED BY <3>2, <3>3, <3>4, ReadCoversKept
  <2>2. CASE ~Redeemable(member[q.m], q.reward)
    BY <1>3, <2>2, ReadCoversKept DEF ReadMember
  <2>. QED BY <2>1, <2>2
<1>. QED BY <1>1, <1>4, RowsKept DEF ReadMember

\* A row that is what the session has read takes all columns of its object.
LEMMA FlushUnchanged ==
    ASSUME NEW row \in Member, NEW obj \in Member
    PROVE  Flush(row, row, obj) = obj
<1>1. DOMAIN row = {"tier", "points", "lifetime", "cashback"}
  BY DEF Member
<1>2. Flush(row, row, obj) =
        [tier |-> IF obj.tier # row.tier THEN obj.tier ELSE row.tier,
         points |-> IF obj.points # row.points THEN obj.points ELSE row.points,
         lifetime |-> IF obj.lifetime # row.lifetime THEN obj.lifetime ELSE row.lifetime,
         cashback |-> IF obj.cashback # row.cashback THEN obj.cashback ELSE row.cashback]
  BY <1>1 DEF Flush
<1>. QED BY <1>2 DEF Member

LEMMA BooksCommitEarn ==
    ASSUME LoyaltyBooks, NEW s \in Sessions, CommitEarn(s) PROVE LoyaltyBooks'
<1>. DEFINE q == loyaltyReq[s]
            before == IF q.read = None THEN NewMember ELSE q.read
<1>1. LoyaltyInv'
  BY CommitEarnLemma DEF LoyaltyBooks
<1>2. /\ q \in EarnReq /\ q.m \in Members /\ q.points \in Nat
      /\ q.read \in Member \cup {None}
  BY LoyaltyReqKinds, LoyaltyAssumption DEF CommitEarn, LoyaltyBooks, LoyaltyInv, EarnReq
<1>3. ReadCovers'
  BY ReadCoversKept DEF CommitEarn, Idle
<1>4. CASE UNCHANGED <<member, booked, loyaltyRaced>>
  BY <1>1, <1>3, <1>4, RowsKept DEF CommitEarn
<1>5. CASE /\ q.read = None => member[q.m] = None
           /\ member' = [member EXCEPT ![q.m] =
                IF q.read = None THEN Earned(before, q.points)
                                 ELSE Flush(member[q.m], before, Earned(before, q.points))]
           /\ booked' = [booked EXCEPT ![q.m].earned = @ + q.points]
           /\ loyaltyRaced' = IF Changed(member[q.m], q.read) THEN loyaltyRaced \cup {q.m}
                                                              ELSE loyaltyRaced
  <2>. DEFINE e == booked[q.m].earned
              sp == booked[q.m].spent
              obj == Earned(before, q.points)
              new == IF q.read = None THEN obj ELSE Flush(member[q.m], before, obj)
  <2>1. e \in Nat /\ sp \in Nat
    BY <1>2 DEF LoyaltyBooks, LoyaltyInv, LoyaltyTypeOK
  <2>2. before \in Member /\ before.points >= 0
    BY <1>2 DEF NewMember, Member, Tier, CommitEarn, LoyaltyBooks, ReadCovers
  <2>3. /\ obj \in Member
        /\ obj.points = before.points + q.points
        /\ obj.lifetime = before.lifetime + q.points
        /\ obj.tier = IF TierFor(before.lifetime + q.points) > before.tier
                      THEN TierFor(before.lifetime + q.points) ELSE before.tier
    BY <1>2, <2>2, EarnedColumns
  <2>4. obj.points >= 0
    BY <1>2, <2>2, <2>3 DEF Member
  <2>5. q.read # None => member[q.m] # None /\ member[q.m] \in Member /\ member[q.m].points >= 0
    BY <1>2 DEF CommitEarn, LoyaltyBooks, LoyaltyInv, ReadWithin, LoyaltyTypeOK, NothingOverdrawn
  <2>. HIDE DEF obj
  <2>6. new \in Member /\ new.points >= 0
    <3>1. CASE q.read = None
      BY <2>3, <2>4, <3>1
    <3>2. CASE q.read # None
      <4>1. new \in Member /\ new.points \in {member[q.m].points, obj.points}
        BY <2>2, <2>3, <2>5, <3>2, FlushMember
      <4>. QED BY <2>4, <2>5, <3>2, <4>1
    <3>. QED BY <3>1, <3>2
  <2>7. ~Changed(member[q.m], q.read) /\ q.m \notin loyaltyRaced =>
           new = obj /\ Balanced(before, booked[q.m])
    <3>. SUFFICES ASSUME member[q.m] = q.read, q.m \notin loyaltyRaced
                  PROVE  new = obj /\ Balanced(before, booked[q.m])
      BY DEF Changed
    <3>1. CASE q.read = None
      <4>1. e = 0 /\ sp = 0
        BY <1>2, <3>1 DEF LoyaltyBooks, NothingBookedBefore
      <4>2. TierFor(0) = 1
        BY LoyaltyAssumption DEF TierFor
      <4>. QED BY <3>1, <4>1, <4>2 DEF Balanced, NewMember
    <3>2. CASE q.read # None
      <4>1. new = obj
        BY <2>2, <2>3, <3>2, FlushUnchanged
      <4>2. Balanced(before, booked[q.m])
        BY <1>2, <3>2 DEF LoyaltyBooks, BooksBalance, Balanced
      <4>. QED BY <4>1, <4>2
    <3>. QED BY <3>1, <3>2
  <2>. HIDE DEF new, e, sp, before
  <2>8. /\ \A n \in Members : member'[n] = IF n = q.m THEN new ELSE member[n]
        /\ \A n \in Members : n # q.m => booked'[n] = booked[n]
        /\ booked'[q.m].earned = e + q.points /\ booked'[q.m].spent = sp
    BY <1>2, <1>5 DEF LoyaltyBooks, LoyaltyInv, LoyaltyTypeOK, new, obj, e, sp, before
  <2>9. NothingOverdrawn'
    BY <1>2, <2>6, <2>8 DEF LoyaltyBooks, NothingOverdrawn, CommitEarn
  <2>10. NothingBookedBefore'
    BY <1>2, <2>6, <2>8, NoRowAssumption DEF LoyaltyBooks, NothingBookedBefore
  <2>11. BooksBalance'
    <3>. SUFFICES ASSUME NEW n \in Members, n \notin loyaltyRaced', member'[n] # None
                  PROVE  Balanced(member'[n], booked'[n])
      BY DEF BooksBalance, Balanced, TierFor
    <3>1. CASE n = q.m
      <4>1. new = obj /\ Balanced(before, booked[q.m])
        BY <1>5, <2>7, <3>1
      <4>2. /\ before.points \in Int /\ before.lifetime = e /\ before.points = e - sp
            /\ before.tier = TierFor(e)
        BY <2>2, <4>1 DEF Balanced, Member, e, sp
      <4>3. /\ TierFor(e) \in Tier /\ TierFor(e + q.points) \in Tier
            /\ TierFor(e) <= TierFor(e + q.points)
        BY <1>2, <2>1, TierForGrows
      <4>4. /\ new.points = e - sp + q.points /\ new.lifetime = e + q.points
            /\ new.tier = TierFor(e + q.points)
        BY <2>3, <4>1, <4>2, <4>3 DEF Tier
      <4>. QED BY <1>2, <2>1, <2>8, <3>1, <4>4 DEF Balanced
    <3>2. CASE n # q.m
      BY <1>5, <2>8, <3>2 DEF LoyaltyBooks, BooksBalance, Balanced
    <3>. QED BY <3>1, <3>2
  <2>. QED BY <1>1, <1>3, <2>9, <2>10, <2>11 DEF LoyaltyBooks
<1>. QED BY <1>4, <1>5 DEF CommitEarn

LEMMA BooksCommitRedeem ==
    ASSUME LoyaltyBooks, NEW s \in Sessions, CommitRedeem(s) PROVE LoyaltyBooks'
<1>. DEFINE q == loyaltyReq[s]
            obj == [q.read EXCEPT !.points = @ - q.reward.cost]
            new == Flush(member[q.m], q.read, obj)
            unit == Flush(reward[q.r], q.reward, TakeUnit(q.reward))
<1>1. LoyaltyInv'
  BY CommitRedeemLemma DEF LoyaltyBooks
<1>2. /\ q \in RedeemReq /\ q.m \in Members /\ q.r \in Rewards /\ q.read \in Member
      /\ q.reward \in Reward /\ q.reward.cost \in Nat
  BY LoyaltyReqKinds, LoyaltyAssumption DEF CommitRedeem, LoyaltyBooks, LoyaltyInv, RedeemReq, Reward
<1>3. /\ q.read.points >= q.reward.cost
      /\ q.reward.stock # None => q.reward.stock > 0
  BY DEF CommitRedeem, LoyaltyBooks, ReadCovers
<1>4. ReadCovers'
  BY ReadCoversKept DEF CommitRedeem, Idle
<1>5. member[q.m] \in Member /\ member[q.m].points >= 0 /\ member[q.m] # None
  BY <1>2, MemberFacts DEF CommitRedeem, LoyaltyBooks, LoyaltyInv, ReadWithin, NothingOverdrawn
<1>6. /\ obj \in Member /\ obj.points = q.read.points - q.reward.cost /\ obj.points >= 0
      /\ obj.lifetime = q.read.lifetime /\ obj.tier = q.read.tier
  <2>1. obj = [tier |-> q.read.tier, points |-> q.read.points - q.reward.cost,
               lifetime |-> q.read.lifetime, cashback |-> q.read.cashback]
    BY <1>2 DEF Member
  <2>2. q.read.points \in Int
    BY <1>2 DEF Member
  <2>. QED BY <1>2, <1>3, <2>1, <2>2 DEF Member
<1>. HIDE DEF obj
<1>7. new \in Member /\ new.points >= 0
  <2>1. new \in Member /\ new.points \in {member[q.m].points, obj.points}
    BY <1>2, <1>5, <1>6, FlushMember
  <2>. QED BY <1>5, <1>6, <2>1
<1>8. unit.stock # None => unit.stock >= 0
  <2>1. /\ reward[q.r] \in Reward
        /\ reward[q.r].stock # None => reward[q.r].stock >= 0
    BY <1>2 DEF LoyaltyBooks, LoyaltyInv, LoyaltyTypeOK, NothingOverdrawn
  <2>2. DOMAIN reward[q.r] = {"cost", "minTier", "stock", "active"}
    BY <2>1 DEF Reward
  <2>3. unit.stock \in {reward[q.r].stock, TakeUnit(q.reward).stock}
    BY <2>2 DEF Flush
  <2>4. TakeUnit(q.reward).stock # None => TakeUnit(q.reward).stock >= 0
    BY <1>2, <1>3 DEF TakeUnit, Reward
  <2>. QED BY <2>1, <2>3, <2>4
<1>9. ~Changed(member[q.m], q.read) => new = obj
  BY <1>2, <1>6, FlushUnchanged DEF Changed
<1>. HIDE DEF new, unit
<1>10. /\ \A n \in Members : member'[n] = IF n = q.m THEN new ELSE member[n]
       /\ \A n \in Members : n # q.m => booked'[n] = booked[n]
       /\ booked'[q.m].earned = booked[q.m].earned
       /\ booked'[q.m].spent = booked[q.m].spent + q.reward.cost
       /\ \A r \in Rewards : reward'[r] = IF r = q.r THEN unit ELSE reward[r]
  BY <1>2 DEF CommitRedeem, LoyaltyBooks, LoyaltyInv, LoyaltyTypeOK, BookSpent, new, obj, unit
<1>11. NothingOverdrawn'
  BY <1>2, <1>7, <1>8, <1>10 DEF LoyaltyBooks, NothingOverdrawn
<1>12. NothingBookedBefore'
  BY <1>2, <1>7, <1>10, NoRowAssumption DEF LoyaltyBooks, NothingBookedBefore
<1>13. BooksBalance'
  <2>. SUFFICES ASSUME NEW n \in Members, n \notin loyaltyRaced', member'[n] # None
                PROVE  Balanced(member'[n], booked'[n])
    BY DEF BooksBalance, Balanced, TierFor
  <2>1. CASE n = q.m
    <3>1. new = obj /\ q.read = member[q.m] /\ q.m \notin loyaltyRaced
      BY <1>9, <2>1 DEF CommitRedeem, Changed
    <3>2. Balanced(q.read, booked[q.m])
      BY <1>2, <1>5, <3>1 DEF LoyaltyBooks, BooksBalance, Balanced
    <3>3. booked[q.m].earned \in Nat /\ booked[q.m].spent \in Nat
      BY <1>2 DEF LoyaltyBooks, LoyaltyInv, LoyaltyTypeOK
    <3>. QED BY <1>2, <1>6, <1>10, <2>1, <3>1, <3>2, <3>3 DEF Balanced
  <2>2. CASE n # q.m
    BY <1>10, <2>2 DEF CommitRedeem, LoyaltyBooks, BooksBalance, Balanced
  <2>. QED BY <2>1, <2>2
<1>. QED BY <1>1, <1>4, <1>11, <1>12, <1>13 DEF LoyaltyBooks

LEMMA BooksNext ==
    ASSUME LoyaltyBooks, [LoyaltyNext]_loyaltyVars PROVE LoyaltyBooks'
<1>1. CASE LoyaltyNext
  BY <1>1, BooksJoin, BooksReadForEarn, BooksReadReward, BooksReadMember, BooksCommitEarn,
     BooksCommitRedeem DEF LoyaltyNext
<1>2. CASE UNCHANGED loyaltyVars
  <2>1. LoyaltyInv'
    BY <1>2, LoyaltyNextLemma DEF LoyaltyBooks
  <2>2. ReadCovers'
    BY <1>2 DEF loyaltyVars, LoyaltyBooks, ReadCovers
  <2>. QED BY <1>2, <2>1, <2>2, RowsKept DEF loyaltyVars
<1>. QED BY <1>1, <1>2

THEOREM BooksInvariance == LoyaltySpec => []LoyaltyBooks
<1>1. LoyaltyInit => LoyaltyBooks
  BY BooksInit
<1>2. LoyaltyBooks /\ [LoyaltyNext]_loyaltyVars => LoyaltyBooks'
  BY BooksNext
<1>. QED BY <1>1, <1>2, PTL DEF LoyaltySpec

\* However orders and redemptions of any number of members overlap: points are only made
\* by EARN rows, nobody spends more than was there, and the books of members who were not
\* raced balance.
THEOREM LoyaltyIsSafe == LoyaltySpec => []LoyaltySafety
<1>1. LoyaltyBooks => LoyaltySafety
  BY DEF LoyaltyBooks, LoyaltyInv, LoyaltySafety
<1>. QED BY <1>1, BooksInvariance, PTL

-----------------------------------------------------------------------------
(* Disputes: answers, verdicts and one open dispute *)

HasAnswer(row, roles) ==
    /\ row.status \in {"SELLER_RESPONDED", "ESCALATED"} => row.answered
    /\ row.answered => "seller" \in roles
    /\ row.escalated => row.answered /\ "buyer" \in roles

OneVerdict(row) ==
    /\ row.status = "RESOLVED" <=> row.resolution \in Refunding
    /\ row.status = "REJECTED" <=> row.resolution = "REJECT"
    /\ row.approved # None => row.status \in ClosedStatus

\* What a handler is about to save was made of a row that may have changed since; but an
\* answer is never taken back, and who answers or escalates also writes the message.
DisputeSaves(q, rows) ==
    q.pc = "save" =>
        /\ rows[q.d] \in Dispute /\ q.obj.order = q.read.order
        /\ q.read.answered => rows[q.d].answered /\ q.obj.answered
        /\ q.obj.answered => q.read.answered \/ q.by = "seller"
        /\ q.obj.escalated => q.read.escalated \/ (q.by = "buyer" /\ q.read.answered)
        /\ q.obj.status \in {"SELLER_RESPONDED", "ESCALATED"} => q.obj.answered
        /\ OneVerdict(q.read) => OneVerdict(q.obj)
        /\ q.read.status \in ClosedStatus => q.obj.status \in ClosedStatus

\* An order for which a dispute is being opened has no open one, but for races.
OpeningsAlone ==
    \A o \in DisputeOrders \ disputeRaced :
        /\ \A s, t \in Opening(o) : s = t
        /\ Opening(o) # {} => OpenFor(o) \subseteq disputeRaced

DisputeInv ==
    /\ DisputeTypeOK
    /\ EscalatedWasAnswered /\ VerdictMatches /\ OneOpenPerOrder
    /\ \A s \in Sessions : DisputeSaves(disputeReq[s], dispute)
    /\ OpeningsAlone

ClosedStep ==
    \A d \in Disputes \ disputeRaced' :
        dispute[d] # None /\ dispute[d].status \in ClosedStatus
            => dispute'[d].status \in ClosedStatus

AnyDisputeReq == {Idle} \cup OpenReq \cup SaveDisputeReq

LEMMA DisputeFlush ==
    ASSUME NEW row \in Dispute, NEW read \in Dispute, NEW obj \in Dispute
    PROVE  LET new == Flush(row, read, obj)
           IN  /\ new \in Dispute
               /\ new.order = IF obj.order # read.order THEN obj.order ELSE row.order
               /\ new.status = IF obj.status # read.status THEN obj.status ELSE row.status
               /\ new.answered =
                    IF obj.answered # read.answered THEN obj.answered ELSE row.answered
               /\ new.escalated =
                    IF obj.escalated # read.escalated THEN obj.escalated ELSE row.escalated
               /\ row = read => new = obj
<1>1. DOMAIN row = {"order", "status", "resolution", "approved", "answered", "escalated"}
  BY DEF Dispute
<1>2. Flush(row, read, obj) =
        [order |-> IF obj.order # read.order THEN obj.order ELSE row.order,
         status |-> IF obj.status # read.status THEN obj.status ELSE row.status,
         resolution |-> IF obj.resolution # read.resolution THEN obj.resolution
                        ELSE row.resolution,
         approved |-> IF obj.approved # read.approved THEN obj.approved ELSE row.approved,
         answered |-> IF obj.answered # read.answered THEN obj.answered ELSE row.answered,
         escalated |-> IF obj.escalated # read.escalated THEN obj.escalated
                       ELSE row.escalated]
  BY <1>1 DEF Flush
<1>3. row = read => Flush(row, read, obj) = obj
  BY <1>2 DEF Dispute
<1>. QED BY <1>2, <1>3 DEF Dispute

LEMMA DisputeReqKinds ==
    ASSUME NEW q \in AnyDisputeReq
    PROVE  /\ q.pc = "open" => q \in OpenReq
           /\ q.pc = "save" => q \in SaveDisputeReq
  BY DEF AnyDisputeReq, OpenReq, SaveDisputeReq, Idle

LEMMA DisputeInitLemma == DisputeInit => DisputeInv
  BY DEF DisputeInit, DisputeInv, DisputeTypeOK, EscalatedWasAnswered, VerdictMatches,
         OneOpenPerOrder, DisputeSaves, OpeningsAlone, Opening, OpenFor, Idle, Role

\* A step that changes no row and opens nothing.
LEMMA DisputeRequestOnly ==
    ASSUME DisputeInv, NEW s \in Sessions, NEW q \in AnyDisputeReq, q.pc # "open",
           disputeReq' = [disputeReq EXCEPT ![s] = q], DisputeSaves(q, dispute),
           UNCHANGED <<dispute, said, disputeRaced>>
    PROVE  DisputeInv' /\ ClosedStep
<1>1. \A r \in Sessions : disputeReq'[r] = IF r = s THEN q ELSE disputeReq[r]
  BY DEF DisputeInv, DisputeTypeOK
<1>2. DisputeTypeOK'
  BY DEF DisputeInv, DisputeTypeOK, AnyDisputeReq
<1>3. \A r \in Sessions : DisputeSaves(disputeReq'[r], dispute')
  BY <1>1 DEF DisputeInv, DisputeSaves
<1>4. OpeningsAlone'
  BY <1>1 DEF DisputeInv, OpeningsAlone, Opening, OpenFor
<1>5. (EscalatedWasAnswered /\ VerdictMatches /\ OneOpenPerOrder)'
  BY DEF DisputeInv, EscalatedWasAnswered, VerdictMatches, OneOpenPerOrder, OpenFor
<1>. QED BY <1>2, <1>3, <1>4, <1>5 DEF DisputeInv, ClosedStep

\* A handler makes obj of the row it has loaded.
LEMMA LoadStep ==
    ASSUME DisputeInv, NEW s \in Sessions, NEW d \in Disputes, NEW obj \in Dispute,
           NEW by \in Role \cup {None}, Load(s, d, obj, by), dispute[d] \in Dispute,
           DisputeSaves([pc |-> "save", d |-> d, read |-> dispute[d], obj |-> obj,
                         by |-> by], dispute)
    PROVE  DisputeInv' /\ ClosedStep
<1>. DEFINE q == [pc |-> "save", d |-> d, read |-> dispute[d], obj |-> obj, by |-> by]
<1>1. q \in AnyDisputeReq /\ q.pc # "open"
  BY DEF AnyDisputeReq, SaveDisputeReq
<1>2. disputeReq' = [disputeReq EXCEPT ![s] = q] /\ UNCHANGED <<dispute, said, disputeRaced>>
  BY DEF Load
<1>. HIDE DEF q
<1>. QED BY <1>1, <1>2, DisputeRequestOnly DEF q

LEMMA HandlersDispute ==
    ASSUME DisputeInv, NEW s \in Sessions, NEW d \in Disputes,
           \/ Escalate(s, d)
           \/ \E accepts \in BOOLEAN : SellerResponse(s, d, accepts)
           \/ \E r \in Verdicts, a \in Refunds \cup {None} : AdminResolve(s, d, r, a)
    PROVE  DisputeInv' /\ ClosedStep
<1>1. PICK row \in Dispute : row = dispute[d]
  BY DEF DisputeInv, DisputeTypeOK, Escalate, SellerResponse, AdminResolve
<1>2. HasAnswer(row, said[d]) /\ dispute[d] # None
  BY <1>1 DEF DisputeInv, EscalatedWasAnswered, HasAnswer, Escalate, SellerResponse,
              AdminResolve
<1>3. ASSUME NEW obj \in Dispute, NEW by \in Role \cup {None}, Load(s, d, obj, by),
             obj.order = row.order, row.answered => obj.answered,
             obj.answered => row.answered \/ by = "seller",
             obj.escalated => row.escalated \/ (by = "buyer" /\ row.answered),
             obj.status \in {"SELLER_RESPONDED", "ESCALATED"} => obj.answered,
             OneVerdict(row) => OneVerdict(obj),
             row.status \in ClosedStatus => obj.status \in ClosedStatus
      PROVE  DisputeInv' /\ ClosedStep
  BY <1>1, <1>3, LoadStep DEF DisputeSaves
<1>4. CASE Escalate(s, d)
  <2>. DEFINE obj == [row EXCEPT !.escalated = TRUE, !.status = "ESCALATED"]
  <2>1. row.status = "SELLER_RESPONDED" /\ Load(s, d, obj, "buyer") /\ row.answered
    BY <1>1, <1>2, <1>4 DEF Escalate, HasAnswer
  <2>2. /\ obj \in Dispute /\ obj.order = row.order /\ obj.answered = row.answered
        /\ obj.status = "ESCALATED" /\ obj.resolution = row.resolution
        /\ obj.approved = row.approved
    BY DEF Dispute, OpenStatus
  <2>3. OneVerdict(row) => OneVerdict(obj)
    BY <2>1, <2>2 DEF OneVerdict, ClosedStatus
  <2>. HIDE DEF obj
  <2>. QED BY <1>3, <2>1, <2>2, <2>3 DEF ClosedStatus, Role
<1>5. ASSUME NEW accepts \in BOOLEAN, SellerResponse(s, d, accepts)
      PROVE  DisputeInv' /\ ClosedStep
  <2>. DEFINE yes == [row EXCEPT !.answered = TRUE, !.status = "RESOLVED",
                                 !.resolution = "FULL_REFUND", !.approved = "REQUESTED"]
              no == [row EXCEPT !.answered = TRUE, !.status = "SELLER_RESPONDED"]
  <2>1. row.status = "OPEN" /\ (Load(s, d, yes, "seller") \/ Load(s, d, no, "seller"))
    BY <1>1, <1>5 DEF SellerResponse
  <2>2. /\ yes \in Dispute /\ yes.order = row.order /\ yes.answered
        /\ yes.escalated = row.escalated /\ yes.status = "RESOLVED" /\ OneVerdict(yes)
    BY DEF Dispute, ClosedStatus, Resolution, Refunding, Amount, OneVerdict
  <2>3. /\ no \in Dispute /\ no.order = row.order /\ no.answered
        /\ no.escalated = row.escalated /\ no.status = "SELLER_RESPONDED"
        /\ no.resolution = row.resolution /\ no.approved = row.approved
    BY DEF Dispute, OpenStatus
  <2>4. OneVerdict(row) => OneVerdict(no)
    BY <2>1, <2>3 DEF OneVerdict, ClosedStatus
  <2>. HIDE DEF yes, no
  <2>5. CASE Load(s, d, yes, "seller")
    BY <1>3, <2>1, <2>2, <2>5 DEF ClosedStatus, Role
  <2>6. CASE Load(s, d, no, "seller")
    BY <1>3, <2>1, <2>3, <2>4, <2>6 DEF ClosedStatus, Role
  <2>. QED BY <2>1, <2>5, <2>6
<1>6. ASSUME NEW r \in Verdicts, NEW a \in Refunds \cup {None}, AdminResolve(s, d, r, a)
      PROVE  DisputeInv' /\ ClosedStep
  <2>. DEFINE st == IF r # "REJECT" THEN "RESOLVED" ELSE "REJECTED"
              obj == [row EXCEPT !.status = st, !.resolution = r, !.approved = a]
  <2>1. Load(s, d, obj, None)
    BY <1>1, <1>6 DEF AdminResolve
  <2>2. r \in Resolution /\ st \in ClosedStatus /\ a \in Amount
    BY DisputeAssumption DEF Resolution, Refunding, ClosedStatus, Amount
  <2>3. /\ obj \in Dispute /\ obj.order = row.order /\ obj.answered = row.answered
        /\ obj.escalated = row.escalated /\ obj.status = st /\ obj.resolution = r
    BY <2>2 DEF Dispute
  <2>4. OneVerdict(obj)
    BY <2>2, <2>3 DEF OneVerdict, Resolution, Refunding
  <2>5. st \notin {"SELLER_RESPONDED", "ESCALATED"}
    OBVIOUS
  <2>. HIDE DEF obj, st
  <2>. QED BY <1>3, <2>1, <2>2, <2>3, <2>4, <2>5
<1>. QED BY <1>4, <1>5, <1>6

LEMMA ReadOpenStep ==
    ASSUME DisputeInv, NEW s \in Sessions, NEW o \in DisputeOrders, ReadOpen(s, o)
    PROVE  DisputeInv' /\ ClosedStep
<1>. DEFINE q == [pc |-> "open", o |-> o]
<1>1. q \in AnyDisputeReq /\ q.pc = "open" /\ q.o = o
  BY DEF AnyDisputeReq, OpenReq
<1>2. /\ disputeReq' = [disputeReq EXCEPT ![s] = q] /\ UNCHANGED <<dispute, said>>
      /\ OpenFor(o) = {}
      /\ disputeRaced' = IF Opening(o) # {} THEN disputeRaced \cup {o} ELSE disputeRaced
  BY DEF ReadOpen
<1>3. \A r \in Sessions : disputeReq'[r] = IF r = s THEN q ELSE disputeReq[r]
  BY <1>2 DEF DisputeInv, DisputeTypeOK
<1>. HIDE DEF q
<1>4. DisputeTypeOK'
  BY <1>1, <1>2 DEF DisputeInv, DisputeTypeOK, AnyDisputeReq
<1>5. \A r \in Sessions : DisputeSaves(disputeReq'[r], dispute')
  BY <1>1, <1>2, <1>3 DEF DisputeInv, DisputeSaves
<1>6. OpeningsAlone'
  <2>. SUFFICES ASSUME NEW p \in DisputeOrders \ disputeRaced'
                PROVE  /\ \A r, t \in Opening(p)' : r = t
                       /\ Opening(p)' # {} => OpenFor(p)' \subseteq disputeRaced'
    BY DEF OpeningsAlone
  <2>1. p \notin disputeRaced /\ OpenFor(p)' = OpenFor(p)
    BY <1>2 DEF OpenFor
  <2>2. CASE p = o
    <3>1. Opening(o) = {}
      BY <1>2, <2>2
    <3>2. Opening(o)' \subseteq {s}
      BY <1>3, <3>1 DEF Opening
    <3>. QED BY <1>2, <2>1, <2>2, <3>2
  <2>3. CASE p # o
    <3>1. Opening(p)' \subseteq Opening(p)
      BY <1>1, <1>3, <2>3 DEF Opening
    <3>. QED BY <1>2, <2>1, <3>1 DEF DisputeInv, OpeningsAlone
  <2>. QED BY <2>2, <2>3
<1>7. (EscalatedWasAnswered /\ VerdictMatches /\ OneOpenPerOrder)'
  <2>1. OpenFor(o) = {} /\ disputeRaced \subseteq disputeRaced'
    BY <1>2
  <2>. QED BY <1>2, <2>1
       DEF DisputeInv, EscalatedWasAnswered, VerdictMatches, OneOpenPerOrder, OpenFor
<1>. QED BY <1>2, <1>4, <1>5, <1>6, <1>7 DEF DisputeInv, ClosedStep

LEMMA InsertDisputeStep ==
    ASSUME DisputeInv, NEW s \in Sessions, NEW d \in Disputes, InsertDispute(s, d)
    PROVE  DisputeInv' /\ ClosedStep
<1>. DEFINE o == disputeReq[s].o
            row == NewDispute(o)
<1>1. o \in DisputeOrders /\ s \in Opening(o)
  BY DisputeReqKinds
     DEF InsertDispute, DisputeInv, DisputeTypeOK, AnyDisputeReq, OpenReq, Opening
<1>2. /\ dispute[d] = None /\ dispute' = [dispute EXCEPT ![d] = row]
      /\ disputeReq' = [disputeReq EXCEPT ![s] = Idle] /\ UNCHANGED <<said, disputeRaced>>
  BY DEF InsertDispute
<1>3. /\ row \in Dispute /\ row.order = o /\ row.status = "OPEN" /\ row.answered = FALSE
      /\ row.escalated = FALSE /\ row.resolution = None /\ row.approved = None
  BY <1>1 DEF NewDispute, Dispute, OpenStatus, Amount
<1>. HIDE DEF row
<1>4. /\ \A e \in Disputes : dispute'[e] = IF e = d THEN row ELSE dispute[e]
      /\ \A r \in Sessions : disputeReq'[r] = IF r = s THEN Idle ELSE disputeReq[r]
  BY <1>2 DEF DisputeInv, DisputeTypeOK
<1>5. DisputeTypeOK'
  BY <1>2, <1>3 DEF DisputeInv, DisputeTypeOK
<1>6. \A r \in Sessions : DisputeSaves(disputeReq'[r], dispute')
  <2>. SUFFICES ASSUME NEW r \in Sessions, disputeReq'[r].pc = "save"
                PROVE  DisputeSaves(disputeReq'[r], dispute')
    BY DEF DisputeSaves
  <2>1. r # s /\ disputeReq'[r] = disputeReq[r] /\ DisputeSaves(disputeReq[r], dispute)
    BY <1>4 DEF DisputeInv, Idle
  <2>2. disputeReq[r].d \in Disputes
    BY <2>1, DisputeReqKinds DEF DisputeInv, DisputeTypeOK, AnyDisputeReq, SaveDisputeReq
  <2>3. disputeReq[r].d # d
    BY <1>2, <2>1, NoDisputeAssumption DEF DisputeSaves
  <2>. QED BY <1>4, <2>1, <2>2, <2>3 DEF DisputeSaves
<1>7. \A p \in DisputeOrders : Opening(p)' = Opening(p) \ {s}
  BY <1>4 DEF Opening, Idle
<1>8. \A p \in DisputeOrders : OpenFor(p)' \subseteq OpenFor(p) \cup (IF p = o THEN {d} ELSE {})
  BY <1>3, <1>4 DEF OpenFor
<1>9. OpeningsAlone'
  BY <1>1, <1>2, <1>7, <1>8 DEF DisputeInv, OpeningsAlone
<1>10. OneOpenPerOrder'
  BY <1>1, <1>2, <1>8 DEF DisputeInv, OneOpenPerOrder, OpeningsAlone
<1>11. EscalatedWasAnswered'
  BY <1>2, <1>3, <1>4 DEF DisputeInv, EscalatedWasAnswered
<1>12. VerdictMatches'
  <2>. SUFFICES ASSUME NEW e \in Disputes \ disputeRaced, dispute'[e] # None
                PROVE  OneVerdict(dispute'[e])
    BY <1>2 DEF VerdictMatches, OneVerdict
  <2>1. CASE e = d
    BY <1>3, <1>4, <2>1, NoDisputeAssumption DEF OneVerdict, Resolution
  <2>2. CASE e # d
    BY <1>4, <2>2 DEF DisputeInv, VerdictMatches, OneVerdict
  <2>. QED BY <2>1, <2>2
<1>13. ClosedStep
  BY <1>2, <1>4 DEF ClosedStep
<1>. QED BY <1>5, <1>6, <1>9, <1>10, <1>11, <1>12, <1>13 DEF DisputeInv

LEMMA SaveDisputeStep ==
    ASSUME DisputeInv, NEW s \in Sessions, SaveDispute(s)
    PROVE  DisputeInv' /\ ClosedStep
<1>1. PICK q \in SaveDisputeReq : q = disputeReq[s]
  BY DisputeReqKinds DEF SaveDispute, DisputeInv, DisputeTypeOK, AnyDisputeReq
<1>2. /\ q.d \in Disputes /\ q.read \in Dispute /\ q.obj \in Dispute
      /\ q.by \in Role \cup {None} /\ q.pc = "save"
  BY DEF SaveDisputeReq
<1>3. PICK row \in Dispute : row = dispute[q.d]
  BY <1>1, <1>2 DEF DisputeInv, DisputeSaves
<1>4. DisputeSaves(q, dispute)
  BY <1>1 DEF DisputeInv
<1>5. PICK new \in Dispute : new = Flush(row, q.read, q.obj)
  BY <1>2, DisputeFlush
<1>6. /\ new.order = row.order
      /\ new.status = IF q.obj.status # q.read.status THEN q.obj.status ELSE row.status
      /\ new.answered = IF q.obj.answered # q.read.answered THEN q.obj.answered
                        ELSE row.answered
      /\ new.escalated = IF q.obj.escalated # q.read.escalated THEN q.obj.escalated
                         ELSE row.escalated
      /\ row = q.read => new = q.obj
  BY <1>2, <1>3, <1>4, <1>5, DisputeFlush DEF DisputeSaves
<1>7. /\ dispute' = [dispute EXCEPT ![q.d] = new]
      /\ said' = [said EXCEPT ![q.d] = @ \cup ({q.by} \ {None})]
      /\ disputeRaced' = IF row # q.read THEN disputeRaced \cup {q.d} ELSE disputeRaced
      /\ disputeReq' = [disputeReq EXCEPT ![s] = Idle]
  BY <1>1, <1>3, <1>5 DEF SaveDispute, Changed
<1>8. /\ \A e \in Disputes : dispute'[e] = IF e = q.d THEN new ELSE dispute[e]
      /\ \A r \in Sessions : disputeReq'[r] = IF r = s THEN Idle ELSE disputeReq[r]
      /\ \A e \in Disputes : said'[e] = IF e = q.d THEN said[e] \cup ({q.by} \ {None})
                                       ELSE said[e]
      /\ disputeRaced \subseteq disputeRaced'
      /\ q.d \notin disputeRaced' => row = q.read /\ new = q.obj
  BY <1>6, <1>7 DEF DisputeInv, DisputeTypeOK
<1>9. DisputeTypeOK'
  BY <1>2, <1>7 DEF DisputeInv, DisputeTypeOK
<1>10. row.answered => new.answered
  BY <1>3, <1>4, <1>6, <1>2 DEF DisputeSaves, Dispute
<1>11. \A r \in Sessions : DisputeSaves(disputeReq'[r], dispute')
  <2>. SUFFICES ASSUME NEW r \in Sessions, disputeReq'[r].pc = "save"
                PROVE  DisputeSaves(disputeReq'[r], dispute')
    BY DEF DisputeSaves
  <2>1. r # s /\ disputeReq'[r] = disputeReq[r]
    BY <1>8 DEF Idle
  <2>2. disputeReq[r].d \in Disputes /\ DisputeSaves(disputeReq[r], dispute)
    BY <2>1, DisputeReqKinds
       DEF DisputeInv, DisputeTypeOK, AnyDisputeReq, SaveDisputeReq
  <2>. QED BY <1>3, <1>8, <1>10, <2>1, <2>2 DEF DisputeSaves
<1>12. HasAnswer(row, said[q.d])
  BY <1>2, <1>3, NoDisputeAssumption DEF DisputeInv, EscalatedWasAnswered, HasAnswer
<1>13. HasAnswer(new, said'[q.d])
  <2>1. said'[q.d] = said[q.d] \cup ({q.by} \ {None})
    BY <1>2, <1>8
  <2>2. /\ q.by = "seller" => "seller" \in said'[q.d]
        /\ q.by = "buyer" => "buyer" \in said'[q.d]
    BY <1>2, <2>1, NoDisputeAssumption DEF Role
  <2>3. new.status \in {"SELLER_RESPONDED", "ESCALATED"} => new.answered
    BY <1>2, <1>3, <1>4, <1>6, <1>10, <1>12 DEF DisputeSaves, HasAnswer, Dispute
  <2>4. new.answered => "seller" \in said'[q.d]
    BY <1>2, <1>3, <1>4, <1>6, <1>12, <2>1, <2>2 DEF DisputeSaves, HasAnswer, Dispute
  <2>5. new.escalated => new.answered /\ "buyer" \in said'[q.d]
    BY <1>2, <1>3, <1>4, <1>6, <1>10, <1>12, <2>1, <2>2
       DEF DisputeSaves, HasAnswer, Dispute
  <2>. QED BY <2>3, <2>4, <2>5 DEF HasAnswer
<1>14. EscalatedWasAnswered'
  BY <1>8, <1>13 DEF DisputeInv, EscalatedWasAnswered, HasAnswer
<1>15. VerdictMatches'
  <2>. SUFFICES ASSUME NEW e \in Disputes \ disputeRaced', dispute'[e] # None
                PROVE  OneVerdict(dispute'[e])
    BY DEF VerdictMatches, OneVerdict
  <2>1. CASE e = q.d
    <3>1. row = q.read /\ new = q.obj /\ dispute[q.d] # None /\ e \notin disputeRaced
      BY <1>3, <1>8, <2>1, NoDisputeAssumption
    <3>2. OneVerdict(row)
      BY <1>3, <2>1, <3>1 DEF DisputeInv, VerdictMatches, OneVerdict
    <3>. QED BY <1>2, <1>4, <1>8, <2>1, <3>1, <3>2 DEF DisputeSaves
  <2>2. CASE e # q.d
    BY <1>8, <2>2 DEF DisputeInv, VerdictMatches, OneVerdict
  <2>. QED BY <2>1, <2>2
<1>16. q.d \notin disputeRaced' /\ row.status \in ClosedStatus => new.status \in ClosedStatus
  BY <1>2, <1>4, <1>8 DEF DisputeSaves
<1>17. \A p \in DisputeOrders : OpenFor(p)' \subseteq OpenFor(p) \cup disputeRaced'
  <2>. SUFFICES ASSUME NEW p \in DisputeOrders, NEW e \in OpenFor(p)', e \notin disputeRaced'
                PROVE  e \in OpenFor(p)
    OBVIOUS
  <2>1. CASE e = q.d
    <3>1. new.order = p /\ new.status \in OpenStatus
      BY <1>8, <2>1 DEF OpenFor
    <3>2. row.status \in OpenStatus
      BY <1>16, <2>1, <3>1 DEF Dispute, OpenStatus, ClosedStatus
    <3>. QED BY <1>2, <1>3, <1>6, <2>1, <3>1, <3>2, NoDisputeAssumption DEF OpenFor
  <2>2. CASE e # q.d
    BY <1>8, <2>2 DEF OpenFor
  <2>. QED BY <2>1, <2>2
<1>18. \A p \in DisputeOrders : Opening(p)' \subseteq Opening(p)
  BY <1>8 DEF Opening, Idle
<1>19. OpeningsAlone'
  BY <1>8, <1>17, <1>18 DEF DisputeInv, OpeningsAlone
<1>20. OneOpenPerOrder'
  BY <1>8, <1>17 DEF DisputeInv, OneOpenPerOrder
<1>21. ClosedStep
  BY <1>3, <1>8, <1>16 DEF ClosedStep
<1>. QED BY <1>9, <1>11, <1>14, <1>15, <1>19, <1>20, <1>21 DEF DisputeInv

LEMMA AddMessageStep ==
    ASSUME DisputeInv, NEW d \in Disputes, NEW role \in Posters, AddMessage(d, role)
    PROVE  DisputeInv' /\ ClosedStep
<1>1. /\ said' = [said EXCEPT ![d] = @ \cup {role}] /\ role \in Role
      /\ UNCHANGED <<dispute, disputeReq, disputeRaced>>
  BY DisputeAssumption DEF AddMessage, Role
<1>2. \A e \in Disputes : said[e] \subseteq said'[e]
  BY <1>1 DEF DisputeInv, DisputeTypeOK
<1>3. DisputeTypeOK'
  BY <1>1 DEF DisputeInv, DisputeTypeOK
<1>4. EscalatedWasAnswered'
  BY <1>1, <1>2 DEF DisputeInv, EscalatedWasAnswered
<1>5. (VerdictMatches /\ OneOpenPerOrder /\ OpeningsAlone)'
  BY <1>1 DEF DisputeInv, VerdictMatches, OneOpenPerOrder, OpeningsAlone, OpenFor, Opening
<1>6. \A s \in Sessions : DisputeSaves(disputeReq'[s], dispute')
  BY <1>1 DEF DisputeInv, DisputeSaves
<1>. QED BY <1>1, <1>3, <1>4, <1>5, <1>6 DEF DisputeInv, ClosedStep

LEMMA DisputeStutter ==
    ASSUME DisputeInv, UNCHANGED disputeVars
    PROVE  DisputeInv' /\ ClosedStep
<1>1. UNCHANGED <<dispute, said, disputeReq, disputeRaced>>
  BY DEF disputeVars
<1>2. (VerdictMatches /\ OneOpenPerOrder /\ OpeningsAlone)'
  BY <1>1 DEF DisputeInv, VerdictMatches, OneOpenPerOrder, OpeningsAlone, OpenFor, Opening
<1>3. (DisputeTypeOK /\ EscalatedWasAnswered)'
  BY <1>1 DEF DisputeInv, DisputeTypeOK, EscalatedWasAnswered
<1>4. \A s \in Sessions : DisputeSaves(disputeReq'[s], dispute')
  BY <1>1 DEF DisputeInv, DisputeSaves
<1>. QED BY <1>1, <1>2, <1>3, <1>4 DEF DisputeInv, ClosedStep

LEMMA DisputeNextLemma ==
    ASSUME DisputeInv, [DisputeNext]_disputeVars
    PROVE  DisputeInv' /\ ClosedStep
<1>1. CASE UNCHANGED disputeVars
  BY <1>1, DisputeStutter
<1>2. ASSUME NEW s \in Sessions, NEW o \in DisputeOrders, ReadOpen(s, o)
      PROVE  DisputeInv' /\ ClosedStep
  BY <1>2, ReadOpenStep
<1>3. ASSUME NEW s \in Sessions, NEW d \in Disputes, InsertDispute(s, d)
      PROVE  DisputeInv' /\ ClosedStep
  BY <1>3, InsertDisputeStep
<1>4. ASSUME NEW s \in Sessions, NEW d \in Disputes,
             \/ Escalate(s, d)
             \/ \E accepts \in BOOLEAN : SellerResponse(s, d, accepts)
             \/ \E r \in Verdicts, a \in Refunds \cup {None} : AdminResolve(s, d, r, a)
      PROVE  DisputeInv' /\ ClosedStep
  BY <1>4, HandlersDispute
<1>5. ASSUME NEW s \in Sessions, SaveDispute(s)
      PROVE  DisputeInv' /\ ClosedStep
  BY <1>5, SaveDisputeStep
<1>6. ASSUME NEW d \in Disputes, NEW role \in Posters, AddMessage(d, role)
      PROVE  DisputeInv' /\ ClosedStep
  BY <1>6, AddMessageStep
<1>. QED BY <1>1, <1>2, <1>3, <1>4, <1>5, <1>6 DEF DisputeNext

\* Whatever handlers overlap, a dispute that was escalated has an answer of the seller and the
\* messages of both; one that no two handlers saved at once tells one verdict, stays
\* closed, and is the only open one about its order: dispute-service.
THEOREM DisputesAreSafe == DisputeSpec => DisputeSafety
<1>1. DisputeSpec => []DisputeInv
  BY DisputeInitLemma, DisputeNextLemma, PTL DEF DisputeSpec
<1>2. DisputeSpec => [][ClosedStep]_disputeVars
  BY <1>1, DisputeNextLemma, PTL DEF DisputeSpec
<1>3. DisputeInv => DisputeTypeOK /\ EscalatedWasAnswered /\ VerdictMatches /\ OneOpenPerOrder
  BY DEF DisputeInv
<1>4. ClosedStep => \A d \in Disputes \ disputeRaced' :
                      dispute[d] # None /\ dispute[d].status \in ClosedStatus
                        => dispute'[d].status \in ClosedStatus
  BY DEF ClosedStep
<1>. QED BY <1>1, <1>2, <1>3, <1>4, PTL DEF DisputeSafety, ClosedStaysClosed

-----------------------------------------------------------------------------
(* AuditTrail: committed offsets and the hash chain *)

\* The parts of the type invariant.
LogOK == log \in [Partitions -> Seq([at: Events, action: Actions])]
OffsetsOK ==
    /\ committed \in [Partitions -> 0..MaxEvents]
    /\ position \in [Partitions -> 0..MaxEvents]
    /\ handled \in [Partitions -> 0..MaxEvents]
    /\ \A p \in Partitions : committed[p] <= position[p] /\ handled[p] <= position[p]
PolledOK == \A p \in Partitions : position[p] <= Len(log[p])
ConsumersOK ==
    /\ topic \in Topics /\ owner \in [Partitions -> Consumers]
    /\ current \in [Consumers -> Partitions \cup {None}]
    /\ reading \in [Consumers -> Events \cup {NoHash, NotRead}]
    /\ crashes \in 0..MaxCrashes
TableOK ==
    /\ stored \in [Events -> Nat]
    /\ prev \in [Events -> Events \cup {NoHash}]
    /\ failed \subseteq Events
    /\ disordered \in BOOLEAN

LEMMA AuditTypes ==
    AuditTypeOK <=> LogOK /\ OffsetsOK /\ PolledOK /\ ConsumersOK /\ TableOK
  BY DEF AuditTypeOK, LogOK, OffsetsOK, PolledOK, ConsumersOK, TableOK

\* Events are numbered as they are published, so that those of a partition ascend.
Numbered ==
    /\ \E n \in 0..MaxEvents : Published = 1..n
    /\ \A p \in Partitions : \A i \in 1..Len(log[p]) : log[p][i].at >= i

\* A consumer is at a record of its own that it has polled and not been through.
AtRecord ==
    \A c \in Consumers : current[c] # None =>
        owner[current[c]] = c /\ handled[current[c]] < position[current[c]]

Settled(p, n) == \A i \in 1..n : log[p][i].at \in Rows \cup failed

\* What a consumer with one partition has been through is settled, and it has been
\* through all that is committed.
HandledIsSettled ==
    \A p \in Partitions : Cardinality(Owned(owner[p])) = 1 =>
        committed[p] <= handled[p] /\ Settled(p, handled[p])

\* The only consumer of a topic has read the hash that is still the last one.
ReadIsLast ==
    topic = "audit" =>
        \A c \in Consumers : Owned(c) = Partitions /\ reading[c] # NotRead /\ current[c] # None
            => reading[c] = LastHash

NothingRead == \A c \in Consumers : current[c] = None => reading[c] = NotRead

EntryBefore(rows, e) == {f \in rows : f < e}
LinkOf(rows) == IF rows = {} THEN NoHash ELSE CHOOSE f \in Latest(rows) : TRUE
Chained == \A e \in Rows : prev[e] = LinkOf(EntryBefore(Rows, e))

ChainOfOne ==
    topic = "audit" /\ ~disordered /\ (\E c \in Consumers : Owned(c) = Partitions) => Chained

AuditInv ==
    /\ AuditTypeOK /\ Numbered /\ AtRecord /\ HandledIsSettled
    /\ NothingRead /\ ReadIsLast /\ ChainOfOne

LEMMA LatestExists ==
    ASSUME NEW rows \in SUBSET Events, rows # {}
    PROVE  (CHOOSE e \in Latest(rows) : TRUE) \in rows
<1>. DEFINE gaps == {n \in Nat : \E e \in rows : n = MaxEvents - e}
<1>1. gaps \subseteq Nat /\ gaps # {}
  <2>1. PICK e \in rows : TRUE
    OBVIOUS
  <2>2. MaxEvents - e \in Nat
    BY AuditAssumption DEF Events
  <2>. QED BY <2>1, <2>2
<1>2. PICK n \in gaps : \A m \in gaps : ~(<<m, n>> \in OpToRel(<, Nat))
  <2>. HIDE DEF gaps
  <2>. QED BY <1>1, NatLessThanWellFounded, WFMin
<1>3. PICK e \in rows : n = MaxEvents - e
  OBVIOUS
<1>4. ASSUME NEW f \in rows
      PROVE  f <= e
  <2>1. MaxEvents - f \in gaps /\ MaxEvents - f \in Nat /\ n \in Nat
    BY <1>4, AuditAssumption DEF Events
  <2>2. ~(MaxEvents - f < n)
    BY <1>2, <2>1 DEF OpToRel
  <2>. QED BY <1>3, <2>1, <2>2, AuditAssumption DEF Events
<1>5. e \in Latest(rows)
  BY <1>4 DEF Latest
<1>. QED BY <1>5 DEF Latest

LEMMA LastHashType ==
    ASSUME AuditTypeOK
    PROVE  LastHash \in Events \cup {NoHash} /\ LastHash = LinkOf(Rows)
  BY LatestExists DEF LastHash, LinkOf, Rows

\* The model's invariant of the chain, of all rows.
LEMMA ChainLinks ==
    ASSUME AuditTypeOK, Chained
    PROVE  BrokenLinks(1, MaxEvents) = {}
<1>1. {e \in Rows : 1 <= e /\ e <= MaxEvents} = Rows
  BY AuditAssumption DEF Rows, Events
<1>. QED BY <1>1 DEF BrokenLinks, Chained, LinkOf, EntryBefore

LEMMA AuditInitLemma == AuditInit => AuditInv
<1>. SUFFICES ASSUME AuditInit PROVE AuditInv
  OBVIOUS
<1>1. AuditTypeOK
  <2>1. <<>> \in Seq([at: Events, action: Actions]) /\ Len(<<>>) = 0
    OBVIOUS
  <2>2. LogOK /\ PolledOK
    BY <2>1 DEF AuditInit, LogOK, PolledOK
  <2>3. OffsetsOK
    BY AuditAssumption DEF AuditInit, OffsetsOK
  <2>4. ConsumersOK
    BY AuditAssumption DEF AuditInit, ConsumersOK
  <2>5. TableOK
    BY DEF AuditInit, TableOK
  <2>. QED BY <2>2, <2>3, <2>4, <2>5, AuditTypes
<1>2. Rows = {}
  BY DEF AuditInit, Rows
<1>3. Published = 1..0 /\ 0 \in 0..MaxEvents
  BY AuditAssumption DEF AuditInit, Published
<1>4. Numbered
  BY <1>3 DEF AuditInit, Numbered
<1>5. AtRecord /\ NothingRead /\ ReadIsLast
  BY DEF AuditInit, AtRecord, NothingRead, ReadIsLast
<1>6. HandledIsSettled
  BY DEF AuditInit, HandledIsSettled, Settled
<1>7. ChainOfOne
  BY <1>2 DEF ChainOfOne, Chained
<1>. QED BY <1>1, <1>4, <1>5, <1>6, <1>7 DEF AuditInv

LEMMA PublishedIs ==
    \A x : x \in Published
             <=> \E q \in Partitions : \E i \in 1..Len(log[q]) : x = log[q][i].at
  BY DEF Published

LEMMA LogType ==
    ASSUME AuditTypeOK, NEW p \in Partitions
    PROVE  log[p] \in Seq([at: Events, action: Actions]) /\ Len(log[p]) \in Nat
<1>1. log[p] \in Seq([at: Events, action: Actions])
  BY AuditTypes DEF LogOK
<1>. QED BY <1>1

\* No partition is longer than the number of events.
LEMMA LogsAreShort ==
    ASSUME AuditTypeOK, Numbered, NEW p \in Partitions, NEW n \in 0..MaxEvents,
           Published = 1..n
    PROVE  Len(log[p]) \in 0..n
<1>1. log[p] \in Seq([at: Events, action: Actions]) /\ Len(log[p]) \in Nat
  BY LogType
<1>2. CASE Len(log[p]) > 0
  <2>1. Len(log[p]) \in 1..Len(log[p])
    BY <1>1, <1>2
  <2>2. log[p][Len(log[p])].at \in Published /\ log[p][Len(log[p])].at >= Len(log[p])
    BY <2>1 DEF Published, Numbered
  <2>. QED BY <1>1, <2>2
<1>. QED BY <1>1, <1>2

LEMMA PublishStep ==
    ASSUME AuditInv, NEW p \in Partitions, NEW action \in Actions, Publish(p, action)
    PROVE  AuditInv'
<1>1. PICK n \in 0..MaxEvents : Published = 1..n
  BY DEF AuditInv, Numbered
<1>2. n \in Nat /\ Cardinality(Published) = n /\ n < MaxEvents
  <2>1. n \in Nat /\ Cardinality(1..n) = n
    BY FS_Interval, AuditAssumption
  <2>. QED BY <1>1, <2>1 DEF Publish
<1>. DEFINE e == [at |-> n + 1, action |-> action]
<1>3. e \in [at: Events, action: Actions] /\ e.at = n + 1
  BY <1>2, AuditAssumption DEF Events
<1>4. /\ log' = [log EXCEPT ![p] = Append(@, e)]
      /\ UNCHANGED <<topic, owner, committed, position, handled, current, reading, stored,
                     prev, failed, disordered, crashes>>
  BY <1>2 DEF Publish, consumerVars
<1>. HIDE DEF e
<1>5. \A q \in Partitions :
        /\ log[q] \in Seq([at: Events, action: Actions]) /\ Len(log[q]) \in 0..n
        /\ q # p => log'[q] = log[q]
  BY <1>1, <1>4, LogsAreShort DEF AuditInv, AuditTypeOK
<1>6. /\ log'[p] = Append(log[p], e) /\ Len(log'[p]) = Len(log[p]) + 1
      /\ log'[p][Len(log[p]) + 1] = e
      /\ \A i \in 1..Len(log[p]) : log'[p][i] = log[p][i]
  BY <1>3, <1>4, <1>5 DEF AuditInv, AuditTypeOK
<1>7. AuditTypeOK'
  <2>0. LogOK /\ OffsetsOK /\ PolledOK /\ ConsumersOK /\ TableOK
    BY AuditTypes DEF AuditInv
  <2>1. LogOK'
    <3>1. Append(log[p], e) \in Seq([at: Events, action: Actions])
      <4>. DEFINE S == [at: Events, action: Actions]
      <4>1. log[p] \in Seq(S) /\ e \in S
        BY <1>3, <1>5
      <4>. HIDE DEF S
      <4>2. Append(log[p], e) \in Seq(S)
        BY <4>1
      <4>. QED BY <4>2 DEF S
    <3>. QED BY <1>4, <2>0, <3>1 DEF LogOK
  <2>2. PolledOK'
    BY <1>4, <1>5, <1>6, <2>0, AuditAssumption DEF PolledOK, OffsetsOK
  <2>3. (OffsetsOK /\ ConsumersOK /\ TableOK)'
    BY <1>4, <2>0 DEF OffsetsOK, ConsumersOK, TableOK
  <2>4. AuditTypeOK' <=> (LogOK /\ OffsetsOK /\ PolledOK /\ ConsumersOK /\ TableOK)'
    BY AuditTypes, PTL
  <2>. QED BY <2>1, <2>2, <2>3, <2>4
<1>8. Numbered'
  <2>1. n + 1 \in 0..MaxEvents
    BY <1>2, AuditAssumption
  <2>0. \A x : x \in Published'
                <=> \E q \in Partitions : \E i \in 1..Len(log'[q]) : x = log'[q][i].at
    <3>1. (\A x : x \in Published
             <=> \E q \in Partitions : \E i \in 1..Len(log[q]) : x = log[q][i].at)'
      BY PublishedIs, PTL
    <3>. QED BY <3>1
  <2>2. Published' = 1..(n + 1)
    <3>1. ASSUME NEW x \in Published' PROVE x \in 1..(n + 1)
      <4>0. PICK q \in Partitions : \E i \in 1..Len(log'[q]) : x = log'[q][i].at
        BY <2>0, <3>1
      <4>1. PICK i \in 1..Len(log'[q]) : x = log'[q][i].at
        BY <4>0
      <4>2. CASE q = p /\ i = Len(log[p]) + 1
        BY <1>2, <1>3, <1>6, <4>1, <4>2
      <4>3. CASE ~(q = p /\ i = Len(log[p]) + 1)
        <5>1. i \in 1..Len(log[q]) /\ log'[q][i] = log[q][i]
          <6>1. CASE q = p
            BY <1>5, <1>6, <4>1, <4>3, <6>1
          <6>2. CASE q # p
            BY <1>5, <4>1, <6>2
          <6>. QED BY <6>1, <6>2
        <5>2. x \in Published
          BY <4>1, <5>1, PublishedIs
        <5>. QED BY <1>1, <1>2, <5>2
      <4>. QED BY <4>2, <4>3
    <3>2. ASSUME NEW x \in 1..(n + 1) PROVE x \in Published'
      <4>1. CASE x = n + 1
        <5>1. Len(log[p]) + 1 \in 1..Len(log'[p])
          BY <1>5, <1>6
        <5>. QED BY <1>3, <1>6, <2>0, <4>1, <5>1
      <4>2. CASE x # n + 1
        <5>1. x \in Published
          BY <1>1, <1>2, <4>2
        <5>0. PICK q \in Partitions : \E i \in 1..Len(log[q]) : x = log[q][i].at
          BY <5>1, PublishedIs
        <5>2. PICK i \in 1..Len(log[q]) : x = log[q][i].at
          BY <5>0
        <5>3. i \in 1..Len(log'[q]) /\ log'[q][i] = log[q][i]
          <6>1. CASE q = p
            BY <1>5, <1>6, <5>2, <6>1
          <6>2. CASE q # p
            BY <1>5, <5>2, <6>2
          <6>. QED BY <6>1, <6>2
        <5>. QED BY <2>0, <5>2, <5>3
      <4>. QED BY <4>1, <4>2
    <3>. QED BY <3>1, <3>2
  <2>3. ASSUME NEW q \in Partitions, NEW i \in 1..Len(log'[q])
        PROVE  log'[q][i].at >= i
    <3>1. CASE q = p /\ i = Len(log[p]) + 1
      BY <1>2, <1>3, <1>5, <1>6, <3>1
    <3>2. CASE ~(q = p /\ i = Len(log[p]) + 1)
      <4>1. i \in 1..Len(log[q]) /\ log'[q][i] = log[q][i]
        BY <1>5, <1>6, <2>3, <3>2
      <4>. QED BY <4>1 DEF AuditInv, Numbered
    <3>. QED BY <3>1, <3>2
  <2>. QED BY <2>1, <2>2, <2>3 DEF Numbered
<1>9. HandledIsSettled'
  <2>. SUFFICES ASSUME NEW q \in Partitions, Cardinality(Owned(owner[q])) = 1
                PROVE  committed[q] <= handled[q] /\ Settled(q, handled[q])'
    BY <1>4 DEF HandledIsSettled, Owned
  <2>1. committed[q] <= handled[q] /\ Settled(q, handled[q])
    BY DEF AuditInv, HandledIsSettled
  <2>2. handled[q] \in Nat /\ handled[q] <= Len(log[q])
    BY <1>5, AuditAssumption DEF AuditInv, AuditTypeOK
  <2>3. \A i \in 1..handled[q] : log'[q][i] = log[q][i]
    <3>1. 1..handled[q] \subseteq 1..Len(log[q])
      BY <1>5, <2>2
    <3>. QED BY <1>5, <1>6, <3>1
  <2>. QED BY <1>4, <2>1, <2>3 DEF Settled, Rows
<1>10. (AtRecord /\ NothingRead /\ ReadIsLast /\ ChainOfOne)'
  BY <1>4 DEF AuditInv, AtRecord, NothingRead, ReadIsLast, ChainOfOne, Chained, Owned, LastHash, Rows
<1>. QED BY <1>7, <1>8, <1>9, <1>10 DEF AuditInv

LEMMA NumberedKeeps ==
    ASSUME Numbered, log' = log
    PROVE  Numbered'
<1>1. Published' = Published
  BY DEF Published
<1>. QED BY <1>1 DEF Numbered

LEMMA PollStep ==
    ASSUME AuditInv, NEW c \in Consumers, Poll(c)
    PROVE  AuditInv'
<1>1. /\ position' = [p \in Partitions |-> IF p \in Owned(c) THEN Len(log[p]) ELSE position[p]]
      /\ UNCHANGED <<topic, owner, log, committed, handled, current, reading, stored,
                     prev, failed, disordered, crashes>>
  BY DEF Poll
<1>2. PICK n \in 0..MaxEvents : Published = 1..n
  BY DEF AuditInv, Numbered
<1>3. LogOK /\ OffsetsOK /\ PolledOK /\ ConsumersOK /\ TableOK
  BY AuditTypes DEF AuditInv
<1>4. \A p \in Partitions : /\ position[p] <= position'[p] /\ position'[p] <= Len(log[p])
                            /\ position'[p] \in 0..MaxEvents
  <2>. TAKE p \in Partitions
  <2>1. Len(log[p]) \in 0..n /\ n \in 0..MaxEvents
    BY <1>2, LogsAreShort DEF AuditInv
  <2>2. position[p] \in 0..MaxEvents /\ position[p] <= Len(log[p])
    BY <1>3 DEF OffsetsOK, PolledOK
  <2>. QED BY <1>1, <2>1, <2>2, AuditAssumption
<1>5. AuditTypeOK'
  <2>1. (LogOK /\ PolledOK)'
    BY <1>1, <1>3, <1>4 DEF LogOK, PolledOK
  <2>2. OffsetsOK'
    BY <1>1, <1>3, <1>4, AuditAssumption DEF OffsetsOK
  <2>3. (ConsumersOK /\ TableOK)'
    BY <1>1, <1>3 DEF ConsumersOK, TableOK
  <2>4. AuditTypeOK' <=> (LogOK /\ OffsetsOK /\ PolledOK /\ ConsumersOK /\ TableOK)'
    BY AuditTypes, PTL
  <2>. QED BY <2>1, <2>2, <2>3, <2>4
<1>6. AtRecord'
  <2>. SUFFICES ASSUME NEW d \in Consumers, current[d] # None
                PROVE  owner[current[d]] = d /\ handled[current[d]] < position'[current[d]]
    BY <1>1 DEF AtRecord
  <2>1. PICK p \in Partitions : p = current[d]
    BY <1>3 DEF ConsumersOK
  <2>2. owner[p] = d /\ handled[p] < position[p]
    BY <2>1 DEF AuditInv, AtRecord
  <2>3. handled[p] \in Nat /\ position[p] \in Nat /\ position'[p] \in Nat
    BY <1>3, <1>4, AuditAssumption DEF OffsetsOK
  <2>. QED BY <1>4, <2>1, <2>2, <2>3
<1>7. (HandledIsSettled /\ NothingRead /\ ReadIsLast /\ ChainOfOne)'
  BY <1>1 DEF AuditInv, HandledIsSettled, Settled, NothingRead, ReadIsLast, ChainOfOne, Chained, Owned,
              LastHash, Rows
<1>8. Numbered'
  BY <1>1, NumberedKeeps DEF AuditInv
<1>. QED BY <1>5, <1>6, <1>7, <1>8 DEF AuditInv

LEMMA StartStep ==
    ASSUME AuditInv, NEW c \in Consumers, NEW p \in Partitions, Start(c, p)
    PROVE  AuditInv'
<1>1. /\ current[c] = None /\ owner[p] = c /\ handled[p] < position[p]
      /\ current' = [current EXCEPT ![c] = p]
      /\ UNCHANGED <<topic, owner, log, committed, position, handled, reading, stored, prev,
                     failed, disordered, crashes>>
  BY DEF Start, Owned
<1>2. LogOK /\ OffsetsOK /\ PolledOK /\ ConsumersOK /\ TableOK
  BY AuditTypes DEF AuditInv
<1>3. AuditTypeOK'
  <2>1. (LogOK /\ OffsetsOK /\ PolledOK /\ TableOK)'
    BY <1>1, <1>2 DEF LogOK, OffsetsOK, PolledOK, TableOK
  <2>2. ConsumersOK'
    BY <1>1, <1>2 DEF ConsumersOK
  <2>3. AuditTypeOK' <=> (LogOK /\ OffsetsOK /\ PolledOK /\ ConsumersOK /\ TableOK)'
    BY AuditTypes, PTL
  <2>. QED BY <2>1, <2>2, <2>3
<1>4. \A d \in Consumers : current'[d] = IF d = c THEN p ELSE current[d]
  BY <1>1, <1>2 DEF ConsumersOK
<1>5. AtRecord'
  BY <1>1, <1>4 DEF AuditInv, AtRecord
<1>6. ReadIsLast'
  <2>1. reading[c] = NotRead
    BY <1>1 DEF AuditInv, NothingRead
  <2>. QED BY <1>1, <1>4, <2>1 DEF AuditInv, ReadIsLast, Owned, LastHash, Rows
<1>7. (HandledIsSettled /\ ChainOfOne)'
  BY <1>1 DEF AuditInv, HandledIsSettled, Settled, ChainOfOne, Chained, Owned, Rows
<1>8. Numbered'
  BY <1>1, NumberedKeeps DEF AuditInv
<1>9. NothingRead'
  BY <1>1, <1>4 DEF AuditInv, NothingRead
<1>. QED BY <1>3, <1>5, <1>6, <1>7, <1>8, <1>9 DEF AuditInv

LEMMA ReadLastHashStep ==
    ASSUME AuditInv, NEW c \in Consumers, ReadLastHash(c)
    PROVE  AuditInv'
<1>1. /\ current[c] # None /\ reading' = [reading EXCEPT ![c] = LastHash]
      /\ UNCHANGED <<topic, owner, log, committed, position, handled, current, stored, prev,
                     failed, disordered, crashes>>
  BY DEF ReadLastHash
<1>2. LogOK /\ OffsetsOK /\ PolledOK /\ ConsumersOK /\ TableOK
  BY AuditTypes DEF AuditInv
<1>3. LastHash \in Events \cup {NoHash}
  BY LastHashType DEF AuditInv
<1>4. AuditTypeOK'
  <2>1. (LogOK /\ OffsetsOK /\ PolledOK /\ TableOK)'
    BY <1>1, <1>2 DEF LogOK, OffsetsOK, PolledOK, TableOK
  <2>2. ConsumersOK'
    BY <1>1, <1>2, <1>3 DEF ConsumersOK
  <2>3. AuditTypeOK' <=> (LogOK /\ OffsetsOK /\ PolledOK /\ ConsumersOK /\ TableOK)'
    BY AuditTypes, PTL
  <2>. QED BY <2>1, <2>2, <2>3
<1>5. \A d \in Consumers : reading'[d] = IF d = c THEN LastHash ELSE reading[d]
  BY <1>1, <1>2 DEF ConsumersOK
<1>6. ReadIsLast'
  <2>1. LastHash' = LastHash
    BY <1>1 DEF LastHash, Rows
  <2>. QED BY <1>1, <1>5, <2>1 DEF AuditInv, ReadIsLast, Owned
<1>7. (AtRecord /\ HandledIsSettled /\ ChainOfOne)'
  BY <1>1 DEF AuditInv, AtRecord, HandledIsSettled, Settled, ChainOfOne, Chained, Owned, Rows
<1>8. Numbered'
  BY <1>1, NumberedKeeps DEF AuditInv
<1>9. NothingRead'
  BY <1>1, <1>5 DEF AuditInv, NothingRead
<1>. QED BY <1>4, <1>6, <1>7, <1>8, <1>9 DEF AuditInv

\* A consumer leaves a record whose event is stored or has failed.
LEMMA AdvanceStep ==
    ASSUME AuditInv, NEW c \in Consumers, current[c] # None, Advance(c), TableOK',
           Rows \subseteq Rows', failed \subseteq failed',
           Record(c).at \in Rows' \cup failed', ChainOfOne'
    PROVE  AuditInv'
<1>1. LogOK /\ OffsetsOK /\ PolledOK /\ ConsumersOK /\ TableOK
  BY AuditTypes DEF AuditInv
<1>2. PICK p \in Partitions : p = current[c]
  BY <1>1 DEF ConsumersOK
<1>3. PICK k \in Nat : k = handled[p]
  BY <1>1, AuditAssumption DEF OffsetsOK
<1>4. owner[p] = c /\ k < position[p] /\ Record(c) = log[p][k + 1]
  BY <1>2, <1>3 DEF AuditInv, AtRecord, Record
<1>5. /\ handled' = [handled EXCEPT ![p] = k + 1]
      /\ committed' = [q \in Partitions |-> IF owner[q] = c /\ k + 1 = position[p]
                                            THEN position[q] ELSE committed[q]]
      /\ current' = IF k + 1 = position[p] THEN [current EXCEPT ![c] = None] ELSE current
      /\ reading' = [reading EXCEPT ![c] = NotRead]
      /\ UNCHANGED <<topic, owner, log, position, crashes>>
  <2>1. Done(c) => committed' = [q \in Partitions |->
                                  IF owner[q] = c /\ k + 1 = position[p]
                                  THEN position[q] ELSE committed[q]]
    BY <1>2, <1>3 DEF Done, Owned
  <2>. QED BY <1>1, <1>2, <1>3, <2>1 DEF Advance, OffsetsOK
<1>6. \A q \in Partitions : position[q] \in 0..MaxEvents /\ handled[q] \in 0..MaxEvents
                            /\ committed[q] \in 0..MaxEvents
  BY <1>1 DEF OffsetsOK
<1>7. \A q \in Partitions :
        /\ handled'[q] = IF q = p THEN k + 1 ELSE handled[q]
        /\ committed'[q] = IF owner[q] = c /\ k + 1 = position[p]
                           THEN position[q] ELSE committed[q]
  BY <1>1, <1>5 DEF OffsetsOK
<1>8. /\ \A d \in Consumers \ {c} : current'[d] = current[d] /\ reading'[d] = reading[d]
      /\ reading'[c] = NotRead
      /\ current'[c] = IF k + 1 = position[p] THEN None ELSE p
  BY <1>1, <1>2, <1>5 DEF ConsumersOK
<1>9. AuditTypeOK'
  <2>1. (LogOK /\ PolledOK)'
    BY <1>1, <1>5 DEF LogOK, PolledOK
  <2>2. OffsetsOK'
    <3>1. k + 1 \in 0..MaxEvents /\ k + 1 <= position[p]
      BY <1>3, <1>4, <1>6, AuditAssumption
    <3>2. handled' \in [Partitions -> 0..MaxEvents] /\ committed' \in [Partitions -> 0..MaxEvents]
      BY <1>1, <1>5, <1>6, <3>1 DEF OffsetsOK
    <3>3. \A q \in Partitions : committed'[q] <= position[q] /\ handled'[q] <= position[q]
      BY <1>1, <1>6, <1>7, <3>1, AuditAssumption DEF OffsetsOK
    <3>. QED BY <1>1, <1>5, <3>2, <3>3 DEF OffsetsOK
  <2>3. ConsumersOK'
    BY <1>1, <1>5 DEF ConsumersOK
  <2>4. AuditTypeOK' <=> (LogOK /\ OffsetsOK /\ PolledOK /\ ConsumersOK /\ TableOK)'
    BY AuditTypes, PTL
  <2>. QED BY <2>1, <2>2, <2>3, <2>4
<1>10. AtRecord'
  <2>. SUFFICES ASSUME NEW d \in Consumers, current'[d] # None
                PROVE  owner[current'[d]] = d /\ handled'[current'[d]] < position[current'[d]]
    BY <1>5 DEF AtRecord
  <2>1. CASE d = c
    BY <1>3, <1>4, <1>6, <1>7, <1>8, <2>1, AuditAssumption
  <2>2. CASE d # c
    <3>1. PICK q \in Partitions : q = current[d]
      BY <1>1, <1>8, <2>2 DEF ConsumersOK
    <3>2. owner[q] = d /\ handled[q] < position[q] /\ q # p
      BY <1>4, <1>8, <2>2, <3>1 DEF AuditInv, AtRecord
    <3>. QED BY <1>7, <1>8, <2>2, <3>1, <3>2
  <2>. QED BY <2>1, <2>2
<1>11. HandledIsSettled'
  <2>. SUFFICES ASSUME NEW q \in Partitions, Cardinality(Owned(owner[q])) = 1
                PROVE  committed'[q] <= handled'[q] /\ Settled(q, handled[q])'
    BY <1>5 DEF HandledIsSettled, Owned
  <2>1. committed[q] <= handled[q] /\ Settled(q, handled[q])
    BY DEF AuditInv, HandledIsSettled
  <2>2. PICK x : Owned(owner[q]) = {x}
    <3>1. IsFiniteSet(Owned(owner[q]))
      BY AuditAssumption, FS_Subset DEF Owned
    <3>. QED BY <3>1, FS_Singleton
  <2>3. CASE q = p
    <3>1. committed'[q] <= k + 1 /\ handled'[q] = k + 1
      BY <1>3, <1>6, <1>7, <2>1, <2>3, AuditAssumption
    <3>2. \A i \in 1..(k + 1) : i = k + 1 \/ i \in 1..k
      BY <1>3
    <3>3. \A i \in 1..(k + 1) : log[q][i].at \in Rows' \cup failed'
      BY <1>3, <1>4, <2>1, <2>3, <3>2 DEF Settled
    <3>. QED BY <1>5, <3>1, <3>3 DEF Settled
  <2>4. CASE q # p
    <3>1. owner[q] # c
      BY <1>4, <2>2, <2>4 DEF Owned
    <3>2. committed'[q] = committed[q] /\ handled'[q] = handled[q]
      BY <1>7, <2>4, <3>1
    <3>. QED BY <1>5, <2>1, <3>2 DEF Settled
  <2>. QED BY <2>3, <2>4
<1>12. ReadIsLast'
  <2>1. \A d \in Consumers : Owned(d)' = Owned(d) /\ (d # c => Owned(d) # Partitions)
    BY <1>4, <1>5 DEF Owned
  <2>. QED BY <1>8, <2>1 DEF ReadIsLast
<1>13. Numbered'
  BY <1>5, NumberedKeeps DEF AuditInv
<1>14. NothingRead'
  BY <1>8 DEF AuditInv, NothingRead
<1>. QED BY <1>9, <1>10, <1>11, <1>12, <1>13, <1>14 DEF AuditInv

\* Rows and links when one row is stored that was not there.
LEMMA StoredRows ==
    ASSUME TableOK, NEW e \in Events, NEW n \in Nat, n > 0,
           stored' = [stored EXCEPT ![e] = n]
    PROVE  Rows' = Rows \cup {e}
  BY DEF TableOK, Rows

LEMMA RecordIsEvent ==
    ASSUME AuditInv, NEW c \in Consumers, current[c] # None
    PROVE  /\ Record(c).at \in Events
           /\ \A d \in Consumers : Owned(d) = Partitions => d = c
<1>1. LogOK /\ OffsetsOK /\ PolledOK /\ ConsumersOK
  BY AuditTypes DEF AuditInv
<1>2. PICK p \in Partitions : p = current[c]
  BY <1>1 DEF ConsumersOK
<1>3. PICK k \in Nat : k = handled[p]
  BY <1>1, AuditAssumption DEF OffsetsOK
<1>4. owner[p] = c /\ k < position[p]
  BY <1>2, <1>3 DEF AuditInv, AtRecord
<1>5. position[p] \in Nat /\ position[p] <= Len(log[p]) /\ Len(log[p]) \in Nat
  BY <1>1, LogType, AuditAssumption DEF AuditInv, OffsetsOK, PolledOK
<1>6. k + 1 \in 1..Len(log[p])
  BY <1>3, <1>4, <1>5
<1>7. log[p][k + 1] \in [at: Events, action: Actions]
  <2>. DEFINE S == [at: Events, action: Actions]
  <2>1. log[p] \in Seq(S)
    BY LogType DEF AuditInv
  <2>. HIDE DEF S
  <2>2. log[p][k + 1] \in S
    BY <1>6, <2>1
  <2>. QED BY <2>2 DEF S
<1>. QED BY <1>2, <1>3, <1>4, <1>7 DEF Record, Owned

LEMMA StoreAuditStep ==
    ASSUME AuditInv, NEW c \in Consumers, NEW moment \in Moments, StoreAudit(c, moment)
    PROVE  AuditInv'
<1>1. PICK e \in Events : e = Record(c).at
  BY RecordIsEvent DEF StoreAudit
<1>2. /\ topic = "audit" /\ current[c] # None /\ reading[c] # NotRead
      /\ stored[e] = 0 /\ stored' = [stored EXCEPT ![e] = 1]
      /\ prev' = [prev EXCEPT ![e] = reading[c]]
      /\ disordered' = (disordered \/ \E f \in Rows : f > e)
      /\ UNCHANGED failed /\ Advance(c)
  BY <1>1 DEF StoreAudit
<1>3. TableOK /\ ConsumersOK
  BY AuditTypes DEF AuditInv
<1>4. Rows' = Rows \cup {e} /\ e \notin Rows
  <2>0. PICK n \in Nat : n = 1 /\ n > 0
    OBVIOUS
  <2>1. Rows' = Rows \cup {e}
    <3>1. stored' = [stored EXCEPT ![e] = n]
      BY <1>2, <2>0
    <3>. QED BY <1>3, <2>0, <3>1, StoredRows
  <2>2. e \notin Rows
    BY <1>2 DEF Rows
  <2>. QED BY <2>1, <2>2
<1>5. reading[c] \in Events \cup {NoHash}
  BY <1>2, <1>3 DEF ConsumersOK
<1>6. TableOK'
  <2>1. stored' \in [Events -> Nat] /\ prev' \in [Events -> Events \cup {NoHash}]
    BY <1>2, <1>3, <1>5 DEF TableOK
  <2>2. failed' \subseteq Events /\ disordered' \in BOOLEAN
    BY <1>2, <1>3 DEF TableOK
  <2>. QED BY <2>1, <2>2 DEF TableOK
<1>7. ChainOfOne'
  <2>. SUFFICES ASSUME disordered' = FALSE, NEW d \in Consumers, Owned(d)' = Partitions
                PROVE  Chained'
    BY <1>6 DEF ChainOfOne, TableOK
  <2>1. Owned(d)' = Owned(d) /\ topic' = topic
    BY <1>2 DEF Owned, Advance
  <2>2. d = c /\ Owned(c) = Partitions
    BY <1>2, <2>1, RecordIsEvent
  <2>3. ~disordered /\ \A f \in Rows : f < e
    <3>1. ~disordered /\ \A f \in Rows : ~(f > e)
      BY <1>2
    <3>2. ASSUME NEW f \in Rows PROVE f < e
      <4>1. f \in Events /\ f # e /\ ~(f > e)
        BY <1>4, <3>1 DEF Rows
      <4>. QED BY <4>1 DEF Events
    <3>. QED BY <3>1, <3>2
  <2>4. Chained
    BY <1>2, <2>2, <2>3 DEF AuditInv, ChainOfOne
  <2>5. reading[c] = LinkOf(Rows)
    BY <1>2, <2>2 DEF AuditInv, ReadIsLast, LastHash, LinkOf
  <2>. SUFFICES ASSUME NEW g \in Rows'
                PROVE  prev'[g] = LinkOf(EntryBefore(Rows', g))
    BY DEF Chained, LinkOf, EntryBefore, Latest
  <2>6. CASE g = e
    <3>1. EntryBefore(Rows', g) = Rows
      BY <1>1, <1>4, <2>3, <2>6 DEF EntryBefore, Rows, Events
    <3>. QED BY <1>2, <1>3, <2>5, <2>6, <3>1 DEF TableOK
  <2>7. CASE g # e
    <3>1. g \in Rows /\ g < e
      BY <1>4, <2>3, <2>7
    <3>2. EntryBefore(Rows', g) = EntryBefore(Rows, g)
      BY <1>1, <1>4, <3>1 DEF EntryBefore, Rows, Events
    <3>3. prev'[g] = prev[g]
      BY <1>2, <1>3, <2>7, <3>1 DEF TableOK, Rows
    <3>. QED BY <2>4, <3>1, <3>2, <3>3 DEF Chained
  <2>. QED BY <2>6, <2>7
<1>. QED BY <1>1, <1>2, <1>4, <1>6, <1>7, AdvanceStep

\* The error topic has rows, and no chain.
LEMMA StoreErrorStep ==
    ASSUME AuditInv, NEW c \in Consumers, StoreError(c)
    PROVE  AuditInv'
<1>1. PICK e \in Events : e = Record(c).at
  BY RecordIsEvent DEF StoreError
<1>2. /\ topic = "error" /\ current[c] # None
      /\ stored' = [stored EXCEPT ![e] = @ + 1]
      /\ UNCHANGED <<prev, failed, disordered>> /\ Advance(c)
  BY <1>1 DEF StoreError
<1>3. TableOK
  BY AuditTypes DEF AuditInv
<1>4. PICK n \in Nat : n = stored[e] + 1 /\ n > 0
  BY <1>3 DEF TableOK
<1>5. stored' = [stored EXCEPT ![e] = n] /\ Rows' = Rows \cup {e}
  <2>1. stored' = [stored EXCEPT ![e] = n]
    BY <1>2, <1>4
  <2>. QED BY <1>3, <1>4, <2>1, StoredRows
<1>6. TableOK'
  BY <1>2, <1>3, <1>5 DEF TableOK
<1>7. ChainOfOne'
  BY <1>2 DEF ChainOfOne, Advance
<1>. QED BY <1>1, <1>2, <1>5, <1>6, <1>7, AdvanceStep

\* Records that are passed over.
LEMMA FailStep ==
    ASSUME AuditInv, NEW c \in Consumers,
           PassOver(c) \/ \E moment \in Moments : FailAudit(c, moment)
    PROVE  AuditInv'
<1>1. current[c] # None
  BY DEF PassOver, FailAudit
<1>2. PICK e \in Events : e = Record(c).at
  BY <1>1, RecordIsEvent
<1>3. failed' = failed \cup {e} /\ UNCHANGED <<stored, prev, disordered>> /\ Advance(c)
  BY <1>2 DEF PassOver, FailAudit
<1>4. TableOK
  BY AuditTypes DEF AuditInv
<1>5. TableOK'
  BY <1>3, <1>4 DEF TableOK
<1>6. Rows' = Rows
  BY <1>3 DEF Rows
<1>7. ChainOfOne'
  BY <1>3, <1>6 DEF AuditInv, ChainOfOne, Chained, Owned, Advance
<1>. QED BY <1>1, <1>2, <1>3, <1>5, <1>6, <1>7, AdvanceStep

LEMMA AuditCrashStep ==
    ASSUME AuditInv, NEW c \in Consumers, Crash(c)
    PROVE  AuditInv'
<1>1. /\ crashes < MaxCrashes /\ crashes' = crashes + 1
      /\ position' = [p \in Partitions |-> IF owner[p] = c THEN committed[p] ELSE position[p]]
      /\ handled' = [p \in Partitions |-> IF owner[p] = c THEN committed[p] ELSE handled[p]]
      /\ current' = [current EXCEPT ![c] = None]
      /\ reading' = [reading EXCEPT ![c] = NotRead]
      /\ UNCHANGED <<topic, owner, log, committed, stored, prev, failed, disordered>>
  BY DEF Crash, Owned
<1>2. LogOK /\ OffsetsOK /\ PolledOK /\ ConsumersOK /\ TableOK
  BY AuditTypes DEF AuditInv
<1>3. \A p \in Partitions :
        /\ committed[p] \in 0..MaxEvents /\ position[p] \in 0..MaxEvents
        /\ handled[p] \in 0..MaxEvents
        /\ committed[p] <= position[p] /\ handled[p] <= position[p]
        /\ position[p] <= Len(log[p]) /\ Len(log[p]) \in Nat
  BY <1>2, LogType DEF OffsetsOK, PolledOK, AuditInv
<1>4. \A d \in Consumers : /\ current'[d] = IF d = c THEN None ELSE current[d]
                           /\ reading'[d] = IF d = c THEN NotRead ELSE reading[d]
  BY <1>1, <1>2 DEF ConsumersOK
<1>5. AuditTypeOK'
  <2>1. (LogOK /\ TableOK)'
    BY <1>1, <1>2 DEF LogOK, TableOK
  <2>2. OffsetsOK'
    BY <1>1, <1>2, <1>3, AuditAssumption DEF OffsetsOK
  <2>3. PolledOK'
    BY <1>1, <1>3, AuditAssumption DEF PolledOK
  <2>4. ConsumersOK'
    BY <1>1, <1>2, AuditAssumption DEF ConsumersOK
  <2>5. AuditTypeOK' <=> (LogOK /\ OffsetsOK /\ PolledOK /\ ConsumersOK /\ TableOK)'
    BY AuditTypes, PTL
  <2>. QED BY <2>1, <2>2, <2>3, <2>4, <2>5
<1>6. AtRecord'
  <2>. SUFFICES ASSUME NEW d \in Consumers, current'[d] # None
                PROVE  owner[current'[d]] = d /\ handled'[current'[d]] < position'[current'[d]]
    BY <1>1 DEF AtRecord
  <2>1. d # c /\ current'[d] = current[d]
    BY <1>4
  <2>2. PICK p \in Partitions : p = current[d]
    BY <1>2, <2>1 DEF ConsumersOK
  <2>3. owner[p] = d /\ handled[p] < position[p]
    BY <2>1, <2>2 DEF AuditInv, AtRecord
  <2>. QED BY <1>1, <2>1, <2>2, <2>3
<1>7. HandledIsSettled'
  <2>. SUFFICES ASSUME NEW q \in Partitions, Cardinality(Owned(owner[q])) = 1
                PROVE  committed[q] <= handled'[q] /\ Settled(q, handled[q])'
    BY <1>1 DEF HandledIsSettled, Owned
  <2>1. committed[q] <= handled[q] /\ Settled(q, handled[q])
    BY DEF AuditInv, HandledIsSettled
  <2>2. handled'[q] = committed[q] \/ handled'[q] = handled[q]
    BY <1>1
  <2>3. committed[q] <= handled'[q] /\ handled'[q] <= handled[q]
    BY <1>3, <2>1, <2>2, AuditAssumption
  <2>4. 1..handled'[q] \subseteq 1..handled[q]
    BY <1>3, <2>2, <2>3, AuditAssumption
  <2>. QED BY <1>1, <2>1, <2>3, <2>4 DEF Settled, Rows
<1>8. (NothingRead /\ ReadIsLast /\ ChainOfOne)'
  BY <1>1, <1>4 DEF AuditInv, NothingRead, ReadIsLast, ChainOfOne, Chained, Owned, LastHash, Rows
<1>9. Numbered'
  BY <1>1, NumberedKeeps DEF AuditInv
<1>. QED BY <1>5, <1>6, <1>7, <1>8, <1>9 DEF AuditInv

LEMMA AuditStutter ==
    ASSUME AuditInv, UNCHANGED auditVars
    PROVE  AuditInv'
<1>1. UNCHANGED <<topic, owner, log, committed, position, handled, current, reading, stored,
                  prev, failed, disordered, crashes>>
  BY DEF auditVars
<1>2. AuditTypeOK'
  BY <1>1 DEF AuditInv, AuditTypeOK
<1>3. (AtRecord /\ HandledIsSettled /\ NothingRead)'
  BY <1>1 DEF AuditInv, AtRecord, HandledIsSettled, Settled, NothingRead, Owned, Rows
<1>4. (ReadIsLast /\ ChainOfOne)'
  BY <1>1 DEF AuditInv, ReadIsLast, ChainOfOne, Chained, Owned, LastHash, Rows
<1>5. Numbered'
  BY <1>1, NumberedKeeps DEF AuditInv
<1>. QED BY <1>2, <1>3, <1>4, <1>5 DEF AuditInv

LEMMA AuditNextLemma ==
    ASSUME AuditInv, [AuditNext]_auditVars
    PROVE  AuditInv'
<1>1. CASE UNCHANGED auditVars
  BY <1>1, AuditStutter
<1>2. ASSUME NEW p \in Partitions, NEW action \in Actions, Publish(p, action)
      PROVE  AuditInv'
  BY <1>2, PublishStep
<1>3. ASSUME NEW c \in Consumers, Poll(c) \/ ReadLastHash(c) \/ StoreError(c) \/ Crash(c)
      PROVE  AuditInv'
  BY <1>3, PollStep, ReadLastHashStep, StoreErrorStep, AuditCrashStep
<1>4. ASSUME NEW c \in Consumers, NEW p \in Partitions, Start(c, p)
      PROVE  AuditInv'
  BY <1>4, StartStep
<1>5. ASSUME NEW c \in Consumers, NEW moment \in Moments, StoreAudit(c, moment)
      PROVE  AuditInv'
  BY <1>5, StoreAuditStep
<1>6. ASSUME NEW c \in Consumers, PassOver(c) \/ \E moment \in Moments : FailAudit(c, moment)
      PROVE  AuditInv'
  BY <1>6, FailStep
<1>. QED BY <1>1, <1>2, <1>3, <1>4, <1>5, <1>6 DEF AuditNext

\* What a consumer of one partition has committed is in the table, or its handling has failed,
\* however often it died; and the chain that one consumer wrote in the order of the times
\* verifies from its first row to its last: audit-service.
THEOREM AuditIsSafe == AuditSpec => []AuditSafety
<1>1. AuditSpec => []AuditInv
  BY AuditInitLemma, AuditNextLemma, PTL DEF AuditSpec
<1>2. ASSUME AuditInv
      PROVE  CommittedIsHandled
  <2>1. OffsetsOK
    BY <1>2, AuditTypes DEF AuditInv
  <2>. SUFFICES ASSUME NEW p \in Partitions, Cardinality(Owned(owner[p])) = 1,
                       NEW i \in 1..committed[p]
                PROVE  log[p][i].at \in Rows \cup failed
    BY DEF CommittedIsHandled
  <2>2. committed[p] <= handled[p] /\ Settled(p, handled[p])
    BY <1>2 DEF AuditInv, HandledIsSettled
  <2>3. i \in 1..handled[p]
    BY <2>1, <2>2, AuditAssumption DEF OffsetsOK
  <2>. QED BY <2>2, <2>3 DEF Settled
<1>3. AuditInv => ChainVerifies
  BY ChainLinks DEF AuditInv, ChainOfOne, ChainVerifies
<1>4. AuditInv => AuditSafety
  BY <1>2, <1>3 DEF AuditInv, AuditSafety
<1>. QED BY <1>1, <1>4, PTL

-----------------------------------------------------------------------------
(* Coupons: the counter, the limits and the quotes *)

Redeemed == {o \in CouponOrders : redemption[o] # None}

AnyCouponReq == {Idle} \cup CountReq \cup QuoteReq \cup ApplyReq

\* Redemptions are of coupons that exist, and they are finitely many.
RedemptionsKnown ==
    /\ IsFiniteSet(Redeemed)
    /\ \A o \in Redeemed : coupon[redemption[o].c] # None

\* What a request goes by: a coupon that was active and below its limit when validate read
\* it, and that has not been read with more uses than there are.
GoesBy(q) ==
    q # Idle =>
        /\ coupon[q.c] # None
        /\ q.seen.active = TRUE /\ q.seen.count < q.seen.global
        /\ q.pc = "apply" => q.read.count <= Cardinality(Uses(q.c))

\* While nobody raced for a coupon its counter grows, and a user whose quote is not stale
\* is below the limit.
QuotesInOrder(q) ==
    q # Idle /\ q.c \notin couponRaced =>
        /\ q.seen.count <= coupon[q.c].count
        /\ q.pc = "apply" => q.seen.count <= q.read.count /\ q.read.count <= coupon[q.c].count
        /\ q.pc \in {"quoted", "apply"} /\ coupon[q.c] = q.seen
             => Cardinality(UsesBy(q.c, q.u)) < q.seen.perUser

Fits(q) ==
    q.pc = "quoted" =>
        LET rule == q.seen.rule
        IN  /\ ~(rule.type = "PERCENTAGE" /\ rule.value > 100) => q.discount <= q.total
            /\ rule.type = "PERCENTAGE" /\ rule.cap # 0 => q.discount <= rule.cap

CouponInv ==
    /\ CouponTypeOK /\ RedemptionsKnown /\ CountNeverAhead /\ LimitsKept
    /\ \A s \in Sessions : /\ GoesBy(couponReq[s])
                           /\ QuotesInOrder(couponReq[s])
                           /\ Fits(couponReq[s])

LEMMA CouponReqKinds ==
    ASSUME NEW q \in AnyCouponReq
    PROVE  /\ q.pc = "count" => q \in CountReq
           /\ q.pc = "quoted" => q \in QuoteReq
           /\ q.pc = "apply" => q \in ApplyReq
           /\ q.pc \in {"idle", "count", "quoted", "apply"}
           /\ q.pc = "idle" <=> q = Idle
           /\ q # Idle => q.c \in Coupons /\ q.u \in Shoppers /\ q.seen \in Coupon
  BY DEF AnyCouponReq, CountReq, QuoteReq, ApplyReq, Idle

LEMMA UsesAreFinite ==
    ASSUME RedemptionsKnown, NEW c, NEW u
    PROVE  /\ IsFiniteSet(Uses(c)) /\ IsFiniteSet(UsesBy(c, u))
           /\ Cardinality(Uses(c)) \in Nat /\ Cardinality(UsesBy(c, u)) \in Nat
<1>1. Uses(c) \subseteq Redeemed /\ UsesBy(c, u) \subseteq Redeemed
  BY DEF Uses, UsesBy, Redeemed
<1>2. IsFiniteSet(Uses(c)) /\ IsFiniteSet(UsesBy(c, u))
  BY <1>1, FS_Subset DEF RedemptionsKnown
<1>. QED BY <1>2, FS_CardinalityType

LEMMA PartOfTotal ==
    ASSUME NEW t \in Nat, NEW v \in Nat
    PROVE  /\ (t * v) \div 100 \in Nat
           /\ v <= 100 => (t * v) \div 100 <= t
<1>1. PICK x \in Nat : x = t * v
  BY t * v \in Nat
<1>2. x \div 100 \in Nat
  BY <1>1
<1>3. CASE v <= 100
  <2>1. PICK w \in Nat : w = 100 - v
    BY <1>3
  <2>2. t * w \in Nat /\ t * w = t * 100 - t * v
    BY <2>1
  <2>3. x <= 100 * t
    BY <1>1, <2>2
  <2>4. x \div 100 <= t
    BY <1>1, <2>3
  <2>. QED BY <1>1, <1>2, <2>4
<1>. QED BY <1>1, <1>2, <1>3

LEMMA DiscountFits ==
    ASSUME NEW row \in Coupon, NEW total \in CartTotals
    PROVE  LET rule == row.rule
               d == Discount(rule, total)
           IN  /\ d \in Nat
               /\ ~(rule.type = "PERCENTAGE" /\ rule.value > 100) => d <= total
               /\ rule.type = "PERCENTAGE" /\ rule.cap # 0 => d <= rule.cap
<1>1. PICK rule \in Rule : rule = row.rule
  BY DEF Coupon
<1>2. /\ total \in Nat /\ rule.value \in Nat /\ rule.cap \in Nat
      /\ rule.type \in {"PERCENTAGE", "FIXED", "FREE_SHIPPING"}
  <2>1. total \in Nat /\ Values \subseteq Nat /\ Caps \subseteq Nat
    BY CouponAssumption
  <2>2. CASE rule \in [type: {"PERCENTAGE", "FIXED"}, value: Values, cap: Caps]
    BY <2>1, <2>2
  <2>3. CASE rule \in [type: {"FREE_SHIPPING"}, value: {0}, cap: {0}]
    BY <2>1, <2>3
  <2>. QED BY <1>1, <2>2, <2>3 DEF Rule
<1>3. CASE rule.type = "PERCENTAGE"
  <2>1. PICK part \in Nat : /\ part = (total * rule.value) \div 100
                            /\ rule.value <= 100 => part <= total
    BY <1>2, PartOfTotal
  <2>2. Discount(rule, total) = IF rule.cap # 0 THEN Least(part, rule.cap) ELSE part
    BY <1>3, <2>1 DEF Discount
  <2>. QED BY <1>1, <1>2, <1>3, <2>1, <2>2 DEF Least
<1>4. CASE rule.type = "FIXED"
  <2>1. Discount(rule, total) = Least(rule.value, total)
    BY <1>4 DEF Discount
  <2>. QED BY <1>1, <1>2, <1>4, <2>1 DEF Least
<1>5. CASE rule.type = "FREE_SHIPPING"
  <2>1. Discount(rule, total) = 0
    BY <1>5 DEF Discount
  <2>. QED BY <1>1, <1>2, <1>5, <2>1
<1>. QED BY <1>2, <1>3, <1>4, <1>5

LEMMA CouponInitLemma == CouponInit => CouponInv
<1>. SUFFICES ASSUME CouponInit PROVE CouponInv
  OBVIOUS
<1>1. CouponTypeOK
  BY CouponAssumption DEF CouponInit, CouponTypeOK
<1>2. RedemptionsKnown
  <2>1. Redeemed = {}
    BY DEF CouponInit, Redeemed
  <2>. QED BY <2>1, FS_EmptySet DEF RedemptionsKnown
<1>3. CountNeverAhead /\ LimitsKept
  BY DEF CouponInit, CountNeverAhead, LimitsKept
<1>4. \A s \in Sessions : /\ GoesBy(couponReq[s]) /\ QuotesInOrder(couponReq[s])
                          /\ Fits(couponReq[s])
  BY DEF CouponInit, GoesBy, QuotesInOrder, Fits, Idle
<1>. QED BY <1>1, <1>2, <1>3, <1>4 DEF CouponInv

\* A step that changes the state of one session, and no row.
LEMMA CouponRequestOnly ==
    ASSUME CouponInv, NEW s \in Sessions, NEW q \in AnyCouponReq,
           couponReq' = [couponReq EXCEPT ![s] = q],
           GoesBy(q), QuotesInOrder(q), Fits(q),
           UNCHANGED <<coupon, redemption, hour, couponRaced>>
    PROVE  CouponInv'
<1>1. \A r \in Sessions : couponReq'[r] = IF r = s THEN q ELSE couponReq[r]
  BY DEF CouponInv, CouponTypeOK
<1>2. CouponTypeOK'
  BY DEF CouponInv, CouponTypeOK, AnyCouponReq
<1>3. (RedemptionsKnown /\ CountNeverAhead /\ LimitsKept)'
  BY DEF CouponInv, RedemptionsKnown, Redeemed, CountNeverAhead, LimitsKept, Uses, UsesBy
<1>4. \A r \in Sessions : (GoesBy(couponReq[r]) /\ QuotesInOrder(couponReq[r]) /\ Fits(couponReq[r]))'
  <2>. SUFFICES ASSUME NEW r \in Sessions
                PROVE  (GoesBy(couponReq[r]) /\ QuotesInOrder(couponReq[r]) /\ Fits(couponReq[r]))'
    OBVIOUS
  <2>1. PICK p \in AnyCouponReq : p = couponReq'[r] /\ GoesBy(p) /\ QuotesInOrder(p) /\ Fits(p)
    BY <1>1 DEF CouponInv, CouponTypeOK, AnyCouponReq
  <2>2. \A c, u : Uses(c)' = Uses(c) /\ UsesBy(c, u)' = UsesBy(c, u)
    BY DEF Uses, UsesBy
  <2>3. GoesBy(p)' /\ QuotesInOrder(p)' /\ Fits(p)'
    BY <2>1, <2>2 DEF GoesBy, QuotesInOrder, Fits
  <2>. QED BY <2>1, <2>3
<1>. QED BY <1>2, <1>3, <1>4 DEF CouponInv

LEMMA IdleCoupon ==
    Idle \in AnyCouponReq /\ GoesBy(Idle) /\ QuotesInOrder(Idle) /\ Fits(Idle)
  BY DEF AnyCouponReq, GoesBy, QuotesInOrder, Fits, Idle

LEMMA ValidateStep ==
    ASSUME CouponInv, NEW s \in Sessions, NEW c \in Coupons, NEW u \in Shoppers,
           NEW total \in CartTotals, ValidateCoupon(s, c, u, total)
    PROVE  CouponInv'
<1>1. PICK row \in Coupon : row = coupon[c]
  BY DEF CouponInv, CouponTypeOK, ValidateCoupon
<1>2. row.active = TRUE /\ row.count < row.global /\ row.count \in Nat
  <2>1. row.active \in BOOLEAN /\ row.global \in Nat /\ row.count \in Nat
    BY CouponAssumption DEF Coupon
  <2>. QED BY <1>1, <2>1 DEF ValidateCoupon, Usable
<1>. DEFINE q == [pc |-> "count", c |-> c, u |-> u, seen |-> row, total |-> total]
<1>3. q \in AnyCouponReq
  BY DEF AnyCouponReq, CountReq
<1>4. GoesBy(q) /\ QuotesInOrder(q) /\ Fits(q)
  BY <1>1, <1>2, NoCouponAssumption DEF GoesBy, QuotesInOrder, Fits
<1>5. couponReq' = [couponReq EXCEPT ![s] = q] /\ UNCHANGED <<coupon, redemption, hour, couponRaced>>
  BY <1>1 DEF ValidateCoupon
<1>. HIDE DEF q
<1>. QED BY <1>3, <1>4, <1>5, CouponRequestOnly

LEMMA CountRedemptionsStep ==
    ASSUME CouponInv, NEW s \in Sessions, CountRedemptions(s)
    PROVE  CouponInv'
<1>1. PICK r \in CountReq : r = couponReq[s]
  BY CouponReqKinds DEF CountRedemptions, CouponInv, CouponTypeOK, AnyCouponReq
<1>2. /\ r # Idle /\ r.c \in Coupons /\ r.u \in Shoppers /\ r.seen \in Coupon
      /\ r.total \in CartTotals /\ r.pc = "count"
  BY DEF CountReq, Idle
<1>3. GoesBy(r) /\ QuotesInOrder(r)
  BY <1>1 DEF CouponInv
<1>. DEFINE q == [pc |-> "quoted", c |-> r.c, u |-> r.u, seen |-> r.seen, total |-> r.total,
                  discount |-> Discount(r.seen.rule, r.total)]
<1>4. CASE Cardinality(UsesBy(r.c, r.u)) < r.seen.perUser /\ r.total >= MinPurchase
  <2>1. couponReq' = [couponReq EXCEPT ![s] = q] /\ UNCHANGED <<coupon, redemption, hour, couponRaced>>
    BY <1>1, <1>4 DEF CountRedemptions
  <2>2. PICK d \in Nat : /\ d = Discount(r.seen.rule, r.total)
                         /\ LET rule == r.seen.rule
                            IN  /\ ~(rule.type = "PERCENTAGE" /\ rule.value > 100) => d <= r.total
                                /\ rule.type = "PERCENTAGE" /\ rule.cap # 0 => d <= rule.cap
    BY <1>2, DiscountFits
  <2>3. q \in AnyCouponReq
    BY <1>2, <2>2 DEF AnyCouponReq, QuoteReq
  <2>4. GoesBy(q) /\ QuotesInOrder(q)
    BY <1>2, <1>3, <1>4 DEF GoesBy, QuotesInOrder
  <2>5. Fits(q)
    BY <2>2 DEF Fits
  <2>. HIDE DEF q
  <2>. QED BY <2>1, <2>3, <2>4, <2>5, CouponRequestOnly
<1>5. CASE ~(Cardinality(UsesBy(r.c, r.u)) < r.seen.perUser /\ r.total >= MinPurchase)
  BY <1>1, <1>5, IdleCoupon, CouponRequestOnly DEF CountRedemptions
<1>. QED BY <1>4, <1>5

LEMMA ReadForApplyStep ==
    ASSUME CouponInv, NEW s \in Sessions, NEW o \in CouponOrders, ReadForApply(s, o)
    PROVE  CouponInv'
<1>1. PICK r \in QuoteReq : r = couponReq[s]
  BY CouponReqKinds DEF ReadForApply, CouponInv, CouponTypeOK, AnyCouponReq
<1>2. r # Idle /\ r.c \in Coupons /\ r.u \in Shoppers /\ r.seen \in Coupon /\ r.pc = "quoted"
  BY DEF QuoteReq, Idle
<1>3. GoesBy(r) /\ QuotesInOrder(r)
  BY <1>1 DEF CouponInv
<1>4. PICK row \in Coupon : row = coupon[r.c]
  BY <1>2, <1>3 DEF GoesBy, CouponInv, CouponTypeOK
<1>. DEFINE q == [pc |-> "apply", c |-> r.c, u |-> r.u, seen |-> r.seen, read |-> row, o |-> o]
<1>5. CASE redemption[o] = None
  <2>1. couponReq' = [couponReq EXCEPT ![s] = q] /\ UNCHANGED <<coupon, redemption, hour, couponRaced>>
    BY <1>1, <1>4, <1>5 DEF ReadForApply
  <2>2. q \in AnyCouponReq
    BY <1>2 DEF AnyCouponReq, ApplyReq
  <2>3. row.count <= Cardinality(Uses(r.c)) /\ row.count \in Nat
    BY <1>2, <1>4, NoCouponAssumption DEF CouponInv, CountNeverAhead, Coupon
  <2>4. GoesBy(q) /\ QuotesInOrder(q) /\ Fits(q)
    BY <1>2, <1>3, <1>4, <2>3 DEF GoesBy, QuotesInOrder, Fits
  <2>. HIDE DEF q
  <2>. QED BY <2>1, <2>2, <2>4, CouponRequestOnly
<1>6. CASE redemption[o] # None
  BY <1>1, <1>6, IdleCoupon, CouponRequestOnly DEF ReadForApply
<1>. QED BY <1>5, <1>6

\* A coupon whose row changes, without a use.
LEMMA CouponRowOnly ==
    ASSUME CouponInv, NEW c \in Coupons, NEW new \in Coupon,
           coupon' = [coupon EXCEPT ![c] = new],
           UNCHANGED <<redemption, couponReq, hour, couponRaced>>,
           \/ coupon[c] = None /\ new.count = 0
           \/ /\ coupon[c] \in Coupon /\ new.count = coupon[c].count
              /\ new.global = coupon[c].global /\ new.perUser = coupon[c].perUser
              /\ new.active = FALSE
    PROVE  CouponInv'
<1>1. \A d \in Coupons : coupon'[d] = IF d = c THEN new ELSE coupon[d]
  BY DEF CouponInv, CouponTypeOK
<1>2. \A d, u : Uses(d)' = Uses(d) /\ UsesBy(d, u)' = UsesBy(d, u)
  BY DEF Uses, UsesBy
<1>3. CouponTypeOK'
  BY DEF CouponInv, CouponTypeOK
<1>4. \A o \in Redeemed : redemption[o].c \in Coupons
  BY DEF Redeemed, CouponInv, CouponTypeOK
<1>5. RedemptionsKnown'
  BY <1>1, <1>4, NoCouponAssumption DEF CouponInv, RedemptionsKnown, Redeemed
<1>6. coupon[c] = None => \A u : Uses(c) = {} /\ UsesBy(c, u) = {}
  BY DEF CouponInv, RedemptionsKnown, Redeemed, Uses, UsesBy
<1>7. CountNeverAhead' /\ LimitsKept'
  <2>1. CASE coupon[c] = None
    <3>1. Cardinality(Uses(c)) = 0 /\ \A u : Cardinality(UsesBy(c, u)) = 0
      BY <1>6, <2>1, FS_EmptySet
    <3>2. new.count = 0 /\ new.global \in Nat /\ new.perUser \in Nat
      BY <2>1, CouponAssumption, NoCouponAssumption DEF Coupon
    <3>. QED BY <1>1, <1>2, <3>1, <3>2 DEF CouponInv, CountNeverAhead, LimitsKept
  <2>2. CASE coupon[c] # None
    BY <1>1, <1>2, <2>2 DEF CouponInv, CountNeverAhead, LimitsKept
  <2>. QED BY <2>1, <2>2
<1>8. ASSUME NEW s \in Sessions
      PROVE  (GoesBy(couponReq[s]) /\ QuotesInOrder(couponReq[s]) /\ Fits(couponReq[s]))'
  <2>1. PICK q \in AnyCouponReq : q = couponReq[s] /\ couponReq'[s] = q
    BY DEF CouponInv, CouponTypeOK, AnyCouponReq
  <2>2. GoesBy(q) /\ QuotesInOrder(q) /\ Fits(q)
    BY <2>1 DEF CouponInv
  <2>3. q # Idle => q.c \in Coupons /\ q.seen \in Coupon
    BY CouponReqKinds
  <2>4. GoesBy(q)'
    BY <1>1, <1>2, <2>2, <2>3, NoCouponAssumption DEF GoesBy
  <2>5. QuotesInOrder(q)'
    <3>. SUFFICES ASSUME q # Idle, q.c \notin couponRaced
                  PROVE  QuotesInOrder(q)'
      BY DEF QuotesInOrder
    <3>1. CASE q.c = c
      <4>1. coupon[c] # None /\ new.count = coupon[c].count /\ new # q.seen
        BY <2>2, <3>1 DEF GoesBy
      <4>. QED BY <1>1, <1>2, <2>2, <2>3, <3>1, <4>1 DEF QuotesInOrder
    <3>2. CASE q.c # c
      BY <1>1, <1>2, <2>2, <2>3, <3>2 DEF QuotesInOrder
    <3>. QED BY <3>1, <3>2
  <2>6. Fits(q)'
    BY <2>2 DEF Fits
  <2>. QED BY <2>1, <2>4, <2>5, <2>6
<1>. QED BY <1>3, <1>5, <1>7, <1>8 DEF CouponInv

LEMMA CommitApplyStep ==
    ASSUME CouponInv, NEW s \in Sessions, CommitApply(s)
    PROVE  CouponInv'
<1>1. PICK r \in ApplyReq : r = couponReq[s]
  BY CouponReqKinds DEF CommitApply, CouponInv, CouponTypeOK, AnyCouponReq
<1>2. /\ r # Idle /\ r.c \in Coupons /\ r.u \in Shoppers /\ r.seen \in Coupon /\ r.pc = "apply"
      /\ r.read \in Coupon /\ r.o \in CouponOrders
  BY DEF ApplyReq, Idle
<1>3. GoesBy(r) /\ QuotesInOrder(r)
  BY <1>1 DEF CouponInv
<1>4. PICK row \in Coupon : row = coupon[r.c]
  BY <1>2, <1>3 DEF GoesBy, CouponInv, CouponTypeOK
<1>5. CASE redemption[r.o] # None
  BY <1>1, <1>5, IdleCoupon, CouponRequestOnly DEF CommitApply
<1>6. CASE redemption[r.o] = None
  <2>. DEFINE n == r.read.count + 1
              new == [row EXCEPT !.count = n]
              x == [c |-> r.c, u |-> r.u]
  <2>1. Flush(row, r.read, [r.read EXCEPT !.count = @ + 1]) = new
    <3>1. r.read.count \in Nat /\ r.read.count + 1 # r.read.count
      BY <1>2 DEF Coupon
    <3>2. DOMAIN row = {"rule", "users", "global", "perUser", "count", "active"}
      BY DEF Coupon
    <3>3. \A col \in DOMAIN row :
            [r.read EXCEPT !.count = @ + 1][col] = IF col = "count" THEN n ELSE r.read[col]
      BY <1>2, <3>2 DEF Coupon
    <3>. QED BY <1>2, <3>1, <3>2, <3>3 DEF Flush, Coupon
  <2>2. /\ coupon' = [coupon EXCEPT ![r.c] = new]
        /\ redemption' = [redemption EXCEPT ![r.o] = x]
        /\ couponRaced' = IF row # r.seen THEN couponRaced \cup {r.c} ELSE couponRaced
        /\ couponReq' = [couponReq EXCEPT ![s] = Idle] /\ UNCHANGED hour
    BY <1>1, <1>4, <1>6, <2>1 DEF CommitApply, Changed
  <2>3. /\ n \in Nat /\ n = r.read.count + 1 /\ new \in Coupon /\ new.count = n
        /\ new.global = row.global /\ new.perUser = row.perUser
        /\ x \in [c: Coupons, u: Shoppers] /\ x # None /\ x.c = r.c /\ x.u = r.u
    BY <1>2, NoCouponAssumption DEF Coupon
  <2>. HIDE DEF n, new, x
  <2>4. /\ \A c \in Coupons : coupon'[c] = IF c = r.c THEN new ELSE coupon[c]
        /\ \A o \in CouponOrders : redemption'[o] = IF o = r.o THEN x ELSE redemption[o]
        /\ \A t \in Sessions : couponReq'[t] = IF t = s THEN Idle ELSE couponReq[t]
    BY <2>2 DEF CouponInv, CouponTypeOK
  <2>5. CouponTypeOK'
    BY <1>2, <2>2, <2>3 DEF CouponInv, CouponTypeOK
  <2>6. Redeemed' = Redeemed \cup {r.o}
    BY <1>2, <2>3, <2>4 DEF Redeemed
  <2>7. RedemptionsKnown'
    <3>1. IsFiniteSet(Redeemed')
      BY <2>6, FS_AddElement DEF CouponInv, RedemptionsKnown
    <3>2. \A o \in Redeemed : redemption[o].c \in Coupons /\ coupon[redemption[o].c] # None
      BY DEF Redeemed, CouponInv, CouponTypeOK, RedemptionsKnown
    <3>3. new # None
      BY <2>3, NoCouponAssumption
    <3>. QED BY <1>2, <1>6, <2>3, <2>4, <2>6, <3>1, <3>2, <3>3 DEF RedemptionsKnown, Redeemed
  <2>8. \A c, u : /\ Uses(c)' = IF c = r.c THEN Uses(c) \cup {r.o} ELSE Uses(c)
                  /\ UsesBy(c, u)' = IF c = r.c /\ u = r.u THEN UsesBy(c, u) \cup {r.o}
                                    ELSE UsesBy(c, u)
                  /\ r.o \notin Uses(c) /\ r.o \notin UsesBy(c, u)
    BY <1>2, <1>6, <2>3, <2>4 DEF Uses, UsesBy
  <2>9. \A c, u : /\ Cardinality(Uses(c)) \in Nat /\ Cardinality(UsesBy(c, u)) \in Nat
                  /\ Cardinality(Uses(c)') = IF c = r.c THEN Cardinality(Uses(c)) + 1
                                             ELSE Cardinality(Uses(c))
                  /\ Cardinality(UsesBy(c, u)') = IF c = r.c /\ u = r.u
                                                  THEN Cardinality(UsesBy(c, u)) + 1
                                                  ELSE Cardinality(UsesBy(c, u))
    BY <2>8, UsesAreFinite, FS_AddElement DEF CouponInv
  <2>10. r.c \notin couponRaced' =>
           /\ r.c \notin couponRaced /\ row = r.seen /\ r.read.count = row.count
    BY <1>2, <1>3, <1>4, <2>2 DEF QuotesInOrder, Coupon
  <2>11. CountNeverAhead'
    <3>1. n <= Cardinality(Uses(r.c)')
      BY <1>2, <1>3, <2>3, <2>9 DEF GoesBy, Coupon
    <3>. QED BY <2>3, <2>4, <2>9, <3>1 DEF CouponInv, CountNeverAhead
  <2>12. LimitsKept'
    <3>. SUFFICES ASSUME NEW c \in Coupons \ couponRaced', coupon'[c] # None
                  PROVE  /\ coupon'[c].count = Cardinality(Uses(c)')
                         /\ coupon'[c].count <= coupon'[c].global
                         /\ \A u \in Shoppers : Cardinality(UsesBy(c, u)') <= coupon'[c].perUser
      BY DEF LimitsKept
    <3>1. c \notin couponRaced
      BY <2>2
    <3>2. CASE c = r.c
      <4>1. row = r.seen /\ r.read.count = row.count /\ coupon[c] = row /\ row # None
        BY <1>4, <2>10, <3>2, NoCouponAssumption
      <4>2. /\ row.count = Cardinality(Uses(c))
            /\ \A u \in Shoppers : Cardinality(UsesBy(c, u)) <= row.perUser
        BY <3>1, <4>1 DEF CouponInv, LimitsKept
      <4>3. row.count < row.global /\ Cardinality(UsesBy(c, r.u)) < row.perUser
        BY <1>2, <1>3, <1>4, <3>1, <3>2, <4>1 DEF GoesBy, QuotesInOrder
      <4>4. row.count \in Nat /\ row.global \in Nat /\ row.perUser \in Nat
        BY CouponAssumption DEF Coupon
      <4>5. n <= row.global /\ n = Cardinality(Uses(c)')
        BY <2>3, <2>9, <3>2, <4>1, <4>2, <4>3, <4>4
      <4>6. ASSUME NEW u \in Shoppers PROVE Cardinality(UsesBy(c, u)') <= row.perUser
        BY <2>9, <3>2, <4>2, <4>3, <4>4
      <4>. QED BY <2>3, <2>4, <3>2, <4>5, <4>6
    <3>3. CASE c # r.c
      BY <2>4, <2>9, <3>1, <3>3 DEF CouponInv, LimitsKept
    <3>. QED BY <3>2, <3>3
  <2>13. ASSUME NEW t \in Sessions
         PROVE  (GoesBy(couponReq[t]) /\ QuotesInOrder(couponReq[t]) /\ Fits(couponReq[t]))'
    <3>1. PICK q \in AnyCouponReq : /\ q = couponReq'[t]
                                    /\ GoesBy(q) /\ QuotesInOrder(q) /\ Fits(q)
      BY <2>4, IdleCoupon DEF CouponInv, CouponTypeOK, AnyCouponReq
    <3>2. q # Idle => q.c \in Coupons /\ q.u \in Shoppers /\ q.seen \in Coupon
      BY CouponReqKinds
    <3>3. q.pc = "apply" => q.read \in Coupon
      BY CouponReqKinds DEF ApplyReq
    <3>4. GoesBy(q)'
      <4>. SUFFICES ASSUME q # Idle PROVE GoesBy(q)'
        BY DEF GoesBy
      <4>1. coupon'[q.c] # None
        BY <2>3, <2>4, <3>1, <3>2, NoCouponAssumption DEF GoesBy
      <4>2. q.pc = "apply" => q.read.count <= Cardinality(Uses(q.c)')
        BY <2>9, <3>1, <3>3 DEF GoesBy, Coupon
      <4>. QED BY <3>1, <4>1, <4>2 DEF GoesBy
    <3>5. QuotesInOrder(q)'
      <4>. SUFFICES ASSUME q # Idle, q.c \notin couponRaced'
                    PROVE  QuotesInOrder(q)'
        BY DEF QuotesInOrder
      <4>1. q.c \notin couponRaced
        BY <2>2
      <4>2. CASE q.c = r.c
        <5>1. coupon[q.c] = row /\ n = row.count + 1 /\ row.count \in Nat
          BY <1>4, <2>3, <2>10, <4>2 DEF Coupon
        <5>2. q.seen.count <= row.count /\ q.seen.count \in Nat
          BY <3>1, <3>2, <4>1, <5>1 DEF QuotesInOrder, Coupon
        <5>3. coupon'[q.c] = new /\ new # q.seen
          BY <2>3, <2>4, <3>2, <4>2, <5>1, <5>2
        <5>4. q.pc = "apply" => /\ q.seen.count <= q.read.count /\ q.read.count <= row.count
                               /\ q.read.count \in Nat
          BY <3>1, <3>3, <4>1, <5>1 DEF QuotesInOrder, Coupon
        <5>5. q.seen.count <= n /\ (q.pc = "apply" => q.read.count <= n)
          BY <5>1, <5>2, <5>4
        <5>. QED BY <2>3, <5>3, <5>4, <5>5 DEF QuotesInOrder
      <4>3. CASE q.c # r.c
        BY <2>4, <2>9, <3>1, <3>2, <4>1, <4>3 DEF QuotesInOrder
      <4>. QED BY <4>2, <4>3
    <3>6. Fits(q)'
      BY <3>1 DEF Fits
    <3>. QED BY <3>1, <3>4, <3>5, <3>6
  <2>. QED BY <2>5, <2>7, <2>11, <2>12, <2>13 DEF CouponInv
<1>. QED BY <1>5, <1>6

LEMMA CouponAdminStep ==
    ASSUME CouponInv, NEW c \in Coupons,
           \/ DeactivateCoupon(c)
           \/ \E rule \in Rule, users \in (SUBSET Shoppers) \ {{}}, g, p \in UsageLimits :
                CreateCoupon(c, rule, users, g, p)
    PROVE  CouponInv'
<1>1. CASE DeactivateCoupon(c)
  <2>1. PICK row \in Coupon : row = coupon[c]
    BY <1>1 DEF CouponInv, CouponTypeOK, DeactivateCoupon
  <2>. DEFINE new == [row EXCEPT !.active = FALSE]
  <2>2. coupon' = [coupon EXCEPT ![c] = new] /\ UNCHANGED <<redemption, couponReq, hour, couponRaced>>
    BY <1>1, <2>1 DEF DeactivateCoupon
  <2>3. /\ new \in Coupon /\ new.count = row.count /\ new.global = row.global
        /\ new.perUser = row.perUser /\ new.active = FALSE
    BY DEF Coupon
  <2>. HIDE DEF new
  <2>. QED BY <2>1, <2>2, <2>3, CouponRowOnly
<1>2. ASSUME NEW rule \in Rule, NEW users \in SUBSET Shoppers, NEW g \in UsageLimits,
             NEW p \in UsageLimits, CreateCoupon(c, rule, users, g, p)
      PROVE  CouponInv'
  <2>. DEFINE new == [rule |-> rule, users |-> users, global |-> g, perUser |-> p, count |-> 0,
                      active |-> TRUE]
  <2>1. /\ coupon[c] = None /\ coupon' = [coupon EXCEPT ![c] = new]
        /\ UNCHANGED <<redemption, couponReq, hour, couponRaced>>
    BY <1>2 DEF CreateCoupon
  <2>2. new \in Coupon /\ new.count = 0
    BY DEF Coupon
  <2>. HIDE DEF new
  <2>. QED BY <2>1, <2>2, CouponRowOnly
<1>. QED BY <1>1, <1>2

\* The clock, and steps that change nothing.
LEMMA CouponClock ==
    ASSUME CouponInv, hour' \in 0..LastHour, UNCHANGED <<coupon, redemption, couponReq, couponRaced>>
    PROVE  CouponInv'
<1>1. \A c, u : Uses(c)' = Uses(c) /\ UsesBy(c, u)' = UsesBy(c, u)
  BY DEF Uses, UsesBy
<1>2. CouponTypeOK'
  BY DEF CouponInv, CouponTypeOK
<1>3. (RedemptionsKnown /\ CountNeverAhead /\ LimitsKept)'
  BY <1>1 DEF CouponInv, RedemptionsKnown, Redeemed, CountNeverAhead, LimitsKept
<1>4. ASSUME NEW r \in Sessions
      PROVE  (GoesBy(couponReq[r]) /\ QuotesInOrder(couponReq[r]) /\ Fits(couponReq[r]))'
  BY <1>1 DEF CouponInv, GoesBy, QuotesInOrder, Fits
<1>. QED BY <1>2, <1>3, <1>4 DEF CouponInv

LEMMA CouponNextLemma ==
    ASSUME CouponInv, [CouponNext]_couponVars
    PROVE  CouponInv'
<1>1. CASE UNCHANGED couponVars
  BY <1>1, CouponClock DEF couponVars, CouponInv, CouponTypeOK
<1>2. CASE HourPasses
  BY <1>2, CouponClock, CouponAssumption DEF HourPasses, CouponInv, CouponTypeOK
<1>3. ASSUME NEW c \in Coupons,
             \/ DeactivateCoupon(c)
             \/ \E rule \in Rule, users \in (SUBSET Shoppers) \ {{}}, g, p \in UsageLimits :
                  CreateCoupon(c, rule, users, g, p)
      PROVE  CouponInv'
  BY <1>3, CouponAdminStep
<1>4. ASSUME NEW s \in Sessions, NEW c \in Coupons, NEW u \in Shoppers, NEW total \in CartTotals,
             ValidateCoupon(s, c, u, total)
      PROVE  CouponInv'
  BY <1>4, ValidateStep
<1>5. ASSUME NEW s \in Sessions, CountRedemptions(s) \/ CommitApply(s)
      PROVE  CouponInv'
  BY <1>5, CountRedemptionsStep, CommitApplyStep
<1>6. ASSUME NEW s \in Sessions, DropQuote(s)
      PROVE  CouponInv'
  BY <1>6, IdleCoupon, CouponRequestOnly DEF DropQuote
<1>7. ASSUME NEW s \in Sessions, NEW o \in CouponOrders, ReadForApply(s, o)
      PROVE  CouponInv'
  BY <1>7, ReadForApplyStep
<1>. QED BY <1>1, <1>2, <1>3, <1>4, <1>5, <1>6, <1>7 DEF CouponNext

\* However uses race, a counter is never ahead of the redemptions; a coupon that nobody raced
\* for keeps both limits, quotes fit the cart, and the list and validate agree on who may
\* use a coupon: coupon-service.
THEOREM CouponsAreSafe == CouponSpec => []CouponSafety
<1>1. CouponSpec => []CouponInv
  BY CouponInitLemma, CouponNextLemma, PTL DEF CouponSpec
<1>2. CouponInv => QuoteFitsCart
  BY DEF CouponInv, Fits, QuoteFitsCart
<1>3. ASSUME CouponInv
      PROVE  ListedIsUsable
  <2>. SUFFICES ASSUME NEW c \in Coupons, NEW u \in Shoppers, coupon[c] # None
                PROVE  Listed(u, c) <=> /\ Usable(coupon[c], u)
                                        /\ Cardinality(UsesBy(c, u)) < coupon[c].perUser
    BY DEF ListedIsUsable
  <2>1. PICK row \in Coupon : row = coupon[c]
    BY <1>3 DEF CouponInv, CouponTypeOK
  <2>2. row.count \in Nat /\ row.global \in Nat
    BY CouponAssumption DEF Coupon
  <2>3. hour \in Nat
    BY <1>3, CouponAssumption DEF CouponInv, CouponTypeOK
  <2>. QED BY <2>1, <2>2, <2>3, CouponAssumption DEF Listed, Usable
<1>4. CouponInv => CouponSafety
  BY <1>2, <1>3 DEF CouponInv, CouponSafety
<1>. QED BY <1>1, <1>4, PTL

-----------------------------------------------------------------------------
(* Addresses: the limit and the primary address *)

AnyAddressReq == {Idle} \cup UnsetReq \cup InsertReq \cup LoadedReq \cup MarkReq \cup DeleteReq

Creating(u) ==
    {s \in Sessions : addressReq[s].pc \in {"counted", "insert"} /\ addressReq[s].u = u}
Replacing(u) ==
    {s \in Sessions : addressReq[s].pc \in {"promote", "latest"} /\ addressReq[s].u = u}

\* Addresses and requests that may still add one: all but one session may have counted too early.
RoomLeft(u) ==
    /\ IsFiniteSet(Of(u))
    /\ Cardinality(Of(u)) + Cardinality(Creating(u))
         <= MaxAddressesPerUser + Cardinality(Sessions) - 1

\* What the only request of a user knows.
KnowsRows(q) ==
    /\ q.pc \in {"counted", "insert"} => Cardinality(Of(q.u)) < MaxAddressesPerUser
    /\ q.pc = "insert" => q.unset = (IF q.primary THEN PrimaryOf(q.u) ELSE {})
    /\ q.pc \in {"loaded", "mark"} => q.a \in Of(q.u) /\ q.was = address[q.a].primary
    /\ q.pc = "mark" => q.unset = (IF q.primary THEN PrimaryOf(q.u) \ {q.a} ELSE {})
    /\ q.pc \in {"promote", "latest"} => PrimaryOf(q.u) = {}
    /\ q.pc = "latest" => q.a \in Of(q.u) /\ q.was = FALSE

\* A user whose requests do not overlap.
InOrderOf(u) ==
    u \notin overlapped =>
        /\ \A s, t \in InFlight(u) : s = t
        /\ Cardinality(Of(u)) <= MaxAddressesPerUser
        /\ \A a, b \in PrimaryOf(u) : a = b
        /\ \A s \in InFlight(u) : KnowsRows(addressReq[s])
        /\ u \in chosen => PrimaryOf(u) # {} \/ Replacing(u) # {}

\* Ids are not used again while somebody remembers them.
SeenAreOwn(q) == \A a \in Seen(q) : address[a] = None \/ address[a].owner = q.u

AddressInv ==
    /\ AddressTypeOK
    /\ \A u \in Owners : RoomLeft(u) /\ InOrderOf(u)
    /\ \A s \in Sessions : SeenAreOwn(addressReq[s])

LEMMA AddressReqKinds ==
    ASSUME NEW q \in AnyAddressReq
    PROVE  /\ q.pc = "counted" => q \in UnsetReq
           /\ q.pc = "insert" => q \in InsertReq
           /\ q.pc = "loaded" => q \in LoadedReq
           /\ q.pc = "mark" => q \in MarkReq
           /\ q.pc \in {"promote", "latest"} => q \in DeleteReq
           /\ q.pc = "idle" <=> q = Idle
           /\ q # Idle => q.u \in Owners
  BY DEF AnyAddressReq, UnsetReq, InsertReq, LoadedReq, MarkReq, DeleteReq, Idle

LEMMA RequestsAfter ==
    ASSUME AddressTypeOK, NEW s \in Sessions, NEW q, addressReq' = [addressReq EXCEPT ![s] = q]
    PROVE  \A t \in Sessions : addressReq'[t] = IF t = s THEN q ELSE addressReq[t]
  BY DEF AddressTypeOK

\* A request that is none is of no kind.
LEMMA KindIsBusy ==
    ASSUME NEW q, q.pc # "idle"
    PROVE  q # Idle
  BY DEF Idle

\* A step of a request of u, as others see it.
LEMMA AddressStep ==
    ASSUME AddressInv, NEW s \in Sessions, NEW u \in Owners, NEW q \in AnyAddressReq,
           addressReq[s] = Idle \/ addressReq[s].u = u, q = Idle \/ q.u = u,
           addressReq' = [addressReq EXCEPT ![s] = q],
           address' \in [AddressIds -> Address \cup {None}],
           \A a \in AddressIds : address'[a] # address[a] =>
               /\ address[a] = None \/ address[a].owner = u
               /\ address'[a] = None \/ address'[a].owner = u
               /\ address[a] = None => \A t \in Sessions : a \notin Seen(addressReq[t]),
           chosen' \subseteq Owners, chosen' \ {u} = chosen \ {u},
           overlapped' \subseteq Owners, overlapped' \ {u} = overlapped \ {u},
           SeenAreOwn(q)', RoomLeft(u)', InOrderOf(u)'
    PROVE  AddressInv'
<1>1. AddressTypeOK'
  BY DEF AddressInv, AddressTypeOK, AnyAddressReq
<1>2. ASSUME NEW v \in Owners, v # u
      PROVE  RoomLeft(v)' /\ InOrderOf(v)'
  <2>1. /\ InFlight(v)' = InFlight(v) /\ Creating(v)' = Creating(v)
        /\ Replacing(v)' = Replacing(v) /\ s \notin InFlight(v)
        /\ \A t \in Sessions \ {s} : addressReq'[t] = addressReq[t]
    <3>1. \A t \in Sessions : addressReq'[t] = IF t = s THEN q ELSE addressReq[t]
      BY RequestsAfter DEF AddressInv
    <3>2. /\ q # Idle => q.u # v
          /\ addressReq[s] # Idle => addressReq[s].u # v
          /\ q.pc \in {"counted", "insert", "promote", "latest"} => q # Idle
          /\ addressReq[s].pc \in {"counted", "insert", "promote", "latest"}
               => addressReq[s] # Idle
      BY <1>2 DEF Idle
    <3>. QED BY <3>1, <3>2 DEF InFlight, Creating, Replacing
  <2>2. \A a \in AddressIds : \/ address'[a] = address[a]
                              \/ /\ address[a] = None \/ address[a].owner # v
                                 /\ address'[a] = None \/ address'[a].owner # v
    BY <1>2
  <2>3. Of(v)' = Of(v) /\ PrimaryOf(v)' = PrimaryOf(v)
        /\ \A a \in Of(v) : address'[a] = address[a]
    BY <2>2 DEF Of, PrimaryOf
  <2>4. (v \in chosen' <=> v \in chosen) /\ (v \in overlapped' <=> v \in overlapped)
    BY <1>2
  <2>5. RoomLeft(v)'
    BY <2>1, <2>3 DEF AddressInv, RoomLeft
  <2>6. ASSUME NEW t \in InFlight(v), KnowsRows(addressReq[t])
        PROVE  KnowsRows(addressReq[t])'
    <3>1. PICK r \in AnyAddressReq : r = addressReq[t] /\ addressReq'[t] = r /\ r.u = v
      BY <2>1, <2>6 DEF InFlight, AddressInv, AddressTypeOK, AnyAddressReq
    <3>2. KnowsRows(r)'
      <4>1. KnowsRows(r) /\ r.u = v
        BY <2>6, <3>1
      <4>2. \A w : w = v => Of(w)' = Of(w) /\ PrimaryOf(w)' = PrimaryOf(w)
        BY <2>3
      <4>. QED BY <2>3, <4>1, <4>2 DEF KnowsRows
    <3>. QED BY <3>1, <3>2
  <2>7. InOrderOf(v)'
    <3>1. InOrderOf(v)
      BY DEF AddressInv
    <3>2. v \notin overlapped => \A t \in InFlight(v)' : KnowsRows(addressReq[t])'
      BY <2>1, <2>6, <3>1 DEF InOrderOf
    <3>. QED BY <2>1, <2>3, <2>4, <3>1, <3>2 DEF InOrderOf
  <2>. QED BY <2>5, <2>7
<1>3. ASSUME NEW t \in Sessions
      PROVE  SeenAreOwn(addressReq[t])'
  <2>1. CASE t = s
    <3>1. addressReq'[t] = q
      BY <2>1 DEF AddressInv, AddressTypeOK
    <3>. QED BY <3>1
  <2>2. CASE t # s
    <3>1. PICK r \in AnyAddressReq : r = addressReq[t] /\ addressReq'[t] = r
      BY <2>2, RequestsAfter DEF AddressInv, AddressTypeOK, AnyAddressReq
    <3>2. \A a \in Seen(r) : a \in AddressIds /\ (address[a] = None \/ address[a].owner = r.u)
      BY <3>1 DEF AddressInv, SeenAreOwn, Seen
    <3>3. \A a \in Seen(r) : address'[a] = None \/ address'[a].owner = r.u
      BY <3>1, <3>2
    <3>4. SeenAreOwn(r)'
      BY <3>3 DEF SeenAreOwn
    <3>. QED BY <3>1, <3>4
  <2>. QED BY <2>1, <2>2
<1>. QED BY <1>1, <1>2, <1>3 DEF AddressInv

LEMMA CreatingIsFinite ==
    ASSUME NEW u
    PROVE  /\ IsFiniteSet(Creating(u)) /\ Cardinality(Creating(u)) \in Nat
           /\ Cardinality(Creating(u)) <= Cardinality(Sessions) /\ Cardinality(Sessions) \in Nat
<1>1. Creating(u) \subseteq Sessions
  BY DEF Creating
<1>. QED BY <1>1, AddressAssumption, FS_Subset, FS_CardinalityType

LEMMA RoomKept ==
    ASSUME NEW u \in Owners, RoomLeft(u), Of(u)' \subseteq Of(u), Creating(u)' \subseteq Creating(u)
    PROVE  RoomLeft(u)'
<1>1. /\ IsFiniteSet(Of(u)') /\ Cardinality(Of(u)') <= Cardinality(Of(u))
      /\ Cardinality(Of(u)') \in Nat /\ Cardinality(Of(u)) \in Nat
  BY FS_Subset, FS_CardinalityType DEF RoomLeft
<1>2. Cardinality(Creating(u)') <= Cardinality(Creating(u)) /\ Cardinality(Creating(u)') \in Nat
  BY CreatingIsFinite, FS_Subset, FS_CardinalityType
<1>3. Cardinality(Creating(u)) \in Nat /\ Cardinality(Sessions) \in Nat
  BY CreatingIsFinite
<1>. QED BY <1>1, <1>2, <1>3, AddressAssumption DEF RoomLeft

LEMMA AddressInitLemma == AddressInit => AddressInv
<1>. SUFFICES ASSUME AddressInit PROVE AddressInv
  OBVIOUS
<1>1. AddressTypeOK
  BY DEF AddressInit, AddressTypeOK
<1>2. \A s \in Sessions : SeenAreOwn(addressReq[s])
  BY DEF AddressInit, SeenAreOwn, Seen, Idle
<1>3. ASSUME NEW u \in Owners PROVE RoomLeft(u) /\ InOrderOf(u)
  <2>1. Of(u) = {} /\ PrimaryOf(u) = {}
    BY DEF AddressInit, Of, PrimaryOf
  <2>2. InFlight(u) = {} /\ Creating(u) = {}
    BY DEF AddressInit, InFlight, Creating, Idle
  <2>3. CASE Sessions # {}
    <3>1. Cardinality(Sessions) \in Nat /\ Cardinality(Sessions) # 0
      BY <2>3, AddressAssumption, FS_EmptySet, FS_CardinalityType
    <3>. QED BY <2>1, <2>2, <3>1, FS_EmptySet, AddressAssumption
         DEF RoomLeft, InOrderOf, AddressInit
  <2>4. CASE Sessions = {}
    <3>1. Cardinality(Sessions) = 0
      BY <2>4, FS_EmptySet
    <3>. QED BY <2>1, <2>2, <3>1, FS_EmptySet, AddressAssumption
         DEF RoomLeft, InOrderOf, AddressInit
  <2>. QED BY <2>3, <2>4
<1>. QED BY <1>1, <1>2, <1>3 DEF AddressInv

\* A request of u starts with something it has read.
LEMMA BeginStep ==
    ASSUME AddressInv, NEW s \in Sessions, NEW u \in Owners, NEW q \in AnyAddressReq,
           q.u = u, q # Idle, Begin(s, u, q), SeenAreOwn(q), KnowsRows(q),
           q.pc \in {"counted", "insert"} => Cardinality(Of(u)) < MaxAddressesPerUser
    PROVE  AddressInv'
<1>1. /\ addressReq[s] = Idle /\ addressReq' = [addressReq EXCEPT ![s] = q]
      /\ overlapped' = IF InFlight(u) # {} THEN overlapped \cup {u} ELSE overlapped
      /\ UNCHANGED <<address, chosen>>
  BY DEF Begin
<1>2. /\ InFlight(u)' = InFlight(u) \cup {s}
      /\ Replacing(u) \subseteq Replacing(u)'
      /\ \A t \in Sessions : addressReq'[t] = IF t = s THEN q ELSE addressReq[t]
  <2>1. s \notin Replacing(u) /\ s \notin InFlight(u)
    BY <1>1 DEF Replacing, InFlight, Idle
  <2>2. \A t \in Sessions : addressReq'[t] = IF t = s THEN q ELSE addressReq[t]
    BY <1>1, RequestsAfter DEF AddressInv
  <2>. QED BY <1>1, <2>1, <2>2 DEF InFlight, Replacing
<1>3. Of(u)' = Of(u) /\ PrimaryOf(u)' = PrimaryOf(u)
  BY <1>1 DEF Of, PrimaryOf
<1>4. RoomLeft(u)'
  <2>1. CASE q.pc \in {"counted", "insert"}
    <3>1. IsFiniteSet(Of(u)) /\ Cardinality(Of(u)) \in Nat
      BY FS_CardinalityType DEF AddressInv, RoomLeft
    <3>2. Cardinality(Creating(u)') <= Cardinality(Sessions) /\ Cardinality(Creating(u)') \in Nat
      <4>1. (/\ Cardinality(Creating(u)) <= Cardinality(Sessions)
             /\ Cardinality(Creating(u)) \in Nat)'
        BY CreatingIsFinite, PTL
      <4>. QED BY <4>1
    <3>3. Cardinality(Sessions) \in Nat
      BY CreatingIsFinite
    <3>. QED BY <1>3, <2>1, <3>1, <3>2, <3>3, AddressAssumption DEF RoomLeft
  <2>2. CASE q.pc \notin {"counted", "insert"}
    <3>1. Creating(u)' \subseteq Creating(u)
      BY <1>2, <2>2 DEF Creating
    <3>. QED BY <1>3, <3>1, RoomKept DEF AddressInv
  <2>. QED BY <2>1, <2>2
<1>5. SeenAreOwn(q)' /\ KnowsRows(q)'
  BY <1>1, <1>3 DEF SeenAreOwn, KnowsRows
<1>6. InOrderOf(u)'
  <2>. SUFFICES ASSUME u \notin overlapped' PROVE InOrderOf(u)'
    BY DEF InOrderOf
  <2>1. InFlight(u) = {} /\ u \notin overlapped /\ InFlight(u)' = {s}
    BY <1>1, <1>2
  <2>2. \A t \in InFlight(u)' : t = s /\ KnowsRows(addressReq[t])'
    <3>1. addressReq'[s] = q
      BY <1>2
    <3>. QED BY <1>5, <2>1, <3>1
  <2>3. InOrderOf(u)
    BY DEF AddressInv
  <2>. QED BY <1>1, <1>2, <1>3, <2>1, <2>2, <2>3 DEF InOrderOf
<1>. QED BY <1>1, <1>4, <1>5, <1>6, AddressStep DEF AddressInv, AddressTypeOK

\* The only request of u is the one of session s.
LEMMA LoneRequest ==
    ASSUME AddressInv, NEW s \in Sessions, NEW p \in AnyAddressReq, p = addressReq[s], p # Idle,
           p.u \notin overlapped
    PROVE  InFlight(p.u) = {s} /\ KnowsRows(p) /\ p.u \in Owners
<1>1. p.u \in Owners
  BY AddressReqKinds
<1>2. s \in InFlight(p.u)
  BY DEF InFlight
<1>. QED BY <1>1, <1>2 DEF AddressInv, InOrderOf

\* A request goes on with what it has read, and changes nothing.
LEMMA ProceedStep ==
    ASSUME AddressInv, NEW s \in Sessions, NEW p \in AnyAddressReq, p = addressReq[s], p # Idle,
           NEW q \in AnyAddressReq, q # Idle, q.u = p.u, Proceed(s, q), SeenAreOwn(q),
           p.u \notin overlapped => KnowsRows(q),
           q.pc \in {"counted", "insert"} => p.pc \in {"counted", "insert"},
           p.pc \in {"promote", "latest"} => q.pc \in {"promote", "latest"}
    PROVE  AddressInv'
<1>1. PICK u \in Owners : u = p.u
  BY AddressReqKinds
<1>2. addressReq' = [addressReq EXCEPT ![s] = q] /\ UNCHANGED <<address, chosen, overlapped>>
  BY DEF Proceed
<1>3. \A t \in Sessions : addressReq'[t] = IF t = s THEN q ELSE addressReq[t]
  BY <1>2 DEF AddressInv, AddressTypeOK
<1>4. /\ InFlight(u)' = InFlight(u) /\ Creating(u)' \subseteq Creating(u)
      /\ Replacing(u) \subseteq Replacing(u)'
  BY <1>1, <1>3 DEF InFlight, Creating, Replacing
<1>5. Of(u)' = Of(u) /\ PrimaryOf(u)' = PrimaryOf(u)
  BY <1>2 DEF Of, PrimaryOf
<1>6. RoomLeft(u)'
  BY <1>4, <1>5, RoomKept DEF AddressInv
<1>7. SeenAreOwn(q)'
  BY <1>2 DEF SeenAreOwn
<1>8. InOrderOf(u)'
  <2>. SUFFICES ASSUME u \notin overlapped PROVE InOrderOf(u)'
    BY <1>2 DEF InOrderOf
  <2>1. InFlight(u)' = {s} /\ InOrderOf(u)
    BY <1>1, <1>4, LoneRequest DEF AddressInv
  <2>2. KnowsRows(q)'
    <3>1. KnowsRows(q) /\ q.u = u
      BY <1>1
    <3>2. \A w : w = u => Of(w)' = Of(w) /\ PrimaryOf(w)' = PrimaryOf(w)
      BY <1>5
    <3>. QED BY <1>2, <1>5, <3>1, <3>2 DEF KnowsRows
  <2>3. \A t \in InFlight(u)' : KnowsRows(addressReq[t])'
    <3>1. addressReq'[s] = q
      BY <1>3
    <3>. QED BY <2>1, <2>2, <3>1
  <2>. QED BY <1>2, <1>4, <1>5, <2>1, <2>3 DEF InOrderOf
<1>. QED BY <1>1, <1>2, <1>6, <1>7, <1>8, AddressStep DEF AddressInv, AddressTypeOK

\* A request ends, and changes nothing.
LEMMA EndStep ==
    ASSUME AddressInv, NEW s \in Sessions, NEW p \in AnyAddressReq, p = addressReq[s], p # Idle,
           addressReq' = [addressReq EXCEPT ![s] = Idle], UNCHANGED <<address, chosen>>,
           overlapped' = overlapped \/ overlapped' = overlapped \cup {p.u},
           p.u \notin overlapped' => p.pc \notin {"promote", "latest"}
    PROVE  AddressInv'
<1>1. PICK u \in Owners : u = p.u
  BY AddressReqKinds
<1>2. \A t \in Sessions : addressReq'[t] = IF t = s THEN Idle ELSE addressReq[t]
  BY DEF AddressInv, AddressTypeOK
<1>3. InFlight(u)' = InFlight(u) \ {s} /\ Creating(u)' \subseteq Creating(u)
  BY <1>2 DEF InFlight, Creating, Idle
<1>4. Of(u)' = Of(u) /\ PrimaryOf(u)' = PrimaryOf(u)
  BY DEF Of, PrimaryOf
<1>5. RoomLeft(u)'
  BY <1>3, <1>4, RoomKept DEF AddressInv
<1>6. SeenAreOwn(Idle)' /\ Idle \in AnyAddressReq
  BY DEF SeenAreOwn, Seen, Idle, AnyAddressReq
<1>7. InOrderOf(u)'
  <2>. SUFFICES ASSUME u \notin overlapped' PROVE InOrderOf(u)'
    BY DEF InOrderOf
  <2>1. InFlight(u)' = {} /\ InOrderOf(u) /\ u \notin overlapped
    BY <1>1, <1>3, LoneRequest DEF AddressInv
  <2>2. Replacing(u) \subseteq Replacing(u)'
    BY <1>1, <1>2 DEF Replacing
  <2>. QED BY <1>4, <2>1, <2>2 DEF InOrderOf
<1>. QED BY <1>1, <1>5, <1>6, <1>7, AddressStep DEF AddressInv, AddressTypeOK

LEMMA StartsOfRequests ==
    ASSUME AddressInv, NEW s \in Sessions, NEW u \in Owners,
           \/ \E primary \in BOOLEAN : CountAddresses(s, u, primary)
           \/ \E a \in AddressIds : LoadAddress(s, u, a)
    PROVE  AddressInv'
<1>1. ASSUME NEW primary \in BOOLEAN, CountAddresses(s, u, primary)
      PROVE  AddressInv'
  <2>. DEFINE q == [pc |-> "counted", u |-> u, primary |-> primary]
  <2>1. q \in AnyAddressReq /\ q.u = u /\ q # Idle
    BY DEF AnyAddressReq, UnsetReq, Idle
  <2>2. Cardinality(Of(u)) < MaxAddressesPerUser /\ Begin(s, u, q)
    <3>1. Cardinality(Of(u)) \in Nat
      BY FS_CardinalityType DEF AddressInv, RoomLeft
    <3>. QED BY <1>1, <3>1, AddressAssumption DEF CountAddresses
  <2>3. SeenAreOwn(q) /\ KnowsRows(q)
    BY <2>2 DEF SeenAreOwn, Seen, KnowsRows
  <2>. HIDE DEF q
  <2>. QED BY <2>1, <2>2, <2>3, BeginStep
<1>2. ASSUME NEW a \in AddressIds, LoadAddress(s, u, a)
      PROVE  AddressInv'
  <2>1. PICK was \in BOOLEAN : was = address[a].primary /\ address[a].owner = u /\ a \in Of(u)
    BY <1>2 DEF LoadAddress, Of, AddressInv, AddressTypeOK, Address
  <2>. DEFINE q == [pc |-> "loaded", u |-> u, a |-> a, was |-> was]
  <2>2. q \in AnyAddressReq /\ q.u = u /\ q # Idle /\ q.pc = "loaded"
    BY DEF AnyAddressReq, LoadedReq, Idle
  <2>3. Begin(s, u, q)
    BY <1>2, <2>1 DEF LoadAddress
  <2>4. SeenAreOwn(q) /\ KnowsRows(q)
    BY <2>1 DEF SeenAreOwn, Seen, KnowsRows
  <2>. HIDE DEF q
  <2>. QED BY <2>2, <2>3, <2>4, BeginStep
<1>. QED BY <1>1, <1>2

LEMMA ReadsOfRequests ==
    ASSUME AddressInv, NEW s \in Sessions, FindPrimary(s) \/ FindOthers(s) \/ Unmark(s)
    PROVE  AddressInv'
<1>1. PICK p \in AnyAddressReq : p = addressReq[s]
  BY DEF AddressInv, AddressTypeOK, AnyAddressReq
<1>2. p # Idle
  BY <1>1 DEF FindPrimary, FindOthers, Unmark, Idle
<1>3. p.u \in Owners
  BY <1>2, AddressReqKinds
<1>4. p.u \notin overlapped => KnowsRows(p)
  BY <1>1, <1>2, LoneRequest
<1>5. PrimaryOf(p.u) \subseteq AddressIds /\ \A a \in PrimaryOf(p.u) : address[a].owner = p.u
  BY DEF PrimaryOf, Of
<1>6. CASE FindPrimary(s)
  <2>. DEFINE q == [pc |-> "insert", u |-> p.u, primary |-> p.primary,
                    unset |-> IF p.primary THEN UnsetPrimary(p.u) ELSE {}]
  <2>1. p.pc = "counted" /\ Proceed(s, q)
    BY <1>1, <1>6 DEF FindPrimary
  <2>2. p \in UnsetReq
    BY <2>1, AddressReqKinds
  <2>3. q \in AnyAddressReq /\ q # Idle /\ q.u = p.u /\ q.pc = "insert"
    BY <1>3, <1>5, <2>2 DEF AnyAddressReq, UnsetReq, InsertReq, UnsetPrimary, Idle
  <2>4. SeenAreOwn(q)
    BY <1>5 DEF SeenAreOwn, Seen, UnsetPrimary
  <2>5. p.u \notin overlapped => KnowsRows(q)
    BY <1>4, <2>1 DEF KnowsRows, UnsetPrimary
  <2>. HIDE DEF q
  <2>. QED BY <1>1, <1>2, <2>1, <2>3, <2>4, <2>5, ProceedStep
<1>7. CASE FindOthers(s)
  <2>. DEFINE q == [pc |-> "mark", u |-> p.u, a |-> p.a, primary |-> TRUE, was |-> p.was,
                    unset |-> UnsetPrimary(p.u) \ {p.a}]
  <2>1. p.pc = "loaded" /\ Proceed(s, q)
    BY <1>1, <1>7 DEF FindOthers
  <2>2. p \in LoadedReq
    BY <2>1, AddressReqKinds
  <2>3. q \in AnyAddressReq /\ q # Idle /\ q.u = p.u /\ q.pc = "mark"
    BY <1>3, <1>5, <2>2 DEF AnyAddressReq, LoadedReq, MarkReq, UnsetPrimary, Idle
  <2>4. p.a \in Seen(p)
    BY <2>1, <2>2 DEF Seen, LoadedReq
  <2>5. SeenAreOwn(q)
    BY <1>1, <1>5, <2>4 DEF AddressInv, SeenAreOwn, Seen, UnsetPrimary
  <2>6. p.u \notin overlapped => KnowsRows(q)
    BY <1>4, <2>1 DEF KnowsRows, UnsetPrimary
  <2>. HIDE DEF q
  <2>. QED BY <1>1, <1>2, <2>1, <2>3, <2>5, <2>6, ProceedStep
<1>8. CASE Unmark(s)
  <2>. DEFINE q == [pc |-> "mark", u |-> p.u, a |-> p.a, primary |-> FALSE, was |-> p.was,
                    unset |-> {}]
  <2>1. p.pc = "loaded" /\ Proceed(s, q)
    BY <1>1, <1>8 DEF Unmark
  <2>2. p \in LoadedReq
    BY <2>1, AddressReqKinds
  <2>3. q \in AnyAddressReq /\ q # Idle /\ q.u = p.u /\ q.pc = "mark"
    BY <1>3, <2>2 DEF AnyAddressReq, LoadedReq, MarkReq, Idle
  <2>4. p.a \in Seen(p)
    BY <2>1, <2>2 DEF Seen, LoadedReq
  <2>5. SeenAreOwn(q)
    BY <1>1, <2>4 DEF AddressInv, SeenAreOwn, Seen
  <2>6. p.u \notin overlapped => KnowsRows(q)
    BY <1>4, <2>1 DEF KnowsRows
  <2>. HIDE DEF q
  <2>. QED BY <1>1, <1>2, <2>1, <2>3, <2>5, <2>6, ProceedStep
<1>. QED BY <1>6, <1>7, <1>8

LEMMA DieStep ==
    ASSUME AddressInv, NEW s \in Sessions, DieInRequest(s)
    PROVE  AddressInv'
<1>1. PICK p \in AnyAddressReq : p = addressReq[s]
  BY DEF AddressInv, AddressTypeOK, AnyAddressReq
<1>. QED BY <1>1, EndStep DEF DieInRequest

\* A request of u ends with a change of the addresses of u.
LEMMA CommitStep ==
    ASSUME AddressInv, NEW s \in Sessions, NEW p \in AnyAddressReq, p = addressReq[s], p # Idle,
           NEW u \in Owners, u = p.u,
           addressReq' = [addressReq EXCEPT ![s] = Idle], UNCHANGED overlapped,
           address' \in [AddressIds -> Address \cup {None}],
           \A a \in AddressIds : address'[a] # address[a] =>
               /\ address[a] = None \/ address[a].owner = u
               /\ address'[a] = None \/ address'[a].owner = u
               /\ address[a] = None => \A t \in Sessions : a \notin Seen(addressReq[t]),
           chosen' \subseteq Owners, chosen' \ {u} = chosen \ {u},
           RoomLeft(u)',
           u \notin overlapped /\ KnowsRows(p) =>
               /\ Cardinality(Of(u)') <= MaxAddressesPerUser
               /\ \A a, b \in PrimaryOf(u)' : a = b
               /\ u \in chosen' => PrimaryOf(u)' # {}
    PROVE  AddressInv'
<1>1. \A t \in Sessions : addressReq'[t] = IF t = s THEN Idle ELSE addressReq[t]
  BY DEF AddressInv, AddressTypeOK
<1>2. InFlight(u)' = InFlight(u) \ {s}
  BY <1>1 DEF InFlight, Idle
<1>3. SeenAreOwn(Idle)' /\ Idle \in AnyAddressReq
  BY DEF SeenAreOwn, Seen, Idle, AnyAddressReq
<1>4. InOrderOf(u)'
  <2>. SUFFICES ASSUME u \notin overlapped PROVE InOrderOf(u)'
    BY DEF InOrderOf
  <2>1. InFlight(u)' = {} /\ KnowsRows(p)
    BY <1>2, LoneRequest
  <2>. QED BY <2>1 DEF InOrderOf
<1>. QED BY <1>3, <1>4, AddressStep DEF AddressInv, AddressTypeOK

LEMMA CommitCreateStep ==
    ASSUME AddressInv, NEW s \in Sessions, NEW a \in AddressIds, CommitCreate(s, a)
    PROVE  AddressInv'
<1>1. PICK p \in InsertReq : p = addressReq[s]
  BY AddressReqKinds DEF CommitCreate, AddressInv, AddressTypeOK, AnyAddressReq
<1>2. PICK u \in Owners : u = p.u
  BY DEF InsertReq
<1>3. /\ p \in AnyAddressReq /\ p # Idle /\ p.pc = "insert" /\ p.primary \in BOOLEAN
      /\ p.unset \subseteq AddressIds
  BY DEF InsertReq, AnyAddressReq, Idle
<1>4. CASE ~(p.unset \subseteq Of(p.u)) /\ Proceed(s, Idle)
  BY <1>1, <1>3, <1>4, EndStep DEF Proceed
<1>5. CASE /\ p.unset \subseteq Of(p.u) /\ Fresh(a)
           /\ address' = [Unmarked(p.unset) EXCEPT ![a] = [owner |-> p.u, primary |-> p.primary]]
           /\ Finish(s, p.u, p.primary)
  <2>. DEFINE row == [owner |-> u, primary |-> p.primary]
  <2>1. row \in Address /\ row.owner = u /\ row.primary = p.primary /\ row # None
    BY <1>3, NoAddressAssumption DEF Address
  <2>2. \A b \in p.unset : /\ address[b] \in Address /\ address[b].owner = u
                           /\ [address[b] EXCEPT !.primary = FALSE] \in Address
                           /\ [address[b] EXCEPT !.primary = FALSE].owner = u
                           /\ [address[b] EXCEPT !.primary = FALSE].primary = FALSE
    BY <1>2, <1>5 DEF Of, AddressInv, AddressTypeOK, Address
  <2>3. \A b \in AddressIds : address'[b] =
           IF b = a THEN row
           ELSE IF b \in p.unset THEN [address[b] EXCEPT !.primary = FALSE] ELSE address[b]
    BY <1>2, <1>5 DEF Unmarked
  <2>4. address' \in [AddressIds -> Address \cup {None}]
    <3>1. address' = [b \in AddressIds |-> address'[b]]
      BY <1>5 DEF Unmarked
    <3>2. \A b \in AddressIds : address'[b] \in Address \cup {None}
      BY <2>1, <2>2, <2>3 DEF AddressInv, AddressTypeOK
    <3>. QED BY <3>1, <3>2
  <2>5. address[a] = None /\ \A t \in Sessions : a \notin Seen(addressReq[t])
    BY <1>5 DEF Fresh
  <2>. HIDE DEF row
  <2>6. \A b \in AddressIds : address'[b] # address[b] =>
           /\ address[b] = None \/ address[b].owner = u
           /\ address'[b] = None \/ address'[b].owner = u
           /\ address[b] = None => \A t \in Sessions : b \notin Seen(addressReq[t])
    BY <2>1, <2>2, <2>3, <2>5, NoAddressAssumption
  <2>7. Of(u)' = Of(u) \cup {a} /\ a \notin Of(u)
    <3>1. a \notin Of(u)
      BY <2>5 DEF Of
    <3>2. ASSUME NEW b \in AddressIds
          PROVE  (address'[b] # None /\ address'[b].owner = u)
                   <=> b = a \/ (address[b] # None /\ address[b].owner = u)
      <4>1. CASE b = a
        BY <2>1, <2>3, <4>1
      <4>2. CASE b # a /\ b \in p.unset
        BY <2>2, <2>3, <4>2, NoAddressAssumption
      <4>3. CASE b # a /\ b \notin p.unset
        BY <2>3, <4>3
      <4>. QED BY <4>1, <4>2, <4>3
    <3>. QED BY <3>1, <3>2 DEF Of
  <2>8. PrimaryOf(u)' = (PrimaryOf(u) \ p.unset) \cup (IF p.primary THEN {a} ELSE {})
    BY <1>3, <2>1, <2>2, <2>3, <2>5, <2>7 DEF PrimaryOf, Of
  <2>9. /\ addressReq' = [addressReq EXCEPT ![s] = Idle] /\ UNCHANGED overlapped
        /\ chosen' = IF p.primary THEN chosen \cup {u} ELSE chosen
    BY <1>2, <1>5 DEF Finish
  <2>10. chosen' \subseteq Owners /\ chosen' \ {u} = chosen \ {u}
    BY <2>9 DEF AddressInv, AddressTypeOK
  <2>11. /\ IsFiniteSet(Of(u)) /\ Cardinality(Of(u)) \in Nat
         /\ IsFiniteSet(Of(u)') /\ Cardinality(Of(u)') = Cardinality(Of(u)) + 1
    BY <2>7, FS_CardinalityType, FS_AddElement DEF AddressInv, RoomLeft
  <2>12. RoomLeft(u)'
    <3>1. s \in Creating(u) /\ Creating(u)' = Creating(u) \ {s}
      BY <1>1, <1>2, <1>3, <2>9 DEF Creating, Idle, AddressInv, AddressTypeOK
    <3>2. /\ Cardinality(Creating(u)') = Cardinality(Creating(u)) - 1
          /\ Cardinality(Creating(u)) \in Nat /\ Cardinality(Sessions) \in Nat
      BY <3>1, CreatingIsFinite, FS_RemoveElement
    <3>. QED BY <2>11, <3>2, AddressAssumption DEF AddressInv, RoomLeft
  <2>13. ASSUME u \notin overlapped, KnowsRows(p)
         PROVE  /\ Cardinality(Of(u)') <= MaxAddressesPerUser
                /\ \A b, c \in PrimaryOf(u)' : b = c
                /\ u \in chosen' => PrimaryOf(u)' # {}
    <3>1. /\ Cardinality(Of(u)) < MaxAddressesPerUser
          /\ p.unset = IF p.primary THEN PrimaryOf(u) ELSE {}
      BY <1>2, <1>3, <2>13 DEF KnowsRows
    <3>2. InOrderOf(u) /\ Replacing(u) = {}
      <4>1. InFlight(u) = {s}
        BY <1>1, <1>2, <1>3, <2>13, LoneRequest
      <4>2. Replacing(u) \subseteq InFlight(u)
        BY DEF Replacing, InFlight, Idle
      <4>. QED BY <1>1, <1>3, <4>1, <4>2 DEF Replacing, AddressInv
    <3>3. /\ \A b, c \in PrimaryOf(u) : b = c
          /\ u \in chosen => PrimaryOf(u) # {}
      BY <2>13, <3>2 DEF InOrderOf
    <3>. QED BY <2>8, <2>9, <2>11, <3>1, <3>3, AddressAssumption
  <2>. QED BY <1>1, <1>2, <1>3, <2>4, <2>6, <2>9, <2>10, <2>12, <2>13, CommitStep
<1>. QED BY <1>1, <1>4, <1>5 DEF CommitCreate

LEMMA CommitMarkStep ==
    ASSUME AddressInv, NEW s \in Sessions, CommitMark(s)
    PROVE  AddressInv'
<1>1. PICK p \in MarkReq : p = addressReq[s]
  BY AddressReqKinds DEF CommitMark, AddressInv, AddressTypeOK, AnyAddressReq
<1>2. PICK u \in Owners : u = p.u
  BY DEF MarkReq
<1>3. /\ p \in AnyAddressReq /\ p # Idle /\ p.pc = "mark" /\ p.a \in AddressIds
      /\ p.primary \in BOOLEAN /\ p.was \in BOOLEAN /\ p.unset \subseteq AddressIds
  BY DEF MarkReq, AnyAddressReq, Idle
<1>4. CASE ~(p.unset \cup {p.a} \subseteq Of(p.u)) /\ Proceed(s, Idle)
  BY <1>1, <1>3, <1>4, EndStep DEF Proceed
<1>5. CASE /\ p.unset \subseteq Of(u)
           /\ p.a \in Of(u) \/ p.primary = p.was
           /\ address' = IF p.primary = p.was THEN Unmarked(p.unset)
                         ELSE [Unmarked(p.unset) EXCEPT ![p.a].primary = p.primary]
           /\ addressReq' = [addressReq EXCEPT ![s] = Idle]
           /\ chosen' = IF p.primary THEN chosen \cup {u}
                        ELSE IF p.was THEN chosen \ {u} ELSE chosen
           /\ UNCHANGED overlapped
  <2>. DEFINE Marked(b) == b = p.a /\ p.primary # p.was
              Cleared(b) == b \in p.unset /\ ~Marked(b)
  <2>1. \A b \in Of(u) : address[b] \in Address /\ address[b].owner = u /\ b \in AddressIds
    BY DEF Of, AddressInv, AddressTypeOK
  <2>2. \A b \in AddressIds : Marked(b) \/ Cleared(b) => b \in Of(u)
    BY <1>5
  <2>3. \A b \in AddressIds :
           /\ Marked(b) => /\ address'[b] \in Address /\ address'[b].owner = u
                           /\ address'[b].primary = p.primary
           /\ Cleared(b) => /\ address'[b] \in Address /\ address'[b].owner = u
                            /\ address'[b].primary = FALSE
           /\ ~Marked(b) /\ ~Cleared(b) => address'[b] = address[b]
    BY <1>3, <1>5, <2>1, <2>2 DEF Unmarked, Address
  <2>4. address' \in [AddressIds -> Address \cup {None}]
    <3>1. address' = [b \in AddressIds |-> address'[b]]
      BY <1>5 DEF Unmarked
    <3>2. \A b \in AddressIds : address'[b] \in Address \cup {None}
      BY <2>3 DEF AddressInv, AddressTypeOK
    <3>. QED BY <3>1, <3>2
  <2>. HIDE DEF Marked, Cleared
  <2>5. \A b \in AddressIds : address'[b] # address[b] =>
           /\ b \in Of(u) /\ address[b] \in Address /\ address[b].owner = u
           /\ address'[b] \in Address /\ address'[b].owner = u
    BY <2>1, <2>2, <2>3
  <2>6. Of(u)' = Of(u)
    BY <2>5, NoAddressAssumption DEF Of
  <2>7. PrimaryOf(u)' = {b \in Of(u) : IF Marked(b) THEN p.primary
                                       ELSE ~Cleared(b) /\ address[b].primary}
    <3>1. PrimaryOf(u)' = {b \in Of(u) : address'[b].primary}
      BY <2>6 DEF PrimaryOf
    <3>2. \A b \in Of(u) : address'[b].primary <=>
              IF Marked(b) THEN p.primary ELSE ~Cleared(b) /\ address[b].primary
      <4>1. \A b \in Of(u) : ~(Marked(b) /\ Cleared(b))
        BY DEF Marked, Cleared
      <4>. QED BY <1>3, <2>1, <2>3, <4>1
    <3>. QED BY <3>1, <3>2
  <2>8. chosen' \subseteq Owners /\ chosen' \ {u} = chosen \ {u}
    BY <1>5 DEF AddressInv, AddressTypeOK
  <2>9. RoomLeft(u)'
    <3>1. Creating(u)' \subseteq Creating(u)
      BY <1>5, RequestsAfter DEF AddressInv, Creating, Idle
    <3>. QED BY <2>6, <3>1, RoomKept DEF AddressInv
  <2>10. ASSUME u \notin overlapped, KnowsRows(p)
         PROVE  /\ Cardinality(Of(u)') <= MaxAddressesPerUser
                /\ \A b, c \in PrimaryOf(u)' : b = c
                /\ u \in chosen' => PrimaryOf(u)' # {}
    <3>1. /\ p.a \in Of(u) /\ p.was = address[p.a].primary
          /\ p.unset = IF p.primary THEN PrimaryOf(u) \ {p.a} ELSE {}
      BY <1>2, <1>3, <2>10 DEF KnowsRows
    <3>2. InOrderOf(u) /\ Replacing(u) = {}
      <4>1. InFlight(u) = {s}
        BY <1>1, <1>2, <1>3, <2>10, LoneRequest
      <4>2. Replacing(u) \subseteq InFlight(u)
        BY DEF Replacing, InFlight, Idle
      <4>. QED BY <1>1, <1>3, <4>1, <4>2 DEF Replacing, AddressInv
    <3>3. /\ Cardinality(Of(u)) <= MaxAddressesPerUser
          /\ \A b, c \in PrimaryOf(u) : b = c
          /\ u \in chosen => PrimaryOf(u) # {}
      BY <2>10, <3>2 DEF InOrderOf
    <3>4. CASE p.primary
      <4>1. PrimaryOf(u)' = {p.a}
        BY <1>3, <2>7, <3>1, <3>4 DEF Marked, Cleared, PrimaryOf
      <4>. QED BY <2>6, <3>3, <4>1
    <3>5. CASE p.primary = FALSE
      <4>1. PrimaryOf(u)' = PrimaryOf(u) \ {p.a}
        BY <1>3, <2>7, <3>1, <3>5 DEF Marked, Cleared, PrimaryOf
      <4>2. p.was \/ p.a \notin PrimaryOf(u)
        BY <3>1 DEF PrimaryOf
      <4>. QED BY <1>5, <2>6, <3>3, <3>5, <4>1, <4>2
    <3>. QED BY <1>3, <3>4, <3>5
  <2>11. \A b \in AddressIds : address'[b] # address[b] =>
            /\ address[b] = None \/ address[b].owner = u
            /\ address'[b] = None \/ address'[b].owner = u
            /\ address[b] = None => \A t \in Sessions : b \notin Seen(addressReq[t])
    BY <2>5, NoAddressAssumption
  <2>12. addressReq' = [addressReq EXCEPT ![s] = Idle] /\ UNCHANGED overlapped
    BY <1>5
  <2>. QED BY <1>1, <1>2, <1>3, <2>4, <2>8, <2>9, <2>10, <2>11, <2>12, CommitStep, ZenonT(60)
<1>. QED BY <1>1, <1>2, <1>4, <1>5 DEF CommitMark

LEMMA CommitDeleteStep ==
    ASSUME AddressInv, NEW s \in Sessions, CommitDelete(s)
    PROVE  AddressInv'
<1>1. PICK p \in LoadedReq : p = addressReq[s]
  BY AddressReqKinds DEF CommitDelete, AddressInv, AddressTypeOK, AnyAddressReq
<1>2. PICK u \in Owners : u = p.u
  BY DEF LoadedReq
<1>3. /\ p \in AnyAddressReq /\ p # Idle /\ p.pc = "loaded" /\ p.a \in AddressIds
      /\ p.was \in BOOLEAN
  BY DEF LoadedReq, AnyAddressReq, Idle
<1>. DEFINE q == IF p.was THEN [pc |-> "promote", u |-> u, a |-> p.a, was |-> TRUE] ELSE Idle
<1>4. /\ address' = [address EXCEPT ![p.a] = None]
      /\ addressReq' = [addressReq EXCEPT ![s] = q] /\ UNCHANGED <<chosen, overlapped>>
  BY <1>1, <1>2 DEF CommitDelete
<1>5. q \in AnyAddressReq /\ (q = Idle \/ q.u = u)
  BY <1>3 DEF AnyAddressReq, DeleteReq
<1>6. address[p.a] = None \/ address[p.a].owner = u
  BY <1>1, <1>2, <1>3 DEF AddressInv, SeenAreOwn, Seen
<1>7. /\ address' \in [AddressIds -> Address \cup {None}]
      /\ \A b \in AddressIds : address'[b] = IF b = p.a THEN None ELSE address[b]
  BY <1>3, <1>4 DEF AddressInv, AddressTypeOK
<1>8. Of(u)' = Of(u) \ {p.a} /\ PrimaryOf(u)' = PrimaryOf(u) \ {p.a}
  BY <1>7 DEF Of, PrimaryOf
<1>9. \A t \in Sessions : addressReq'[t] = IF t = s THEN q ELSE addressReq[t]
  BY <1>4 DEF AddressInv, AddressTypeOK
<1>10. RoomLeft(u)'
  <2>1. Creating(u)' \subseteq Creating(u)
    BY <1>9 DEF Creating, Idle
  <2>. QED BY <1>8, <2>1, RoomKept DEF AddressInv
<1>11. SeenAreOwn(q)'
  BY <1>3, <1>7 DEF SeenAreOwn, Seen, Idle
<1>12. InOrderOf(u)'
  <2>. SUFFICES ASSUME u \notin overlapped PROVE InOrderOf(u)'
    BY <1>4 DEF InOrderOf
  <2>1. InFlight(u) = {s} /\ KnowsRows(p) /\ InOrderOf(u)
    BY <1>1, <1>2, <1>3, LoneRequest DEF AddressInv
  <2>2. p.a \in Of(u) /\ p.was = address[p.a].primary
    BY <1>2, <1>3, <2>1 DEF KnowsRows
  <2>3. /\ Cardinality(Of(u)) <= MaxAddressesPerUser
        /\ \A b, c \in PrimaryOf(u) : b = c
        /\ u \in chosen => PrimaryOf(u) # {} \/ Replacing(u) # {}
    BY <2>1 DEF InOrderOf
  <2>4. Replacing(u) = {}
    BY <1>1, <1>3, <2>1 DEF Replacing, InFlight, Idle
  <2>5. Cardinality(Of(u)') <= MaxAddressesPerUser
    <3>1. IsFiniteSet(Of(u)) /\ Of(u)' \subseteq Of(u)
      BY <1>8 DEF AddressInv, RoomLeft
    <3>2. /\ Cardinality(Of(u)') <= Cardinality(Of(u))
          /\ Cardinality(Of(u)') \in Nat /\ Cardinality(Of(u)) \in Nat
      BY <3>1, FS_Subset, FS_CardinalityType
    <3>. QED BY <2>3, <3>2, AddressAssumption
  <2>6. InFlight(u)' = IF p.was THEN {s} ELSE {}
    BY <1>2, <1>3, <1>9, <2>1 DEF InFlight, Idle
  <2>7. CASE p.was
    <3>1. PrimaryOf(u)' = {}
      BY <1>8, <2>2, <2>3, <2>7 DEF PrimaryOf
    <3>2. q.pc = "promote" /\ q.u = u /\ q.pc # "latest"
      BY <2>7
    <3>. HIDE DEF q
    <3>3. KnowsRows(q)'
      <4>1. \A w : w = u => PrimaryOf(w)' = {}
        BY <3>1
      <4>. QED BY <3>2, <4>1 DEF KnowsRows
    <3>4. \A t \in InFlight(u)' : KnowsRows(addressReq[t])'
      <4>1. addressReq'[s] = q
        BY <1>9
      <4>. QED BY <2>6, <2>7, <3>3, <4>1
    <3>5. Replacing(u)' # {}
      BY <1>9, <3>2 DEF Replacing
    <3>. QED BY <2>5, <2>6, <2>7, <3>1, <3>4, <3>5 DEF InOrderOf
  <2>8. CASE p.was = FALSE
    <3>1. p.a \notin PrimaryOf(u)
      BY <2>2, <2>8 DEF PrimaryOf
    <3>2. PrimaryOf(u)' = PrimaryOf(u)
      BY <1>8, <3>1
    <3>3. u \in chosen' => PrimaryOf(u)' # {}
      BY <1>4, <2>3, <2>4, <3>2
    <3>. QED BY <2>3, <2>5, <2>6, <2>8, <3>2, <3>3 DEF InOrderOf
  <2>. QED BY <1>3, <2>7, <2>8
<1>13. chosen' = chosen /\ overlapped' = overlapped /\ u = addressReq[s].u
       /\ chosen \subseteq Owners /\ overlapped \subseteq Owners
  BY <1>1, <1>2, <1>4 DEF AddressInv, AddressTypeOK
<1>14. \A b \in AddressIds : address'[b] # address[b] =>
          /\ address[b] = None \/ address[b].owner = u
          /\ address'[b] = None \/ address'[b].owner = u
          /\ address[b] = None => \A t \in Sessions : b \notin Seen(addressReq[t])
  BY <1>6, <1>7
<1>. HIDE DEF q
<1>. QED BY <1>4, <1>5, <1>7, <1>10, <1>11, <1>12, <1>13, <1>14, AddressStep

LEMMA FindLatestStep ==
    ASSUME AddressInv, NEW s \in Sessions, FindLatest(s)
    PROVE  AddressInv'
<1>1. PICK p \in DeleteReq : p = addressReq[s]
  BY AddressReqKinds DEF FindLatest, AddressInv, AddressTypeOK, AnyAddressReq
<1>2. PICK u \in Owners : u = p.u
  BY DEF DeleteReq
<1>3. p \in AnyAddressReq /\ p # Idle /\ p.pc = "promote"
  BY <1>1 DEF DeleteReq, AnyAddressReq, Idle, FindLatest
<1>4. u \notin overlapped => KnowsRows(p)
  BY <1>1, <1>2, <1>3, LoneRequest
<1>5. ASSUME NEW a \in Of(u),
             Proceed(s, [pc |-> "latest", u |-> u, a |-> a, was |-> address[a].primary])
      PROVE  AddressInv'
  <2>1. PICK was \in BOOLEAN : was = address[a].primary /\ address[a].owner = u
    BY DEF Of, AddressInv, AddressTypeOK, Address
  <2>. DEFINE q == [pc |-> "latest", u |-> u, a |-> a, was |-> was]
  <2>2. q \in AnyAddressReq /\ q # Idle /\ q.u = u /\ q.pc = "latest"
    BY DEF AnyAddressReq, DeleteReq, Idle, Of
  <2>3. Proceed(s, q)
    BY <1>5, <2>1
  <2>4. SeenAreOwn(q)
    BY <2>1 DEF SeenAreOwn, Seen
  <2>5. u \notin overlapped => KnowsRows(q)
    <3>. SUFFICES ASSUME u \notin overlapped PROVE KnowsRows(q)
      OBVIOUS
    <3>1. PrimaryOf(u) = {}
      BY <1>2, <1>3, <1>4 DEF KnowsRows
    <3>2. was = FALSE
      BY <2>1, <3>1 DEF PrimaryOf
    <3>. QED BY <3>1, <3>2 DEF KnowsRows
  <2>. HIDE DEF q
  <2>. QED BY <1>1, <1>2, <1>3, <2>2, <2>3, <2>4, <2>5, ProceedStep
<1>6. ASSUME Of(u) = {}, chosen' = chosen \ {u},
             addressReq' = [addressReq EXCEPT ![s] = Idle], UNCHANGED <<address, overlapped>>
      PROVE  AddressInv'
  <2>1. Of(u)' = {} /\ PrimaryOf(u)' = {} /\ Of(u)' \subseteq Of(u)
    BY <1>6 DEF Of, PrimaryOf
  <2>2. Creating(u)' \subseteq Creating(u)
    BY <1>6, RequestsAfter DEF AddressInv, Creating, Idle
  <2>3. RoomLeft(u)'
    BY <2>1, <2>2, RoomKept DEF AddressInv
  <2>4. Cardinality(Of(u)') <= MaxAddressesPerUser
    BY <2>1, AddressAssumption, FS_EmptySet
  <2>. QED BY <1>1, <1>2, <1>3, <1>6, <2>1, <2>3, <2>4, CommitStep DEF AddressInv, AddressTypeOK
<1>. QED BY <1>1, <1>2, <1>5, <1>6 DEF FindLatest

LEMMA PromoteLatestStep ==
    ASSUME AddressInv, NEW s \in Sessions, PromoteLatest(s)
    PROVE  AddressInv'
<1>1. PICK p \in DeleteReq : p = addressReq[s]
  BY AddressReqKinds DEF PromoteLatest, AddressInv, AddressTypeOK, AnyAddressReq
<1>2. PICK u \in Owners : u = p.u
  BY DEF DeleteReq
<1>3. p \in AnyAddressReq /\ p # Idle /\ p.pc = "latest" /\ p.a \in AddressIds
  BY <1>1 DEF DeleteReq, AnyAddressReq, Idle, PromoteLatest
<1>4. u \notin overlapped => KnowsRows(p) /\ InOrderOf(u)
  BY <1>1, <1>2, <1>3, LoneRequest DEF AddressInv
<1>5. CASE (p.a \notin Of(u) \/ p.was) /\ Proceed(s, Idle)
  <2>1. u \in overlapped
    BY <1>2, <1>3, <1>4, <1>5 DEF KnowsRows
  <2>. QED BY <1>1, <1>2, <1>3, <1>5, <2>1, EndStep DEF Proceed
<1>6. CASE /\ p.a \in Of(u) /\ ~p.was
           /\ address' = [address EXCEPT ![p.a].primary = TRUE]
           /\ addressReq' = [addressReq EXCEPT ![s] = Idle]
           /\ UNCHANGED <<chosen, overlapped>>
  <2>. DEFINE row == [address[p.a] EXCEPT !.primary = TRUE]
  <2>1. /\ address[p.a] \in Address /\ address[p.a].owner = u
        /\ row \in Address /\ row.owner = u /\ row.primary = TRUE
    BY <1>6 DEF Of, AddressInv, AddressTypeOK, Address
  <2>2. /\ address' \in [AddressIds -> Address \cup {None}]
        /\ \A b \in AddressIds : address'[b] = IF b = p.a THEN row ELSE address[b]
    BY <1>3, <1>6, <2>1 DEF AddressInv, AddressTypeOK
  <2>. HIDE DEF row
  <2>3. \A b \in AddressIds : address'[b] # address[b] =>
           /\ address[b] = None \/ address[b].owner = u
           /\ address'[b] = None \/ address'[b].owner = u
           /\ address[b] = None => \A t \in Sessions : b \notin Seen(addressReq[t])
    BY <2>1, <2>2, NoAddressAssumption
  <2>4. Of(u)' = Of(u)
    BY <1>6, <2>1, <2>2, NoAddressAssumption DEF Of
  <2>5. RoomLeft(u)'
    <3>1. Creating(u)' \subseteq Creating(u)
      BY <1>6, RequestsAfter DEF AddressInv, Creating, Idle
    <3>. QED BY <2>4, <3>1, RoomKept DEF AddressInv
  <2>6. ASSUME u \notin overlapped, KnowsRows(p)
        PROVE  /\ Cardinality(Of(u)') <= MaxAddressesPerUser
               /\ \A b, c \in PrimaryOf(u)' : b = c
               /\ u \in chosen' => PrimaryOf(u)' # {}
    <3>1. PrimaryOf(u) = {}
      BY <1>2, <1>3, <2>6 DEF KnowsRows
    <3>2. PrimaryOf(u)' = {p.a}
      BY <1>6, <2>1, <2>2, <2>4, <3>1 DEF PrimaryOf
    <3>. QED BY <1>4, <2>4, <2>6, <3>2 DEF InOrderOf
  <2>7. chosen' \subseteq Owners /\ chosen' \ {u} = chosen \ {u}
    BY <1>6 DEF AddressInv, AddressTypeOK
  <2>8. addressReq' = [addressReq EXCEPT ![s] = Idle] /\ UNCHANGED overlapped
    BY <1>6
  <2>. QED BY <1>1, <1>2, <1>3, <2>2, <2>3, <2>5, <2>6, <2>7, <2>8, CommitStep, ZenonT(60)
<1>. QED BY <1>1, <1>2, <1>5, <1>6 DEF PromoteLatest

LEMMA AddressStutter ==
    ASSUME AddressInv, UNCHANGED addressVars
    PROVE  AddressInv'
<1>. USE DEF addressVars
<1>1. AddressTypeOK'
  BY DEF AddressInv, AddressTypeOK
<1>2. \A u \in Owners : /\ Of(u)' = Of(u) /\ PrimaryOf(u)' = PrimaryOf(u)
                        /\ InFlight(u)' = InFlight(u) /\ Creating(u)' = Creating(u)
                        /\ Replacing(u)' = Replacing(u)
  BY DEF Of, PrimaryOf, InFlight, Creating, Replacing
<1>3. ASSUME NEW u \in Owners PROVE RoomLeft(u)' /\ InOrderOf(u)'
  <2>1. ASSUME NEW t \in InFlight(u), KnowsRows(addressReq[t])
        PROVE  KnowsRows(addressReq[t])'
    BY <2>1 DEF KnowsRows, Of, PrimaryOf
  <2>. QED BY <1>2, <2>1 DEF AddressInv, RoomLeft, InOrderOf
<1>4. ASSUME NEW s \in Sessions PROVE SeenAreOwn(addressReq[s])'
  BY DEF AddressInv, SeenAreOwn, Seen
<1>. QED BY <1>1, <1>3, <1>4 DEF AddressInv

LEMMA AddressNextLemma == AddressInv /\ [AddressNext]_addressVars => AddressInv'
<1>. SUFFICES ASSUME AddressInv, AddressNext PROVE AddressInv'
  BY AddressStutter
<1>1. PICK s \in Sessions :
        \/ \E u \in Owners :
             \/ \E primary \in BOOLEAN : CountAddresses(s, u, primary)
             \/ \E a \in AddressIds : LoadAddress(s, u, a)
        \/ FindPrimary(s) \/ FindOthers(s) \/ Unmark(s)
        \/ \E a \in AddressIds : CommitCreate(s, a)
        \/ CommitMark(s) \/ CommitDelete(s) \/ FindLatest(s)
        \/ PromoteLatest(s) \/ DieInRequest(s)
  BY DEF AddressNext
<1>. QED BY <1>1, StartsOfRequests, ReadsOfRequests, CommitCreateStep, CommitMarkStep,
            CommitDeleteStep, FindLatestStep, PromoteLatestStep, DieStep

LEMMA AddressInvImplies == AddressInv => AddressSafety
<1>. SUFFICES ASSUME AddressInv PROVE AddressSafety
  OBVIOUS
<1>1. LimitAlmostKept
  <2>. SUFFICES ASSUME NEW u \in Owners
       PROVE  Cardinality(Of(u)) <= MaxAddressesPerUser + Cardinality(Sessions) - 1
    BY DEF LimitAlmostKept
  <2>1. RoomLeft(u) /\ Cardinality(Of(u)) \in Nat
    BY FS_CardinalityType DEF AddressInv, RoomLeft
  <2>. QED BY <2>1, CreatingIsFinite, AddressAssumption DEF RoomLeft
<1>2. OnePrimary
  <2>. SUFFICES ASSUME NEW u \in Owners \ overlapped
       PROVE  Cardinality(Of(u)) <= MaxAddressesPerUser /\ Cardinality(PrimaryOf(u)) <= 1
    BY DEF OnePrimary
  <2>1. Cardinality(Of(u)) <= MaxAddressesPerUser /\ \A a, b \in PrimaryOf(u) : a = b
    BY DEF AddressInv, InOrderOf
  <2>2. Cardinality(PrimaryOf(u)) <= 1
    <3>1. CASE PrimaryOf(u) = {}
      BY <3>1, FS_EmptySet
    <3>2. CASE PrimaryOf(u) # {}
      <4>1. PICK a : PrimaryOf(u) = {a}
        BY <2>1, <3>2
      <4>2. Cardinality({a}) = 1
        BY FS_Singleton
      <4>. QED BY <4>1, <4>2
    <3>. QED BY <3>1, <3>2
  <2>. QED BY <2>1, <2>2
<1>3. PrimaryIsReplaced
  BY DEF AddressInv, AddressTypeOK, InOrderOf, PrimaryIsReplaced, Replacing
<1>. QED BY <1>1, <1>2, <1>3 DEF AddressInv, AddressSafety

\* Whatever the requests of a user do to each other, the limit is passed by no more than the
\* other sessions; and a user whose requests do not overlap keeps the limit, has at most one
\* primary address, and goes without one he chose only while a deletion promotes another.
THEOREM AddressesAreSafe == AddressSpec => []AddressSafety
<1>1. AddressSpec => []AddressInv
  BY AddressInitLemma, AddressNextLemma, PTL DEF AddressSpec
<1>. QED BY <1>1, AddressInvImplies, PTL
=============================================================================
