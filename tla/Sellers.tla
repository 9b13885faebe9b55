------------------------------ MODULE Sellers ------------------------------
(***************************************************************************)
(* seller-service (app/main.py): a seller edits the profile that            *)
(* administrators verify and suspend.                                       *)
(***************************************************************************)
EXTENDS DbSessions, Naturals

CONSTANTS
    Sellers,    \* user ids
    Contents    \* what a seller writes into the profile

VARIABLES
    seller,         \* seller.seller_profiles
    sellerReq,      \* the state of each session
    sellerRaced     \* history: profiles saved though the row had changed since it was read

sellerVars == <<seller, sellerReq, sellerRaced>>

Badge == {"NEW", "BRONZE", "SILVER", "GOLD", "PLATINUM"}
Seller == [content: Contents, verified: BOOLEAN, score: 0..100, badge: Badge,
           active: BOOLEAN, suspended: BOOLEAN]
ASSUME SellerAssumption == None \notin Seller

NewSeller(content) ==
    [content |-> content, verified |-> FALSE, score |-> 50, badge |-> "NEW",
     active |-> TRUE, suspended |-> FALSE]

SellerTypeOK ==
    /\ seller \in [Sellers -> Seller \cup {None}]
    /\ sellerReq \in [Sessions -> {Idle}
          \cup [pc: {"save"}, u: Sellers, read: Seller \cup {None}, obj: Seller]]
    /\ sellerRaced \subseteq Sellers

SellerInit ==
    /\ seller = [u \in Sellers |-> None]
    /\ sellerReq = [s \in Sessions |-> Idle]
    /\ sellerRaced = {}

\* A handler has loaded the profile of u and made obj of it.
LoadSeller(s, u, obj) ==
    /\ sellerReq[s] = Idle
    /\ sellerReq' = [sellerReq EXCEPT ![s] = [pc |-> "save", u |-> u, read |-> seller[u],
                                              obj |-> obj]]
    /\ UNCHANGED <<seller, sellerRaced>>

\* create_or_update_profile; suspended sellers may go on editing.
EditProfile(s, u, content) ==
    LoadSeller(s, u, IF seller[u] = None THEN NewSeller(content)
                     ELSE [seller[u] EXCEPT !.content = content])

BadgeFor(score) ==
    IF score >= 80 THEN "PLATINUM"
    ELSE IF score >= 60 THEN "GOLD"
    ELSE IF score >= 40 THEN "SILVER"
    ELSE "BRONZE"

\* Mutant: the badge of the score before.
BugVerifySeller(s, u) ==
    /\ seller[u] # None
    /\ LET raised == seller[u].score + 20
           score == IF raised < 100 THEN raised ELSE 100
       IN  LoadSeller(s, u, [seller[u] EXCEPT !.verified = TRUE, !.score = score,
                                              !.badge = BadgeFor(seller[u].score)])

\* Mutant: the score is not capped.
BugVerifyUncapped(s, u) ==
    /\ seller[u] # None
    /\ seller[u].score < 200
    /\ LoadSeller(s, u, [seller[u] EXCEPT !.verified = TRUE, !.score = @ + 20,
                                          !.badge = BadgeFor(seller[u].score + 20)])

\* verify_seller, of verified sellers too: every call adds 20.
VerifySeller(s, u) ==
    /\ seller[u] # None
    /\ LET raised == seller[u].score + 20
           score == IF raised < 100 THEN raised ELSE 100
       IN  LoadSeller(s, u, [seller[u] EXCEPT !.verified = TRUE, !.score = score,
                                              !.badge = BadgeFor(score)])

\* suspend_seller; no operation takes it back.
SuspendSeller(s, u) ==
    /\ seller[u] # None
    /\ LoadSeller(s, u, [seller[u] EXCEPT !.suspended = TRUE, !.active = FALSE])

\* Mutant: every column is written back.
BugSaveSeller(s) ==
    LET q == sellerReq[s]
    IN  /\ q.pc = "save"
        /\ seller' = [seller EXCEPT ![q.u] = q.obj]
        /\ sellerRaced' = IF Changed(seller[q.u], q.read) THEN sellerRaced \cup {q.u}
                                                          ELSE sellerRaced
        /\ sellerReq' = [sellerReq EXCEPT ![s] = Idle]

\* The commit. An INSERT fails when the user, or another one with the same slug, was there
\* first.
SaveSeller(s) ==
    LET q == sellerReq[s]
    IN  /\ q.pc = "save"
        /\ \/ /\ q.read # None \/ seller[q.u] = None
              /\ seller' = [seller EXCEPT ![q.u] =
                              IF q.read = None THEN q.obj ELSE Flush(@, q.read, q.obj)]
              /\ sellerRaced' = IF Changed(seller[q.u], q.read) THEN sellerRaced \cup {q.u}
                                                                ELSE sellerRaced
           \/ q.read = None /\ UNCHANGED <<seller, sellerRaced>>
        /\ sellerReq' = [sellerReq EXCEPT ![s] = Idle]

SellerNext ==
    \E s \in Sessions :
      \/ \E u \in Sellers :
           \/ \E content \in Contents : EditProfile(s, u, content)
           \/ VerifySeller(s, u) \/ SuspendSeller(s, u)
      \/ SaveSeller(s)

SellerSpec == SellerInit /\ [][SellerNext]_sellerVars

-----------------------------------------------------------------------------
(* Properties *)

\* A suspension survives whatever the seller and other administrators were saving
\* when it was made, and a suspended seller is inactive.
SuspensionLasts ==
    [][\A u \in Sellers : seller[u] # None /\ seller[u].suspended
         => seller'[u].suspended /\ ~seller'[u].active]_sellerVars

\* The badge of a verified seller is the one of the trust score, unless two requests
\* saved the profile at once.
BadgeMatchesScore ==
    \A u \in Sellers \ sellerRaced : seller[u] # None =>
        seller[u].badge = IF seller[u].verified THEN BadgeFor(seller[u].score) ELSE "NEW"

\* Verification and suspension hold against the saves of the seller.
SellerSafety ==
    /\ [](SellerTypeOK /\ BadgeMatchesScore)
    /\ SuspensionLasts

-----------------------------------------------------------------------------
(* Promises that the code does not keep: see README.md.                        *)

\* Verification only adds to the trust in a seller.
TrustNeverFalls ==
    [][\A u \in Sellers : seller[u] # None => seller'[u].score >= seller[u].score]_sellerVars
=============================================================================
