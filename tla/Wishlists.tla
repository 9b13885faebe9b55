----------------------------- MODULE Wishlists -----------------------------
(***************************************************************************)
(* wishlist-service (app/main.py): the wishlist of a user, made by the first *)
(* request that needs it, and the alerts of price drops.                    *)
(*                                                                          *)
(* Nothing keeps two first requests from making a list each, and the         *)
(* handlers that look for the one list of a user fail when they find two.   *)
(***************************************************************************)
EXTENDS DbSessions, Naturals, FiniteSets

CONSTANTS
    Lists,          \* wishlist ids (uuid4)
    Wishers,        \* users
    WishProducts,   \* products
    Prices,         \* prices, and target prices but for the missing one
    MaxPriceNews    \* bound: calls of price-update in a behaviour

ASSUME WishlistAssumption == Prices \subseteq Nat /\ MaxPriceNews \in Nat

\* No list, and no user of one, is none.
ASSUME NoListAssumption == None \notin Lists \cup Wishers

VARIABLES
    listOf,     \* wishlist.wishlists: the user of each
    wish,       \* wishlist.wishlist_items, by list and product (UNIQUE)
    alerts,     \* wishlist.price_drop_alerts
    wishReq,    \* the state of each session
    priceNews,  \* calls of price-update so far
    wishRaced   \* history: users two of whose requests were making the list at once

wishVars == <<listOf, wish, alerts, wishReq, priceNews, wishRaced>>

Wish == [notify: BOOLEAN, target: Prices \cup {None}]
Alert == [u: Wishers, p: WishProducts, old: Prices, new: Prices]

GetReq == [pc: {"get"}, u: Wishers]
AddReq == [pc: {"found", "add"}, u: Wishers, l: Lists \cup {None}, p: WishProducts, item: Wish]
EditReq == [pc: {"edit"}, l: Lists, p: WishProducts, read: Wish, item: Wish]
RemoveReq == [pc: {"remove"}, l: Lists, p: WishProducts]
NewsReq == [pc: {"news"}, p: WishProducts, old: Prices, new: Prices,
            items: [Lists -> Wish \cup {None}]]

WishlistTypeOK ==
    /\ listOf \in [Lists -> Wishers \cup {None}]
    /\ wish \in [Lists \X WishProducts -> Wish \cup {None}]
    /\ alerts \subseteq Alert
    /\ wishReq \in [Sessions -> {Idle} \cup GetReq \cup AddReq \cup EditReq \cup RemoveReq
                                  \cup NewsReq]
    /\ priceNews \in 0..MaxPriceNews
    /\ wishRaced \subseteq Wishers

WishlistInit ==
    /\ listOf = [l \in Lists |-> None]
    /\ wish = [lp \in Lists \X WishProducts |-> None]
    /\ alerts = {}
    /\ wishReq = [s \in Sessions |-> Idle]
    /\ priceNews = 0
    /\ wishRaced = {}

ListsOf(u) == {l \in Lists : listOf[l] = u}

Step(s, req) ==
    /\ wishReq' = [wishReq EXCEPT ![s] = req]
    /\ UNCHANGED <<listOf, wish, alerts, priceNews, wishRaced>>

\* Requests that found no list of u and will make one.
Making(u) == {s \in Sessions : \/ wishReq[s].pc = "get" /\ wishReq[s].u = u
                               \/ /\ wishReq[s].pc \in {"found", "add"}
                                  /\ wishReq[s].u = u /\ wishReq[s].l = None}

\* A request of u finds no list.
FindNone(s, u, req) ==
    /\ wishReq[s] = Idle
    /\ ListsOf(u) = {}
    /\ wishReq' = [wishReq EXCEPT ![s] = req]
    /\ wishRaced' = IF Making(u) # {} THEN wishRaced \cup {u} ELSE wishRaced
    /\ UNCHANGED <<listOf, wish, alerts, priceNews>>

\* A wishlist of u is inserted. Nothing says that it must be the first.
NewList(l, u) ==
    /\ listOf[l] = None
    /\ listOf' = [listOf EXCEPT ![l] = u]

-----------------------------------------------------------------------------

\* GET /wishlist of a user without one; with two, scalar_one_or_none raises.
GetWishlist(s, u) == FindNone(s, u, [pc |-> "get", u |-> u])

InsertWishlist(s, l) ==
    /\ wishReq[s].pc = "get"
    /\ NewList(l, wishReq[s].u)
    /\ wishReq' = [wishReq EXCEPT ![s] = Idle]
    /\ UNCHANGED <<wish, alerts, priceNews, wishRaced>>

\* POST /wishlist/items: the list, or None; it fails when there are two.
FindList(s, u, p, item) ==
    \/ /\ wishReq[s] = Idle
       /\ \E l \in ListsOf(u) : /\ ListsOf(u) = {l}
                                /\ Step(s, [pc |-> "found", u |-> u, l |-> l, p |-> p,
                                            item |-> item])
    \/ FindNone(s, u, [pc |-> "found", u |-> u, l |-> None, p |-> p, item |-> item])

\* Is the product in it? A list that was not there is in the transaction, still unseen.
FindWish(s) ==
    LET q == wishReq[s]
    IN  /\ q.pc = "found"
        /\ Step(s, IF q.l # None /\ wish[q.l, q.p] # None THEN Idle ELSE [q EXCEPT !.pc = "add"])

\* Mutant: every first item of a request that found a list makes another one.
BugInsertWish(s) ==
    LET q == wishReq[s]
    IN  /\ q.pc = "add"
        /\ \E l \in Lists :
             /\ NewList(l, q.u)
             /\ wish' = [wish EXCEPT ![<<l, q.p>>] = q.item]
        /\ wishReq' = [wishReq EXCEPT ![s] = Idle]
        /\ UNCHANGED <<alerts, priceNews, wishRaced>>

\* The commit of the item, with its list if that is new; uq_wishlist_product may refuse it.
InsertWish(s) ==
    LET q == wishReq[s]
    IN  /\ q.pc = "add"
        /\ \/ /\ q.l = None
              /\ \E l \in Lists :
                   /\ NewList(l, q.u)
                   /\ wish' = [wish EXCEPT ![<<l, q.p>>] = q.item]
           \/ /\ q.l # None
              /\ wish' = [wish EXCEPT ![<<q.l, q.p>>] = IF @ = None THEN q.item ELSE @]
              /\ UNCHANGED listOf
        /\ wishReq' = [wishReq EXCEPT ![s] = Idle]
        /\ UNCHANGED <<alerts, priceNews, wishRaced>>

\* PUT and DELETE of an item, by its id and its user: they work on any of two lists.
EditWish(s, l, p, item) ==
    /\ wishReq[s] = Idle
    /\ wish[l, p] # None
    /\ item.target = None => item.target = wish[l, p].target
    /\ Step(s, [pc |-> "edit", l |-> l, p |-> p, read |-> wish[l, p], item |-> item])

\* An UPDATE of an item that is gone fails; one that changes nothing is not sent.
SaveWish(s) ==
    LET q == wishReq[s]
    IN  /\ q.pc = "edit"
        /\ wish' = [wish EXCEPT ![<<q.l, q.p>>] = IF @ = None THEN @ ELSE Flush(@, q.read, q.item)]
        /\ wishReq' = [wishReq EXCEPT ![s] = Idle]
        /\ UNCHANGED <<listOf, alerts, priceNews, wishRaced>>

LoadForRemove(s, l, p) ==
    /\ wishReq[s] = Idle
    /\ wish[l, p] # None
    /\ Step(s, [pc |-> "remove", l |-> l, p |-> p])

RemoveWish(s) ==
    LET q == wishReq[s]
    IN  /\ q.pc = "remove"
        /\ wish' = [wish EXCEPT ![<<q.l, q.p>>] = None]
        /\ wishReq' = [wishReq EXCEPT ![s] = Idle]
        /\ UNCHANGED <<listOf, alerts, priceNews, wishRaced>>

\* Mutant: a price that just reaches the target is not news.
BugWanted(item, new) == item.notify /\ (item.target # None => new < item.target)

\* Who wants to know of a new price: the target of an item that has one, and not 0,
\* is the price from which on.
Wanted(item, new) ==
    /\ item.notify
    /\ item.target # None /\ item.target # 0 => new <= item.target

\* POST /internal/wishlist/price-update, of a lower price: the items are read ...
ReadWatchers(s, p, old, new) ==
    /\ wishReq[s] = Idle /\ priceNews < MaxPriceNews
    /\ new < old
    /\ wishReq' = [wishReq EXCEPT ![s] = [pc |-> "news", p |-> p, old |-> old, new |-> new,
                                           items |-> [l \in Lists |-> wish[l, p]]]]
    /\ priceNews' = priceNews + 1
    /\ UNCHANGED <<listOf, wish, alerts, wishRaced>>

AlertFor(l, q) == [u |-> listOf[l], p |-> q.p, old |-> q.old, new |-> q.new]

\* ... and the alerts inserted.
InsertAlerts(s) ==
    LET q == wishReq[s]
    IN  /\ q.pc = "news"
        /\ alerts' = alerts \cup
             {AlertFor(l, q) : l \in {i \in Lists : q.items[i] # None /\ Wanted(q.items[i], q.new)}}
        /\ wishReq' = [wishReq EXCEPT ![s] = Idle]
        /\ UNCHANGED <<listOf, wish, priceNews, wishRaced>>

WishlistNext ==
    \E s \in Sessions :
      \/ \E u \in Wishers :
           \/ GetWishlist(s, u)
           \/ \E p \in WishProducts, item \in Wish : FindList(s, u, p, item)
      \/ \E l \in Lists :
           \/ InsertWishlist(s, l)
           \/ \E p \in WishProducts :
                LoadForRemove(s, l, p) \/ \E item \in Wish : EditWish(s, l, p, item)
      \/ FindWish(s) \/ InsertWish(s) \/ SaveWish(s) \/ RemoveWish(s) \/ InsertAlerts(s)
      \/ \E p \in WishProducts, old, new \in Prices : ReadWatchers(s, p, old, new)

WishlistSpec == WishlistInit /\ [][WishlistNext]_wishVars

-----------------------------------------------------------------------------
(* Properties *)

\* Only a user whose first two requests overlapped is ever cut off by a second list, and
\* for every other one a product is in the wishlist at most once.
OneListUnlessRaced ==
    \A u \in Wishers \ wishRaced :
        /\ Cardinality(ListsOf(u)) <= 1
        /\ \A p \in WishProducts :
             Cardinality({l \in ListsOf(u) : wish[l, p] # None}) <= 1

\* A user who watches a product, from before the items are read until the alerts are
\* saved, gets the alert of a price that is low enough, a target exactly reached included.
WatchersAreTold ==
    [][\A s \in Sessions : wishReq[s].pc = "news" /\ wishReq'[s] = Idle =>
         LET q == wishReq[s]
         IN  \A l \in Lists :
               /\ wish[l, q.p] # None /\ wish[l, q.p] = q.items[l]
               /\ wish[l, q.p].notify
               /\ wish[l, q.p].target \in Prices => wish[l, q.p].target >= q.new
               => AlertFor(l, q) \in alerts']_wishVars

\* A user has one list and hears of prices, but for the races that have names.
WishlistSafety ==
    /\ [](WishlistTypeOK /\ OneListUnlessRaced)
    /\ WatchersAreTold

-----------------------------------------------------------------------------
(* Promises that the code does not keep: see README.md.                        *)

\* Every user can get the wishlist: no user has two.
WishlistReadable == \A u \in Wishers : Cardinality(ListsOf(u)) <= 1

\* An alert keeps to the target of the user, 0 included: the code takes 0 for no target.
AlertsKeepTarget ==
    [][\A al \in alerts' \ alerts : \E l \in ListsOf(al.u) :
         wish[l, al.p] # None /\ wish[l, al.p].target \in Prices
           => al.new <= wish[l, al.p].target]_wishVars
=============================================================================
