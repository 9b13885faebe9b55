----------------------------- MODULE FlashSale -----------------------------
(***************************************************************************)
(* flashsale-service: the waiting queue and the purchases of one flash sale *)
(* (internal/handler/handler.go).                                           *)
(*                                                                          *)
(* A request works through Redis commands and database statements, each a    *)
(* step below; only the Lua script of AttemptBuy touches two keys at once.   *)
(* The errors of most Redis commands are dropped.  The list of the queue has *)
(* a time to live, renewed by every join; when it passes, the whole list is  *)
(* gone, while the set of its members stays.                                *)
(***************************************************************************)
EXTENDS Naturals, Sequences, FiniteSets

CONSTANTS
    Users,
    Items,          \* ids of the items of the sale
    Requests,       \* requests in flight at the same time
    QueueMaxSize,   \* cfg.QueueMaxSize
    MaxQuota,       \* bound: the largest quota an admin enters
    QueueBound,     \* bound: a user joins while the queue is shorter
    OneCallPerUser, \* TRUE: a user waits for the answer before the next call
    ExpiryRaces,    \* TRUE: the queue may expire while a purchase is under way
    Faults          \* failures the environment shows

ASSUME FlashSaleAssumption ==
    /\ IsFiniteSet(Users)
    /\ QueueMaxSize \in Nat /\ MaxQuota \in Nat /\ QueueBound \in Nat
    /\ OneCallPerUser \in BOOLEAN /\ ExpiryRaces \in BOOLEAN
    /\ Faults \subseteq {"redis", "db", "crash"}

VARIABLES
    queue,   \* fs:queue:{sale}, user ids in the order they joined
    members, \* fs:queue:members:{sale}
    stock,   \* fs:stock:{sale}:{item}; 0 stands for no key, too
    bought,  \* fs:user_bought:{sale}:{item}:{user}
    tokens,  \* fs:purchase_token:{token}: the <<item, user>> of the tokens
    sale,    \* flashsale.sales: the status of the sale
    items,   \* flashsale.items
    req      \* the state of each request

queueVars == <<queue, members>>
redisVars == <<queue, members, stock, bought, tokens>>
vars == <<queue, members, stock, bought, tokens, sale, items, req>>

-----------------------------------------------------------------------------
(* Data *)

SaleStatus == {"NONE", "SCHEDULED", "ACTIVE", "ENDED"}
NoItem == [quota |-> 0, sold |-> 0]
Item == [quota: Nat, sold: Nat]

maxPerUser == 1

Idle == [op |-> "idle"]
JoinReq == [op: {"join"}, pc: {"member", "push", "add"}, u: Users]
BuyReq == [op: {"buy"}, pc: {"script", "pop", "token", "sold"}, u: Users, i: Items]
ItemReq == [op: {"item"}, pc: {"stock"}, i: Items]

TypeOK ==
    /\ queue \in Seq(Users) /\ members \subseteq Users
    /\ stock \in [Items -> Nat]
    /\ bought \in [Items -> [Users -> Nat]]
    /\ tokens \subseteq Items \X Users
    /\ sale \in SaleStatus
    /\ items \in [Items -> Item]
    /\ req \in [Requests -> {Idle} \cup JoinReq \cup BuyReq \cup ItemReq]

Init ==
    /\ queue = <<>> /\ members = {}
    /\ stock = [i \in Items |-> 0]
    /\ bought = [i \in Items |-> [u \in Users |-> 0]]
    /\ tokens = {}
    /\ sale = "NONE"
    /\ items = [i \in Items |-> NoItem]
    /\ req = [h \in Requests |-> Idle]

Step(h, x) == req' = [req EXCEPT ![h] = x]
End(h) == Step(h, Idle)
Goto(h, pc) == Step(h, [req[h] EXCEPT !.pc = pc])

\* User u may make request h.
MayCall(h, u) ==
    /\ req[h] = Idle
    /\ OneCallPerUser =>
         \A g \in Requests : req[g].op \in {"join", "buy"} => req[g].u # u

-----------------------------------------------------------------------------
(* JoinQueue *)

\* LLEN; an error counts as an empty queue.
JoinQueue(h, u) ==
    /\ MayCall(h, u)
    /\ Len(queue) < QueueMaxSize \/ "redis" \in Faults
    /\ Len(queue) < QueueBound
    /\ Step(h, [op |-> "join", pc |-> "member", u |-> u])
    /\ UNCHANGED <<redisVars, sale, items>>

\* SISMEMBER; an error counts as no member, a member is told a position and leaves.
CheckMember(h) ==
    /\ req[h].op = "join" /\ req[h].pc = "member"
    /\ \/ req[h].u \in members /\ End(h)
       \/ /\ req[h].u \notin members \/ "redis" \in Faults
          /\ Goto(h, "push")
    /\ UNCHANGED <<redisVars, sale, items>>

PushUser(h) ==
    /\ req[h].op = "join" /\ req[h].pc = "push"
    /\ \/ queue' = Append(queue, req[h].u)
       \/ "redis" \in Faults /\ UNCHANGED queue
    /\ Goto(h, "add")
    /\ UNCHANGED <<members, stock, bought, tokens, sale, items>>

AddMember(h) ==
    /\ req[h].op = "join" /\ req[h].pc = "add"
    /\ \/ members' = members \cup {req[h].u}
       \/ "redis" \in Faults /\ UNCHANGED members
    /\ End(h)
    /\ UNCHANGED <<queue, stock, bought, tokens, sale, items>>

\* The purchase h has found its user at the front and has not taken it away yet.
AtFront(h) == req[h].op = "buy" /\ req[h].pc \in {"script", "pop"}

\* QueueSlotTTL seconds without a join.
QueueExpires ==
    /\ queue # <<>>
    /\ ExpiryRaces \/ \A h \in Requests : ~AtFront(h)
    /\ queue' = <<>>
    /\ UNCHANGED <<members, stock, bought, tokens, sale, items, req>>

-----------------------------------------------------------------------------
(* AttemptBuy *)

\* Mutant: anyone who is in the queue may buy.
BugAttemptBuy(h, u, i) ==
    /\ MayCall(h, u)
    /\ \E n \in DOMAIN queue : queue[n] = u
    /\ Step(h, [op |-> "buy", pc |-> "script", u |-> u, i |-> i])
    /\ UNCHANGED <<redisVars, sale, items>>

\* LPOS: the user is at the front of the queue.
AttemptBuy(h, u, i) ==
    /\ MayCall(h, u)
    /\ queue # <<>> /\ Head(queue) = u
    /\ Step(h, [op |-> "buy", pc |-> "script", u |-> u, i |-> i])
    /\ UNCHANGED <<redisVars, sale, items>>

\* Mutants: no look at the stock, and no look at what the user bought.
BugSellNothing(i, u) == bought[i][u] < maxPerUser
BugSellAgain(i, u) == stock[i] > 0

MaySell(i, u) == bought[i][u] < maxPerUser /\ stock[i] > 0

\* Mutant: the script's result is not looked at.
BugRunScript(h) ==
    /\ req[h].op = "buy" /\ req[h].pc = "script"
    /\ LET x == req[h]
       IN  IF MaySell(x.i, x.u)
           THEN /\ stock' = [stock EXCEPT ![x.i] = @ - 1]
                /\ bought' = [bought EXCEPT ![x.i][x.u] = @ + 1]
           ELSE UNCHANGED <<stock, bought>>
    /\ Goto(h, "pop")
    /\ UNCHANGED <<queueVars, tokens, sale, items>>

\* The Lua script, atomic in Redis; its reply may get lost.
RunScript(h) ==
    /\ req[h].op = "buy" /\ req[h].pc = "script"
    /\ LET x == req[h]
       IN  \/ /\ MaySell(x.i, x.u)
              /\ stock' = [stock EXCEPT ![x.i] = @ - 1]
              /\ bought' = [bought EXCEPT ![x.i][x.u] = @ + 1]
              /\ \/ Goto(h, "pop")
                 \/ "redis" \in Faults /\ End(h)
           \/ /\ ~MaySell(x.i, x.u) \/ "redis" \in Faults
              /\ End(h)
              /\ UNCHANGED <<stock, bought>>
    /\ UNCHANGED <<queueVars, tokens, sale, items>>

\* LPOP takes whoever is at the front by now.
PopQueue(h) ==
    /\ req[h].op = "buy" /\ req[h].pc = "pop"
    /\ \/ queue' = IF queue = <<>> THEN queue ELSE Tail(queue)
       \/ "redis" \in Faults /\ UNCHANGED queue
    /\ Goto(h, "token")
    /\ UNCHANGED <<members, stock, bought, tokens, sale, items>>

StoreToken(h) ==
    /\ req[h].op = "buy" /\ req[h].pc = "token"
    /\ \/ tokens' = tokens \cup {<<req[h].i, req[h].u>>}
       \/ "redis" \in Faults /\ UNCHANGED tokens
    /\ Goto(h, "sold")
    /\ UNCHANGED <<queueVars, stock, bought, sale, items>>

\* UPDATE ... SET sold = sold + 1 WHERE quota > sold
CountSold(h) ==
    /\ req[h].op = "buy" /\ req[h].pc = "sold"
    /\ LET i == req[h].i
       IN  \/ /\ items[i].sold < items[i].quota
              /\ items' = [items EXCEPT ![i].sold = @ + 1]
           \/ /\ items[i].sold >= items[i].quota \/ "db" \in Faults
              /\ UNCHANGED items
    /\ End(h)
    /\ UNCHANGED <<redisVars, sale>>

\* The five minutes of a purchase token pass.
TokenExpires ==
    /\ \E t \in tokens : tokens' = tokens \ {t}
    /\ UNCHANGED <<queueVars, stock, bought, sale, items, req>>

-----------------------------------------------------------------------------
(* Administration *)

CreateFlashSale ==
    /\ sale = "NONE"
    /\ sale' \in {"SCHEDULED", "ACTIVE"}
    /\ UNCHANGED <<redisVars, items, req>>

\* INSERT of the row, then SET of the stock key: two steps, the second unchecked.
AddFlashSaleItem(h, i, n) ==
    /\ req[h] = Idle
    /\ sale # "NONE" /\ items[i] = NoItem
    /\ items' = [items EXCEPT ![i].quota = n]
    /\ Step(h, [op |-> "item", pc |-> "stock", i |-> i])
    /\ UNCHANGED <<redisVars, sale>>

SetStock(h) ==
    /\ req[h].op = "item" /\ req[h].pc = "stock"
    /\ LET i == req[h].i
       IN  \/ stock' = [stock EXCEPT ![i] = items[i].quota]
           \/ "redis" \in Faults /\ UNCHANGED stock
    /\ End(h)
    /\ UNCHANGED <<queueVars, bought, tokens, sale, items>>

\* The 24 hours of a stock key pass.
StockExpires(i) ==
    /\ stock[i] > 0
    /\ stock' = [stock EXCEPT ![i] = 0]
    /\ UNCHANGED <<queueVars, bought, tokens, sale, items, req>>

\* The status of the row; no buyer's request looks at it.
EndFlashSale ==
    /\ sale \notin {"NONE", "ENDED"}
    /\ sale' = "ENDED"
    /\ UNCHANGED <<redisVars, items, req>>

-----------------------------------------------------------------------------

\* The process dies, or the client goes away and its context is cancelled.
Crash(h) ==
    /\ "crash" \in Faults
    /\ req[h] # Idle
    /\ End(h)
    /\ UNCHANGED <<redisVars, sale, items>>

Work(h) ==
    \/ CheckMember(h) \/ PushUser(h) \/ AddMember(h)
    \/ RunScript(h) \/ PopQueue(h) \/ StoreToken(h) \/ CountSold(h)
    \/ SetStock(h)

Accept(h) ==
    \/ \E u \in Users : JoinQueue(h, u) \/ \E i \in Items : AttemptBuy(h, u, i)
    \/ \E i \in Items, n \in 1..MaxQuota : AddFlashSaleItem(h, i, n)

Next ==
    \/ \E h \in Requests : Work(h) \/ Accept(h) \/ Crash(h)
    \/ QueueExpires \/ TokenExpires
    \/ \E i \in Items : StockExpires(i)
    \/ CreateFlashSale \/ EndFlashSale

Spec == Init /\ [][Next]_vars

-----------------------------------------------------------------------------
(* Properties *)

Buyers(i) == {u \in Users : bought[i][u] > 0}

\* No unit is sold that was not offered and nobody buys more than one: whatever
\* races, fails or expires, buyers and units left are never more than the quota.
NeverOversold ==
    \A i \in Items :
        /\ Cardinality(Buyers(i)) + stock[i] <= items[i].quota
        /\ \A u \in Users : bought[i][u] <= maxPerUser

\* What Redis and the database hold at any time.
SaleSafety ==
    /\ TypeOK
    /\ NeverOversold

\* What the database and the tokens tell is true: the sold column never runs ahead
\* of the purchases in Redis, and every token belongs to a purchase.
SoldIsBought ==
    \A i \in Items :
        /\ items[i].sold <= Cardinality(Buyers(i))
        /\ \A u \in Users : <<i, u>> \in tokens => u \in Buyers(i)

\* Only the user at the front of the queue has the slot to buy: as long as users wait
\* for their answers and the list does not expire under a purchase, the purchases of
\* two users never overlap.
OneBuyerAtATime ==
    \A g, h \in Requests : AtFront(g) /\ AtFront(h) => req[g].u = req[h].u

\* Nobody loses a place in the queue to someone else's purchase (under the same
\* conditions): the LPOP that follows a purchase takes the buyer.
TurnIsKept ==
    [][\A h \in Requests :
         PopQueue(h) /\ queue' # queue => Head(queue) = req[h].u]_vars
=============================================================================
