-------------------------- MODULE FlashSaleProofs --------------------------
(***************************************************************************)
(* Theorems about FlashSale, for any number of users, items and concurrent   *)
(* requests, with every failure, every crash and every expiry.              *)
(***************************************************************************)
EXTENDS FlashSale, FiniteSetTheorems, TLAPS

Stocking(h) == req[h].op = "item"

\* Until the stock key of an item is set nothing of it is left or sold, and one
\* request is about to set it.
StockPending ==
    \A h \in Requests : Stocking(h) =>
        /\ items[req[h].i].quota > 0
        /\ stock[req[h].i] = 0 /\ Buyers(req[h].i) = {}
        /\ \A g \in Requests : Stocking(g) /\ req[g].i = req[h].i => g = h

IInv == TypeOK /\ NeverOversold /\ StockPending

AnyReq == {Idle} \cup JoinReq \cup BuyReq \cup ItemReq

-----------------------------------------------------------------------------
(* Requests *)

LEMMA ReqKinds ==
    ASSUME TypeOK, NEW h \in Requests
    PROVE  /\ req[h].op = "join" => req[h] \in JoinReq
           /\ req[h].op = "buy" => req[h] \in BuyReq
           /\ req[h].op = "item" => req[h] \in ItemReq
  BY DEF TypeOK, Idle, JoinReq, BuyReq, ItemReq

LEMMA StepIs ==
    ASSUME TypeOK, NEW h \in Requests, NEW x \in AnyReq, Step(h, x)
    PROVE  /\ req' \in [Requests -> AnyReq]
           /\ \A g \in Requests : req'[g] = IF g = h THEN x ELSE req[g]
  BY DEF Step, TypeOK, AnyReq

LEMMA BuyersFinite ==
    ASSUME NEW i \in Items
    PROVE  IsFiniteSet(Buyers(i)) /\ Cardinality(Buyers(i)) \in Nat
  <1>1. IsFiniteSet(Buyers(i))
    BY FlashSaleAssumption, FS_Subset DEF Buyers
  <1> QED
    BY <1>1, FS_CardinalityType

\* What goes on in a request does not matter as long as it is not about the stock.
LEMMA QuietStep ==
    ASSUME IInv, NEW h \in Requests, NEW x \in AnyReq, Step(h, x), x.op # "item",
           UNCHANGED <<stock, bought>>,
           queue' \in Seq(Users), members' \subseteq Users,
           tokens' \subseteq Items \X Users, sale' \in SaleStatus,
           items' \in [Items -> Item],
           \A i \in Items : items'[i].quota = items[i].quota
    PROVE  IInv'
  <1>1. TypeOK'
    BY StepIs DEF IInv, TypeOK, AnyReq
  <1>2. \A i \in Items : Buyers(i)' = Buyers(i)
    BY DEF Buyers
  <1>3. NeverOversold'
    BY <1>2 DEF IInv, NeverOversold
  <1>4. \A g \in Requests : Stocking(g)' => g # h /\ Stocking(g) /\ req'[g] = req[g]
    BY StepIs DEF IInv, Stocking
  <1>5. \A g \in Requests : Stocking(g) => req[g].i \in Items
    BY ReqKinds DEF IInv, Stocking, ItemReq
  <1>6. StockPending'
    BY <1>2, <1>4, <1>5 DEF IInv, StockPending
  <1> QED
    BY <1>1, <1>3, <1>6 DEF IInv

LEMMA TypeParts ==
    ASSUME TypeOK
    PROVE  /\ queue \in Seq(Users) /\ members \subseteq Users
           /\ stock \in [Items -> Nat] /\ bought \in [Items -> [Users -> Nat]]
           /\ tokens \subseteq Items \X Users /\ sale \in SaleStatus
           /\ items \in [Items -> Item]
  BY DEF TypeOK

LEMMA QueueOps ==
    ASSUME NEW s \in Seq(Users)
    PROVE  /\ <<>> \in Seq(Users)
           /\ s # <<>> => Tail(s) \in Seq(Users)
           /\ \A u \in Users : /\ Append(s, u) \in Seq(Users) /\ Append(s, u) # <<>>
                                /\ s # <<>> => Head(Append(s, u)) = Head(s)
  OBVIOUS

LEMMA IdleStep ==
    ASSUME IInv, NEW h \in Requests, End(h), UNCHANGED <<redisVars, sale, items>>
    PROVE  IInv'
  BY QuietStep, TypeParts DEF IInv, End, AnyReq, Idle, redisVars

LEMMA GotoIs ==
    ASSUME TypeOK, NEW h \in Requests, NEW pc \in {"push", "add", "pop", "token", "sold"},
           req[h].op = "join" => pc \in {"push", "add"},
           req[h].op = "buy" => pc \in {"pop", "token", "sold"},
           req[h].op \in {"join", "buy"}, Goto(h, pc)
    PROVE  \E x \in AnyReq : Step(h, x) /\ x.op # "item"
  <1> DEFINE x == [req[h] EXCEPT !.pc = pc]
  <1>1. x \in AnyReq /\ x.op # "item"
    BY ReqKinds DEF AnyReq, JoinReq, BuyReq
  <1> HIDE DEF x
  <1>2. Step(h, x)
    BY DEF Goto, x
  <1> QED
    BY <1>1, <1>2

LEMMA JoinStep ==
    ASSUME IInv, NEW h \in Requests, NEW u \in Users, JoinQueue(h, u)
    PROVE  IInv'
  <1> DEFINE x == [op |-> "join", pc |-> "member", u |-> u]
  <1>1. x \in AnyReq /\ x.op # "item"
    BY DEF AnyReq, JoinReq
  <1> HIDE DEF x
  <1>2. Step(h, x) /\ UNCHANGED <<redisVars, sale, items>>
    BY DEF JoinQueue, x
  <1> QED
    BY <1>1, <1>2, QuietStep, TypeParts DEF IInv, redisVars

LEMMA MemberStep ==
    ASSUME IInv, NEW h \in Requests, CheckMember(h) \/ PushUser(h) \/ AddMember(h)
    PROVE  IInv'
  <1>1. req[h].u \in Users /\ req[h].op = "join"
    BY ReqKinds DEF IInv, CheckMember, PushUser, AddMember, JoinReq
  <1>2. \E x \in AnyReq : Step(h, x) /\ x.op # "item"
    BY <1>1, GotoIs DEF IInv, CheckMember, PushUser, AddMember, End, AnyReq, Idle
  <1>3. queue' \in Seq(Users)
    <2>1. queue' = queue \/ queue' = Append(queue, req[h].u)
      BY DEF CheckMember, PushUser, AddMember, redisVars
    <2>2. Append(queue, req[h].u) \in Seq(Users) /\ queue \in Seq(Users)
      BY <1>1, QueueOps, TypeParts DEF IInv
    <2> QED
      BY <2>1, <2>2
  <1>4. members' \subseteq Users
    BY <1>1, TypeParts DEF IInv, CheckMember, PushUser, AddMember, redisVars
  <1>5. UNCHANGED <<stock, bought, tokens, sale, items>>
    BY DEF CheckMember, PushUser, AddMember, redisVars
  <1> QED
    BY <1>2, <1>3, <1>4, <1>5, QuietStep, TypeParts DEF IInv

LEMMA AttemptStep ==
    ASSUME IInv, NEW h \in Requests, NEW u \in Users, NEW i \in Items, AttemptBuy(h, u, i)
    PROVE  IInv'
  <1> DEFINE x == [op |-> "buy", pc |-> "script", u |-> u, i |-> i]
  <1>1. x \in AnyReq /\ x.op # "item"
    BY DEF AnyReq, BuyReq
  <1> HIDE DEF x
  <1>2. Step(h, x) /\ UNCHANGED <<redisVars, sale, items>>
    BY DEF AttemptBuy, x
  <1> QED
    BY <1>1, <1>2, QuietStep, TypeParts DEF IInv, redisVars

\* One unit moves from the stock to a user who has none.
LEMMA SellStep ==
    ASSUME IInv, NEW h \in Requests, RunScript(h), ~UNCHANGED <<stock, bought>>
    PROVE  IInv'
  <1>buy. req[h] \in BuyReq /\ req[h].op = "buy" /\ req[h].i \in Items /\ req[h].u \in Users
    BY ReqKinds DEF IInv, RunScript, BuyReq
  <1>item. PICK i \in Items : i = req[h].i
    BY <1>buy
  <1>user. PICK u \in Users : u = req[h].u
    BY <1>buy
  <1>1. req[h] \in BuyReq /\ i \in Items /\ u \in Users /\ req[h].op = "buy"
    BY <1>buy
  <1>2. /\ MaySell(i, u)
        /\ stock' = [stock EXCEPT ![i] = @ - 1]
        /\ bought' = [bought EXCEPT ![i][u] = @ + 1]
        /\ UNCHANGED <<queue, members, tokens, sale, items>>
        /\ Goto(h, "pop") \/ End(h)
    BY <1>item, <1>user DEF RunScript, queueVars
  <1>3. PICK x \in AnyReq : Step(h, x) /\ x.op # "item"
    BY <1>1, <1>2, GotoIs DEF IInv, End, AnyReq, Idle
  <1>4. /\ bought[i][u] \in Nat /\ bought[i][u] < 1
        /\ stock[i] \in Nat /\ stock[i] > 0
    BY <1>1, <1>2, TypeParts DEF IInv, MaySell, maxPerUser
  <1>5. stock[i] - 1 \in Nat /\ bought[i][u] + 1 = 1
    BY <1>4
  <1>6. /\ stock' \in [Items -> Nat] /\ stock'[i] = stock[i] - 1
        /\ \A j \in Items : j # i => stock'[j] = stock[j]
    BY <1>1, <1>2, <1>5, TypeParts DEF IInv
  <1>7. /\ bought' \in [Items -> [Users -> Nat]]
        /\ bought'[i][u] = 1
        /\ \A v \in Users : v # u => bought'[i][v] = bought[i][v]
        /\ \A j \in Items : j # i => bought'[j] = bought[j]
    BY <1>1, <1>2, <1>5, TypeParts DEF IInv
  <1>8. TypeOK'
    BY <1>2, <1>3, <1>6, <1>7, StepIs, TypeParts DEF IInv, TypeOK, AnyReq
  <1>9. /\ u \notin Buyers(i) /\ Buyers(i)' = Buyers(i) \cup {u}
        /\ \A j \in Items : j # i => Buyers(j)' = Buyers(j)
    <2>1. u \in Users /\ bought[i][u] = 0
      BY <1>1, <1>4
    <2>2. \A v \in Users : bought'[i][v] > 0 <=> v = u \/ bought[i][v] > 0
      BY <1>7, <2>1
    <2>3. {v \in Users : bought'[i][v] > 0} = {v \in Users : bought[i][v] > 0} \cup {u}
      BY <2>1, <2>2
    <2> QED
      BY <1>7, <2>1, <2>3 DEF Buyers
  <1>10. Cardinality(Buyers(i)') = Cardinality(Buyers(i)) + 1
    BY <1>1, <1>9, BuyersFinite, FS_AddElement
  <1>11. NeverOversold'
    <2>1. ASSUME NEW j \in Items
          PROVE  /\ Cardinality(Buyers(j)') + stock'[j] <= items[j].quota
                 /\ \A v \in Users : bought'[j][v] <= maxPerUser
      <3>1. CASE j = i
        <4>1. Cardinality(Buyers(i)) + stock[i] <= items[i].quota
          BY <1>1 DEF IInv, NeverOversold
        <4>2. items[i].quota \in Nat /\ Cardinality(Buyers(i)) \in Nat
          BY <1>1, TypeParts, BuyersFinite DEF IInv, Item
        <4>3. Cardinality(Buyers(i)') + stock'[i] <= items[i].quota
          BY <1>4, <1>6, <1>10, <4>1, <4>2
        <4>4. \A v \in Users : bought'[i][v] <= maxPerUser
          BY <1>1, <1>7 DEF IInv, NeverOversold, maxPerUser
        <4>5. Cardinality(Buyers(j)') = Cardinality(Buyers(i)')
          BY <3>1 DEF Buyers
        <4> QED
          BY <3>1, <4>3, <4>4, <4>5
      <3>2. CASE j # i
        BY <1>6, <1>7, <1>9, <3>2 DEF IInv, NeverOversold
      <3> QED
        BY <3>1, <3>2
    <2> QED
      BY <1>2, <2>1 DEF NeverOversold
  <1>12. \A g \in Requests : Stocking(g)' => g # h /\ Stocking(g) /\ req'[g] = req[g]
    BY <1>3, StepIs DEF IInv, Stocking
  <1>13. \A g \in Requests : Stocking(g) => req[g].i \in Items /\ req[g].i # i
    BY <1>4, ReqKinds DEF IInv, Stocking, ItemReq, StockPending
  <1>14. StockPending'
    BY <1>2, <1>6, <1>9, <1>12, <1>13 DEF IInv, StockPending
  <1> QED
    BY <1>8, <1>11, <1>14 DEF IInv

LEMMA ScriptStep ==
    ASSUME IInv, NEW h \in Requests, RunScript(h)
    PROVE  IInv'
  <1>1. CASE UNCHANGED <<stock, bought>>
    <2>1. req[h].op = "buy" /\ UNCHANGED <<queue, members, tokens, sale, items>>
      BY DEF RunScript, queueVars
    <2>2. \E x \in AnyReq : Step(h, x) /\ x.op # "item"
      BY <2>1, GotoIs DEF IInv, RunScript, End, AnyReq, Idle
    <2> QED
      BY <1>1, <2>1, <2>2, QuietStep, TypeParts DEF IInv
  <1> QED
    BY <1>1, SellStep

LEMMA AfterSaleStep ==
    ASSUME IInv, NEW h \in Requests, PopQueue(h) \/ StoreToken(h) \/ CountSold(h)
    PROVE  IInv'
  <1>1. req[h] \in BuyReq /\ req[h].op = "buy"
    BY ReqKinds DEF IInv, PopQueue, StoreToken, CountSold
  <1>2. req[h].i \in Items /\ req[h].u \in Users
    BY <1>1 DEF BuyReq
  <1>3. \E x \in AnyReq : Step(h, x) /\ x.op # "item"
    BY <1>1, GotoIs DEF IInv, PopQueue, StoreToken, CountSold, End, AnyReq, Idle
  <1>4. queue' \in Seq(Users)
    <2>1. queue' = queue \/ (queue # <<>> /\ queue' = Tail(queue))
      BY DEF PopQueue, StoreToken, CountSold, queueVars, redisVars
    <2>2. queue \in Seq(Users) /\ (queue # <<>> => Tail(queue) \in Seq(Users))
      BY QueueOps, TypeParts DEF IInv
    <2> QED
      BY <2>1, <2>2
  <1>5. tokens' \subseteq Items \X Users
    BY <1>2, TypeParts DEF IInv, PopQueue, StoreToken, CountSold, redisVars
  <1>6. /\ items' \in [Items -> Item]
        /\ \A i \in Items : items'[i].quota = items[i].quota
    <2> DEFINE i == req[h].i
    <2>1. items' = items \/ items' = [items EXCEPT ![i].sold = @ + 1]
      BY DEF PopQueue, StoreToken, CountSold
    <2>2. items[i] \in Item /\ items[i].sold \in Nat
      BY <1>2, TypeParts DEF IInv, Item
    <2>3. items[i].sold + 1 \in Nat
      BY <2>2
    <2> DEFINE row == [items[i] EXCEPT !.sold = @ + 1]
    <2>4. row \in Item /\ row.quota = items[i].quota
      BY <2>2, <2>3 DEF Item
    <2>5. items' = items \/ items' = [items EXCEPT ![i] = row]
      BY <2>1
    <2>6. i \in Items /\ items \in [Items -> Item]
      BY <1>2, TypeParts DEF IInv
    <2> HIDE DEF row, i
    <2> QED
      BY <2>4, <2>5, <2>6
  <1>7. UNCHANGED <<stock, bought, members, sale>>
    BY DEF PopQueue, StoreToken, CountSold, queueVars, redisVars
  <1> QED
    BY <1>3, <1>4, <1>5, <1>6, <1>7, QuietStep, TypeParts DEF IInv

\* A new row: nothing of it was left or sold.
LEMMA ItemStep ==
    ASSUME IInv, NEW h \in Requests, NEW i \in Items, NEW n \in 1..MaxQuota,
           AddFlashSaleItem(h, i, n)
    PROVE  IInv'
  <1> DEFINE x == [op |-> "item", pc |-> "stock", i |-> i]
  <1>1. x \in AnyReq /\ x.op = "item" /\ x.i = i
    BY DEF AnyReq, ItemReq
  <1> HIDE DEF x
  <1>2. /\ Step(h, x) /\ items[i] = NoItem
        /\ items' = [items EXCEPT ![i].quota = n]
        /\ UNCHANGED <<queue, members, stock, bought, tokens, sale>>
    BY DEF AddFlashSaleItem, x, redisVars
  <1>3. n \in Nat /\ n > 0
    BY FlashSaleAssumption
  <1>4. /\ items' \in [Items -> Item] /\ items'[i].quota = n
        /\ \A j \in Items : j # i => items'[j] = items[j]
    BY <1>2, <1>3, TypeParts DEF IInv, Item
  <1>5. \A j \in Items : Buyers(j)' = Buyers(j)
    BY <1>2 DEF Buyers
  <1>6. stock[i] = 0 /\ Buyers(i) = {}
    <2>1. Cardinality(Buyers(i)) + stock[i] <= 0
      BY <1>2 DEF IInv, NeverOversold, NoItem
    <2>2. Cardinality(Buyers(i)) = 0 /\ stock[i] = 0
      BY <2>1, BuyersFinite, TypeParts DEF IInv
    <2> QED
      BY <2>2, BuyersFinite, FS_EmptySet
  <1>7. TypeOK'
    BY <1>1, <1>2, <1>4, StepIs, TypeParts DEF IInv, TypeOK, AnyReq
  <1>8. Cardinality(Buyers(i)) + stock[i] <= items'[i].quota
    BY <1>3, <1>4, <1>6, FS_EmptySet
  <1>9. NeverOversold'
    <2>1. \A j \in Items : /\ Cardinality(Buyers(j)) + stock[j] <= items'[j].quota
                            /\ \A v \in Users : bought[j][v] <= maxPerUser
      BY <1>4, <1>8 DEF IInv, NeverOversold
    <2> QED
      BY <1>2, <1>5, <2>1 DEF NeverOversold
  <1>10. \A g \in Requests : req'[g] = IF g = h THEN x ELSE req[g]
    BY <1>1, <1>2, StepIs DEF IInv
  <1>11. \A g \in Requests : Stocking(g) => req[g].i \in Items /\ req[g].i # i
    <2>1. items[i].quota = 0
      BY <1>2 DEF NoItem
    <2> QED
      BY <2>1, ReqKinds DEF IInv, Stocking, ItemReq, StockPending
  <1>12. StockPending'
    BY <1>1, <1>2, <1>3, <1>4, <1>5, <1>6, <1>10, <1>11 DEF IInv, StockPending, Stocking
  <1> QED
    BY <1>7, <1>9, <1>12 DEF IInv

LEMMA SetStockStep ==
    ASSUME IInv, NEW h \in Requests, SetStock(h)
    PROVE  IInv'
  <1> DEFINE i == req[h].i
  <1>1. Stocking(h) /\ i \in Items
    BY ReqKinds DEF IInv, SetStock, Stocking, ItemReq
  <1>2. items[i].quota \in Nat
    BY <1>1, TypeParts DEF IInv, Item
  <1>3. /\ Step(h, Idle) /\ UNCHANGED <<queue, members, bought, tokens, sale, items>>
        /\ stock' = [stock EXCEPT ![i] = items[i].quota] \/ stock' = stock
    BY DEF SetStock, End, queueVars
  <1>4. stock' \in [Items -> Nat]
    BY <1>1, <1>2, <1>3, TypeParts DEF IInv
  <1>5. /\ stock'[i] \in {stock[i], items[i].quota}
        /\ \A j \in Items : j # i => stock'[j] = stock[j]
    BY <1>1, <1>3, TypeParts DEF IInv
  <1> HIDE DEF i
  <1>6. Idle \in AnyReq /\ Idle.op # "item"
    BY DEF AnyReq, Idle
  <1>7. TypeOK'
    BY <1>3, <1>4, <1>6, StepIs, TypeParts DEF IInv, TypeOK, AnyReq
  <1>8. \A j \in Items : Buyers(j)' = Buyers(j)
    BY <1>3 DEF Buyers
  <1>9. Buyers(i) = {} /\ stock[i] = 0
    BY <1>1 DEF IInv, StockPending, i
  <1>10. Cardinality(Buyers(i)) + stock'[i] <= items[i].quota
    BY <1>2, <1>5, <1>9, FS_EmptySet
  <1>11. NeverOversold'
    <2>1. \A j \in Items : /\ Cardinality(Buyers(j)) + stock'[j] <= items[j].quota
                            /\ \A v \in Users : bought[j][v] <= maxPerUser
      BY <1>5, <1>10 DEF IInv, NeverOversold
    <2> QED
      BY <1>3, <1>8, <2>1 DEF NeverOversold
  <1>12. \A g \in Requests : Stocking(g)' => g # h /\ Stocking(g) /\ req'[g] = req[g]
    BY <1>3, <1>6, StepIs DEF IInv, Stocking
  <1>13. \A g \in Requests : g # h /\ Stocking(g) => req[g].i \in Items /\ req[g].i # i
    BY <1>1, ReqKinds DEF IInv, Stocking, ItemReq, StockPending, i
  <1>14. StockPending'
    BY <1>3, <1>5, <1>8, <1>12, <1>13 DEF IInv, StockPending
  <1> QED
    BY <1>7, <1>11, <1>14 DEF IInv

\* Steps that move no request: expiry and the administrator's two statements.
LEMMA OutsideStep ==
    ASSUME IInv, \/ QueueExpires \/ TokenExpires \/ CreateFlashSale \/ EndFlashSale
                 \/ UNCHANGED vars
    PROVE  IInv'
  <1>1. UNCHANGED <<stock, bought, items, req>>
    BY DEF QueueExpires, TokenExpires, CreateFlashSale, EndFlashSale, vars, redisVars
  <1>2. queue' \in Seq(Users)
    <2>1. queue' = queue \/ queue' = <<>>
      BY DEF QueueExpires, TokenExpires, CreateFlashSale, EndFlashSale,
             vars, redisVars, queueVars
    <2> QED
      BY <2>1, QueueOps, TypeParts DEF IInv
  <1>7. members' = members /\ tokens' \subseteq tokens /\ sale' \in SaleStatus
    BY TypeParts DEF IInv, QueueExpires, TokenExpires, CreateFlashSale, EndFlashSale,
                     vars, redisVars, queueVars, SaleStatus
  <1>3. TypeOK'
    BY <1>1, <1>2, <1>7 DEF IInv, TypeOK
  <1>4. \A i \in Items : Buyers(i)' = Buyers(i)
    BY <1>1 DEF Buyers
  <1>5. NeverOversold'
    BY <1>1, <1>4 DEF IInv, NeverOversold
  <1>6. StockPending'
    BY <1>1, <1>4, ReqKinds DEF IInv, StockPending, Stocking, ItemReq
  <1> QED
    BY <1>3, <1>5, <1>6 DEF IInv

LEMMA StockExpiresStep ==
    ASSUME IInv, NEW i \in Items, StockExpires(i)
    PROVE  IInv'
  <1>1. /\ stock' \in [Items -> Nat] /\ stock'[i] = 0
        /\ \A j \in Items : j # i => stock'[j] = stock[j]
        /\ UNCHANGED <<queue, members, bought, tokens, sale, items, req>>
    BY TypeParts DEF IInv, StockExpires, queueVars
  <1>2. TypeOK'
    BY <1>1 DEF IInv, TypeOK
  <1>3. \A j \in Items : Buyers(j)' = Buyers(j)
    BY <1>1 DEF Buyers
  <1>4. \A j \in Items : /\ stock[j] \in Nat /\ stock'[j] \in Nat /\ stock'[j] <= stock[j]
                          /\ items[j].quota \in Nat
    <2>1. \A j \in Items : stock[j] \in Nat /\ items[j].quota \in Nat
      BY TypeParts DEF IInv, Item
    <2>2. \A j \in Items : stock'[j] = 0 \/ stock'[j] = stock[j]
      BY <1>1
    <2> QED
      BY <2>1, <2>2
  <1>5. NeverOversold'
    <2>1. \A j \in Items : Cardinality(Buyers(j)) + stock'[j] <= items[j].quota
      BY <1>4, BuyersFinite DEF IInv, NeverOversold
    <2> QED
      BY <1>1, <1>3, <2>1 DEF IInv, NeverOversold
  <1>6. \A g \in Requests : Stocking(g) => req[g].i \in Items
    BY ReqKinds DEF IInv, Stocking, ItemReq
  <1>7. StockPending'
    BY <1>1, <1>3, <1>6 DEF IInv, StockPending, Stocking
  <1> QED
    BY <1>2, <1>5, <1>7 DEF IInv

LEMMA InitIInv == Init => IInv
  <1> SUFFICES ASSUME Init PROVE IInv
    OBVIOUS
  <1>1. TypeOK
    BY DEF Init, TypeOK, SaleStatus, NoItem, Item
  <1>2. \A i \in Items : /\ Buyers(i) = {} /\ stock[i] = 0 /\ items[i].quota = 0
                         /\ \A u \in Users : bought[i][u] = 0
    BY DEF Init, Buyers, NoItem
  <1>4. Cardinality({}) = 0
    BY FS_EmptySet
  <1>5. \A i \in Items : Cardinality(Buyers(i)) + stock[i] <= items[i].quota
    BY <1>2, <1>4
  <1>3. NeverOversold
    BY <1>2, <1>5 DEF NeverOversold, maxPerUser
  <1> QED
    BY <1>1, <1>3 DEF IInv, StockPending, Stocking, Init, Idle

LEMMA NextIInv ==
    ASSUME IInv, [Next]_vars
    PROVE  IInv'
  <1>1. ASSUME NEW h \in Requests, Work(h)
        PROVE  IInv'
    BY <1>1, MemberStep, ScriptStep, AfterSaleStep, SetStockStep DEF Work
  <1>2. ASSUME NEW h \in Requests, Accept(h)
        PROVE  IInv'
    BY <1>2, JoinStep, AttemptStep, ItemStep DEF Accept
  <1>3. ASSUME NEW h \in Requests, Crash(h)
        PROVE  IInv'
    BY <1>3, IdleStep DEF Crash
  <1> QED
    BY <1>1, <1>2, <1>3, OutsideStep, StockExpiresStep DEF Next

LEMMA Invariance == Spec => []IInv
  <1>1. IInv /\ [Next]_vars => IInv'
    BY NextIInv
  <1> QED
    BY <1>1, InitIInv, PTL DEF Spec

-----------------------------------------------------------------------------
(* Turns: users who wait for their answers, and a list that no purchase outlives *)

Calling(h) == req[h].op \in {"join", "buy"}

SingleCall ==
    \A g, h \in Requests :
        Calling(g) /\ Calling(h) /\ req[g].u = req[h].u => g = h

\* Whoever was found at the front is still there.
FrontIsBuyer ==
    \A h \in Requests : AtFront(h) => queue # <<>> /\ Head(queue) = req[h].u

TurnInv == IInv /\ SingleCall /\ FrontIsBuyer

\* A request goes on for its own user, ends, or is a call that its user may make.
LEMMA CallsStaySingle ==
    ASSUME TypeOK, SingleCall, OneCallPerUser,
           NEW h \in Requests, NEW x \in AnyReq, Step(h, x),
           x.op \in {"join", "buy"} =>
             \/ Calling(h) /\ x.u = req[h].u
             \/ MayCall(h, x.u)
    PROVE  SingleCall'
  <1>1. \A g \in Requests : req'[g] = IF g = h THEN x ELSE req[g]
    BY StepIs
  <1>2. ASSUME NEW g \in Requests, g # h, Calling(g), x.op \in {"join", "buy"}
        PROVE  req[g].u # x.u
    BY <1>2 DEF SingleCall, MayCall, Calling
  <1> QED
    BY <1>1, <1>2 DEF SingleCall, Calling

\* As long as nobody leaves the front of the queue but the caller h.
LEMMA FrontStays ==
    ASSUME TypeOK, FrontIsBuyer, NEW h \in Requests, NEW x \in AnyReq, Step(h, x),
           queue # <<>> => queue' # <<>> /\ Head(queue') = Head(queue),
           x.op = "buy" /\ x.pc \in {"script", "pop"} =>
             /\ queue # <<>>
             /\ Head(queue) = x.u
    PROVE  FrontIsBuyer'
  <1>1. \A g \in Requests : req'[g] = IF g = h THEN x ELSE req[g]
    BY StepIs
  <1> QED
    BY <1>1 DEF FrontIsBuyer, AtFront

\* What the steps of a request do to it.
LEMMA GoesOn ==
    ASSUME TypeOK, NEW h \in Requests, Work(h) \/ Crash(h)
    PROVE  \E x \in AnyReq :
             /\ Step(h, x)
             /\ x.op \in {"join", "buy"} => Calling(h) /\ x.u = req[h].u
             /\ x.op = "buy" /\ x.pc \in {"script", "pop"} => RunScript(h) /\ x.pc = "pop"
  <1>1. CASE End(h)
    BY <1>1 DEF End, AnyReq, Idle
  <1>2. ASSUME NEW pc \in {"push", "add"}, req[h].op = "join", Goto(h, pc)
        PROVE  \E x \in AnyReq : Step(h, x) /\ x.op = "join" /\ x.u = req[h].u
    <2> DEFINE x == [req[h] EXCEPT !.pc = pc]
    <2>1. x \in AnyReq /\ x.op = "join" /\ x.u = req[h].u
      BY <1>2, ReqKinds DEF AnyReq, JoinReq
    <2> HIDE DEF x
    <2> QED
      BY <1>2, <2>1 DEF Goto, x
  <1>3. ASSUME NEW pc \in {"pop", "token", "sold"}, req[h].op = "buy", Goto(h, pc)
        PROVE  \E x \in AnyReq : Step(h, x) /\ x.op = "buy" /\ x.u = req[h].u /\ x.pc = pc
    <2> DEFINE x == [req[h] EXCEPT !.pc = pc]
    <2>1. x \in AnyReq /\ x.op = "buy" /\ x.u = req[h].u /\ x.pc = pc
      BY <1>3, ReqKinds DEF AnyReq, BuyReq
    <2> HIDE DEF x
    <2> QED
      BY <1>3, <2>1 DEF Goto, x
  <1>4. CASE Crash(h) \/ AddMember(h) \/ CountSold(h) \/ SetStock(h)
    BY <1>1, <1>4 DEF Crash, AddMember, CountSold, SetStock
  <1>5. CASE CheckMember(h)
    BY <1>1, <1>2, <1>5 DEF CheckMember, Calling
  <1>6. CASE PushUser(h)
    BY <1>2, <1>6 DEF PushUser, Calling
  <1>7. CASE RunScript(h)
    BY <1>1, <1>3, <1>7 DEF RunScript, Calling
  <1>8. CASE PopQueue(h)
    BY <1>3, <1>8 DEF PopQueue, Calling
  <1>9. CASE StoreToken(h)
    BY <1>3, <1>9 DEF StoreToken, Calling
  <1> QED
    BY <1>4, <1>5, <1>6, <1>7, <1>8, <1>9 DEF Work

LEMMA ArrivalTurn ==
    ASSUME TurnInv, OneCallPerUser, NEW h \in Requests, Accept(h)
    PROVE  SingleCall' /\ FrontIsBuyer'
  <1> USE DEF TurnInv, IInv
  <1>1. queue' = queue
    BY DEF Accept, JoinQueue, AttemptBuy, AddFlashSaleItem, redisVars
  <1>2. ASSUME NEW u \in Users, JoinQueue(h, u)
        PROVE  SingleCall' /\ FrontIsBuyer'
    <2> DEFINE x == [op |-> "join", pc |-> "member", u |-> u]
    <2>1. x \in AnyReq /\ x.op = "join" /\ x.u = u
      BY DEF AnyReq, JoinReq
    <2> HIDE DEF x
    <2>2. Step(h, x) /\ MayCall(h, u)
      BY <1>2 DEF JoinQueue, x
    <2> QED
      BY <1>1, <2>1, <2>2, CallsStaySingle, FrontStays
  <1>3. ASSUME NEW u \in Users, NEW i \in Items, AttemptBuy(h, u, i)
        PROVE  SingleCall' /\ FrontIsBuyer'
    <2> DEFINE x == [op |-> "buy", pc |-> "script", u |-> u, i |-> i]
    <2>1. x \in AnyReq /\ x.op = "buy" /\ x.u = u
      BY DEF AnyReq, BuyReq
    <2> HIDE DEF x
    <2>2. Step(h, x) /\ MayCall(h, u) /\ queue # <<>> /\ Head(queue) = u
      BY <1>3 DEF AttemptBuy, x
    <2> QED
      BY <1>1, <2>1, <2>2, CallsStaySingle, FrontStays
  <1>4. ASSUME NEW i \in Items, NEW n \in 1..MaxQuota, AddFlashSaleItem(h, i, n)
        PROVE  SingleCall' /\ FrontIsBuyer'
    <2> DEFINE x == [op |-> "item", pc |-> "stock", i |-> i]
    <2>1. x \in AnyReq /\ x.op = "item"
      BY DEF AnyReq, ItemReq
    <2> HIDE DEF x
    <2>2. Step(h, x)
      BY <1>4 DEF AddFlashSaleItem, x
    <2> QED
      BY <1>1, <2>1, <2>2, CallsStaySingle, FrontStays
  <1> QED
    BY <1>2, <1>3, <1>4 DEF Accept

\* LPOP takes the caller, and no other request may have found somebody at the front.
LEMMA PopTurn ==
    ASSUME TurnInv, NEW h \in Requests, PopQueue(h)
    PROVE  FrontIsBuyer'
  <1> USE DEF TurnInv, IInv
  <1>1. AtFront(h) /\ Calling(h)
    BY DEF PopQueue, AtFront, Calling
  <1>2. \A g \in Requests : AtFront(g) => g = h
    <2>1. \A g \in Requests : AtFront(g) => Calling(g) /\ req[g].u = req[h].u
      BY <1>1 DEF FrontIsBuyer, AtFront, Calling
    <2> QED
      BY <1>1, <2>1 DEF SingleCall
  <1>3. PICK x \in AnyReq : /\ Step(h, x)
                            /\ ~(x.op = "buy" /\ x.pc \in {"script", "pop"})
    <2>1. ~RunScript(h)
      BY DEF PopQueue, RunScript
    <2> QED
      BY <2>1, GoesOn DEF Work
  <1>4. \A g \in Requests : ~AtFront(g)'
    BY <1>2, <1>3, StepIs DEF AtFront
  <1> QED
    BY <1>4 DEF FrontIsBuyer

LEMMA WorkTurn ==
    ASSUME TurnInv, OneCallPerUser, NEW h \in Requests, Work(h) \/ Crash(h)
    PROVE  SingleCall' /\ FrontIsBuyer'
  <1> USE DEF TurnInv, IInv
  <1>1. PICK x \in AnyReq :
          /\ Step(h, x)
          /\ x.op \in {"join", "buy"} => Calling(h) /\ x.u = req[h].u
          /\ x.op = "buy" /\ x.pc \in {"script", "pop"} => RunScript(h) /\ x.pc = "pop"
    BY GoesOn
  <1>2. SingleCall'
    BY <1>1, CallsStaySingle
  <1>3. CASE PopQueue(h)
    BY <1>2, <1>3, PopTurn
  <1>4. CASE ~PopQueue(h)
    <2>1. queue' = queue \/ PushUser(h)
      BY <1>4 DEF Work, Crash, CheckMember, AddMember, RunScript, StoreToken, CountSold,
                  SetStock, redisVars, queueVars
    <2>2. queue # <<>> => queue' # <<>> /\ Head(queue') = Head(queue)
      <3>1. CASE queue' = queue
        BY <3>1
      <3>2. CASE PushUser(h)
        <4>1. queue \in Seq(Users) /\ req[h].u \in Users
          BY <3>2, TypeParts, ReqKinds DEF PushUser, JoinReq
        <4>2. queue' = queue \/ queue' = Append(queue, req[h].u)
          BY <3>2 DEF PushUser
        <4> QED
          BY <4>1, <4>2, QueueOps
      <3> QED
        BY <2>1, <3>1, <3>2
    <2>3. RunScript(h) => AtFront(h)
      BY DEF RunScript, AtFront
    <2> QED
      BY <1>1, <1>2, <2>2, <2>3, FrontStays DEF FrontIsBuyer, RunScript
  <1> QED
    BY <1>3, <1>4

LEMMA OutsideTurn ==
    ASSUME TurnInv, ~ExpiryRaces,
           \/ QueueExpires \/ TokenExpires \/ CreateFlashSale \/ EndFlashSale
           \/ UNCHANGED vars
           \/ \E i \in Items : StockExpires(i)
    PROVE  SingleCall' /\ FrontIsBuyer'
  <1>1. req' = req
    BY DEF QueueExpires, TokenExpires, CreateFlashSale, EndFlashSale, StockExpires, vars
  <1>2. queue' = queue \/ \A h \in Requests : ~AtFront(h)
    BY DEF QueueExpires, TokenExpires, CreateFlashSale, EndFlashSale, StockExpires, vars,
           redisVars, queueVars
  <1> QED
    BY <1>1, <1>2 DEF TurnInv, SingleCall, Calling, FrontIsBuyer, AtFront

LEMMA TurnNext ==
    ASSUME TurnInv, OneCallPerUser, ~ExpiryRaces, [Next]_vars
    PROVE  TurnInv'
  <1>1. IInv'
    BY NextIInv DEF TurnInv
  <1>2. SingleCall' /\ FrontIsBuyer'
    BY ArrivalTurn, WorkTurn, OutsideTurn DEF Next
  <1> QED
    BY <1>1, <1>2 DEF TurnInv

LEMMA TurnInvariance ==
    ASSUME OneCallPerUser, ~ExpiryRaces
    PROVE  Spec => []TurnInv
  <1>1. Init => TurnInv
    BY InitIInv DEF TurnInv, Init, SingleCall, Calling, FrontIsBuyer, AtFront, Idle
  <1>2. TurnInv /\ [Next]_vars => TurnInv'
    BY TurnNext
  <1> QED
    BY <1>1, <1>2, PTL DEF Spec

-----------------------------------------------------------------------------
(* Books: what was written after the script of a purchase *)

\* The script has sold a unit, and not all of what follows is done.
InFlight(h) == req[h].op = "buy" /\ req[h].pc \in {"pop", "token", "sold"}

UsersInFlight(i) ==
    {u \in Users : \E h \in Requests : InFlight(h) /\ req[h].i = i /\ req[h].u = u}

FlightsAreBought ==
    \A h \in Requests : InFlight(h) => req[h].u \in Buyers(req[h].i)

OneFlightEach ==
    \A g, h \in Requests :
        InFlight(g) /\ InFlight(h) /\ req[g].i = req[h].i /\ req[g].u = req[h].u => g = h

TokensAreBought ==
    \A i \in Items, u \in Users : <<i, u>> \in tokens => u \in Buyers(i)

\* A purchase that is still to be counted was not counted before.
UncountedFit ==
    \A i \in Items :
        items[i].sold + Cardinality(UsersInFlight(i)) <= Cardinality(Buyers(i))

BooksInv ==
    /\ IInv
    /\ FlightsAreBought /\ OneFlightEach
    /\ TokensAreBought /\ UncountedFit

LEMMA FlightsFinite ==
    ASSUME NEW i \in Items
    PROVE  /\ IsFiniteSet(UsersInFlight(i)) /\ UsersInFlight(i) \subseteq Users
           /\ Cardinality(UsersInFlight(i)) \in Nat
  <1>1. UsersInFlight(i) \subseteq Users
    BY DEF UsersInFlight
  <1>2. IsFiniteSet(UsersInFlight(i))
    BY <1>1, FlashSaleAssumption, FS_Subset
  <1> QED
    BY <1>1, <1>2, FS_CardinalityType

\* Requests end, go on or start, and no purchase is made or counted.
LEMMA QuietBooks ==
    ASSUME BooksInv, IInv', UNCHANGED bought,
           \A g \in Requests : InFlight(g)' =>
             InFlight(g) /\ req'[g].i = req[g].i /\ req'[g].u = req[g].u,
           \A i \in Items, u \in Users :
             <<i, u>> \in tokens' => <<i, u>> \in tokens \/ u \in Buyers(i),
           \A i \in Items : items'[i].sold = items[i].sold
    PROVE  BooksInv'
  <1>1. \A i \in Items : Buyers(i)' = Buyers(i)
    BY DEF Buyers
  <1>2. \A g \in Requests : InFlight(g) => req[g].i \in Items
    BY ReqKinds DEF BooksInv, IInv, InFlight, BuyReq
  <1>3. FlightsAreBought' /\ OneFlightEach'
    BY <1>1, <1>2 DEF BooksInv, FlightsAreBought, OneFlightEach
  <1>4. TokensAreBought'
    BY <1>1 DEF BooksInv, TokensAreBought
  <1>5. ASSUME NEW i \in Items
        PROVE  items'[i].sold + Cardinality(UsersInFlight(i)') <= Cardinality(Buyers(i)')
    <2>1. UsersInFlight(i)' \subseteq UsersInFlight(i)
      BY DEF UsersInFlight
    <2>2. IsFiniteSet(UsersInFlight(i)') /\ Cardinality(UsersInFlight(i)') \in Nat
      BY <2>1, FlightsFinite, FS_Subset, FS_CardinalityType
    <2>3. Cardinality(UsersInFlight(i)') <= Cardinality(UsersInFlight(i))
      BY <2>1, FlightsFinite, FS_Subset
    <2>4. items[i].sold \in Nat
      BY TypeParts DEF BooksInv, IInv, Item
    <2>5. items[i].sold + Cardinality(UsersInFlight(i)) <= Cardinality(Buyers(i))
      BY DEF BooksInv, UncountedFit
    <2> QED
      BY <1>1, <2>2, <2>3, <2>4, <2>5, FlightsFinite, BuyersFinite
  <1>6. UncountedFit'
    BY <1>5 DEF UncountedFit
  <1> QED
    BY <1>3, <1>4, <1>6 DEF BooksInv

\* A buyer more, and a purchase more to be counted (unless the reply gets lost).
LEMMA SellBooks ==
    ASSUME BooksInv, IInv', NEW h \in Requests, RunScript(h), ~UNCHANGED <<stock, bought>>
    PROVE  BooksInv'
  <1>buy. req[h] \in BuyReq /\ req[h].op = "buy" /\ req[h].i \in Items /\ req[h].u \in Users
    BY ReqKinds DEF BooksInv, IInv, RunScript, BuyReq
  <1>item. PICK i \in Items : i = req[h].i
    BY <1>buy
  <1>user. PICK u \in Users : u = req[h].u
    BY <1>buy
  <1>1. /\ MaySell(i, u)
        /\ bought' = [bought EXCEPT ![i][u] = @ + 1]
        /\ UNCHANGED <<tokens, items>>
        /\ Goto(h, "pop") \/ End(h)
    BY <1>item, <1>user DEF RunScript, queueVars
  <1>2. bought[i][u] = 0
    BY <1>1, TypeParts DEF BooksInv, IInv, MaySell, maxPerUser
  <1>3. /\ bought'[i][u] = 1
        /\ \A v \in Users : v # u => bought'[i][v] = bought[i][v]
        /\ \A j \in Items : j # i => bought'[j] = bought[j]
    BY <1>1, <1>2, TypeParts DEF BooksInv, IInv
  <1>4. /\ u \notin Buyers(i) /\ Buyers(i)' = Buyers(i) \cup {u}
        /\ \A j \in Items : j # i => Buyers(j)' = Buyers(j)
    <2>1. \A v \in Users : bought'[i][v] > 0 <=> v = u \/ bought[i][v] > 0
      BY <1>2, <1>3
    <2>2. {v \in Users : bought'[i][v] > 0} = {v \in Users : bought[i][v] > 0} \cup {u}
      BY <2>1
    <2> QED
      BY <1>2, <1>3, <2>2 DEF Buyers
  <1>5. Cardinality(Buyers(i)') = Cardinality(Buyers(i)) + 1
    BY <1>4, BuyersFinite, FS_AddElement
  <1>6. ~InFlight(h)
    BY DEF RunScript, InFlight
  <1>7. /\ \A g \in Requests : g # h => req'[g] = req[g]
        /\ InFlight(h)' => req'[h].i = i /\ req'[h].u = u
    <2>1. CASE End(h)
      BY <2>1 DEF End, Step, BooksInv, IInv, TypeOK, InFlight, Idle
    <2>2. CASE Goto(h, "pop")
      BY <2>2, <1>buy, <1>item, <1>user DEF Goto, Step, BooksInv, IInv, TypeOK, BuyReq
    <2> QED
      BY <1>1, <2>1, <2>2
  <1>8. \A g \in Requests : InFlight(g)' =>
          \/ g = h
          \/ InFlight(g) /\ req'[g] = req[g]
    BY <1>7 DEF InFlight
  <1>9. \A g \in Requests : InFlight(g) => req[g].i \in Items /\ req[g].u \in Users
    BY ReqKinds DEF BooksInv, IInv, InFlight, BuyReq
  <1>10. \A j \in Items : Buyers(j) \subseteq Buyers(j)'
    BY <1>4
  <1>11. FlightsAreBought'
    BY <1>4, <1>7, <1>8, <1>9, <1>10 DEF BooksInv, FlightsAreBought
  <1>12. \A g \in Requests : InFlight(g) => ~(req[g].i = i /\ req[g].u = u)
    BY <1>4 DEF BooksInv, FlightsAreBought
  <1>13. OneFlightEach'
    BY <1>7, <1>8, <1>12 DEF BooksInv, OneFlightEach
  <1>14. TokensAreBought'
    BY <1>1, <1>10 DEF BooksInv, TokensAreBought
  <1>15. ASSUME NEW j \in Items
         PROVE  items'[j].sold + Cardinality(UsersInFlight(j)') <= Cardinality(Buyers(j)')
    <2>1. items'[j].sold = items[j].sold /\ items[j].sold \in Nat
      BY <1>1, TypeParts DEF BooksInv, IInv, Item
    <2>2. items[j].sold + Cardinality(UsersInFlight(j)) <= Cardinality(Buyers(j))
      BY DEF BooksInv, UncountedFit
    <2>3. CASE j = i
      <3>1. UsersInFlight(i)' \subseteq UsersInFlight(i) \cup {u}
        BY <1>7, <1>8 DEF UsersInFlight
      <3>2. IsFiniteSet(UsersInFlight(i) \cup {u})
            /\ Cardinality(UsersInFlight(i) \cup {u}) <= Cardinality(UsersInFlight(i)) + 1
        BY FlightsFinite, FS_AddElement
      <3>3. Cardinality(UsersInFlight(i)') <= Cardinality(UsersInFlight(i) \cup {u})
            /\ Cardinality(UsersInFlight(i)') \in Nat
            /\ Cardinality(UsersInFlight(i) \cup {u}) \in Nat
        BY <3>1, <3>2, FS_Subset, FS_CardinalityType
      <3>4. Cardinality(UsersInFlight(i)') <= Cardinality(UsersInFlight(i)) + 1
        BY <3>2, <3>3, FlightsFinite
      <3>5. items[i].sold + Cardinality(UsersInFlight(i)') <= Cardinality(Buyers(i)')
        BY <1>5, <2>1, <2>2, <2>3, <3>3, <3>4, FlightsFinite, BuyersFinite
      <3> QED
        BY <2>1, <2>3, <3>5 DEF UsersInFlight, Buyers
    <2>4. CASE j # i
      <3>1. UsersInFlight(j)' \subseteq UsersInFlight(j)
        BY <1>7, <1>8, <2>4 DEF UsersInFlight
      <3>2. Cardinality(UsersInFlight(j)') <= Cardinality(UsersInFlight(j))
            /\ Cardinality(UsersInFlight(j)') \in Nat
        BY <3>1, FlightsFinite, FS_Subset, FS_CardinalityType
      <3> QED
        BY <1>4, <2>1, <2>2, <2>4, <3>2, FlightsFinite, BuyersFinite
    <2> QED
      BY <2>3, <2>4
  <1>16. UncountedFit'
    BY <1>15 DEF UncountedFit
  <1> QED
    BY <1>11, <1>13, <1>14, <1>16 DEF BooksInv

\* The purchase that is counted is in flight no more.
LEMMA CountBooks ==
    ASSUME BooksInv, IInv', NEW h \in Requests, CountSold(h)
    PROVE  BooksInv'
  <1>buy. InFlight(h) /\ req[h].i \in Items /\ req[h].u \in Users
    BY ReqKinds DEF BooksInv, IInv, CountSold, InFlight, BuyReq
  <1>item. PICK i \in Items : i = req[h].i
    BY <1>buy
  <1>user. PICK u \in Users : u = req[h].u
    BY <1>buy
  <1>1. /\ items' = items \/ items' = [items EXCEPT ![i].sold = @ + 1]
        /\ UNCHANGED <<bought, tokens>> /\ End(h)
    BY <1>item DEF CountSold, redisVars
  <1>2. /\ items[i].sold \in Nat
        /\ items'[i].sold = items[i].sold \/ items'[i].sold = items[i].sold + 1
        /\ \A j \in Items : j # i => items'[j].sold = items[j].sold
    BY <1>1, TypeParts DEF BooksInv, IInv, Item
  <1>3. \A j \in Items : Buyers(j)' = Buyers(j)
    BY <1>1 DEF Buyers
  <1>4. \A g \in Requests : InFlight(g)' => g # h /\ InFlight(g) /\ req'[g] = req[g]
    BY <1>1 DEF End, Step, BooksInv, IInv, TypeOK, InFlight, Idle
  <1>5. \A g \in Requests : InFlight(g) => req[g].i \in Items
    BY ReqKinds DEF BooksInv, IInv, InFlight, BuyReq
  <1>6. FlightsAreBought' /\ OneFlightEach'
    BY <1>3, <1>4, <1>5 DEF BooksInv, FlightsAreBought, OneFlightEach
  <1>7. TokensAreBought'
    BY <1>1, <1>3 DEF BooksInv, TokensAreBought
  <1>8. u \in UsersInFlight(i)
    BY <1>buy, <1>item, <1>user DEF UsersInFlight
  <1>9. UsersInFlight(i)' \subseteq UsersInFlight(i) \ {u}
    <2>1. \A g \in Requests : InFlight(g)' /\ req'[g].i = i => req[g].u # u
      BY <1>buy, <1>item, <1>user, <1>4 DEF BooksInv, OneFlightEach
    <2> QED
      BY <1>4, <2>1 DEF UsersInFlight
  <1>10. /\ Cardinality(UsersInFlight(i)') \in Nat
         /\ Cardinality(UsersInFlight(i)') <= Cardinality(UsersInFlight(i)) - 1
    <2>1. /\ IsFiniteSet(UsersInFlight(i) \ {u})
          /\ Cardinality(UsersInFlight(i) \ {u}) = Cardinality(UsersInFlight(i)) - 1
      BY <1>8, FlightsFinite, FS_RemoveElement
    <2> QED
      BY <1>9, <2>1, FS_Subset, FS_CardinalityType
  <1>11. \A j \in Items :
           /\ Cardinality(UsersInFlight(j)') \in Nat
           /\ Cardinality(UsersInFlight(j)') <= Cardinality(UsersInFlight(j))
    <2>1. \A j \in Items : UsersInFlight(j)' \subseteq UsersInFlight(j)
      BY <1>4 DEF UsersInFlight
    <2> QED
      BY <2>1, FlightsFinite, FS_Subset, FS_CardinalityType
  <1>12. items'[i].sold + Cardinality(UsersInFlight(i)') <= Cardinality(Buyers(i))
    BY <1>2, <1>10, FlightsFinite, BuyersFinite DEF BooksInv, UncountedFit
  <1>13. ASSUME NEW j \in Items
         PROVE  items'[j].sold + Cardinality(UsersInFlight(j)') <= Cardinality(Buyers(j)')
    <2>1. CASE j = i
      BY <1>3, <1>12, <2>1 DEF UsersInFlight, Buyers
    <2>2. CASE j # i
      <3>1. items'[j].sold = items[j].sold /\ items[j].sold \in Nat
        BY <1>2, <2>2, TypeParts DEF BooksInv, IInv, Item
      <3>2. items[j].sold + Cardinality(UsersInFlight(j)) <= Cardinality(Buyers(j))
        BY DEF BooksInv, UncountedFit
      <3> QED
        BY <1>3, <1>11, <3>1, <3>2, FlightsFinite, BuyersFinite
    <2> QED
      BY <2>1, <2>2
  <1>14. UncountedFit'
    BY <1>13 DEF UncountedFit
  <1> QED
    BY <1>6, <1>7, <1>14 DEF BooksInv

\* The other steps of a request: it ends, or goes on as the same purchase.
LEMMA RequestBooks ==
    ASSUME BooksInv, IInv', NEW h \in Requests, Work(h) \/ Crash(h)
    PROVE  BooksInv'
  <1> USE DEF BooksInv, IInv
  <1>1. CASE RunScript(h) /\ ~UNCHANGED <<stock, bought>>
    BY <1>1, SellBooks
  <1>2. CASE CountSold(h)
    BY <1>2, CountBooks
  <1>3. CASE RunScript(h) /\ UNCHANGED <<stock, bought>>
    <2>1. End(h) /\ UNCHANGED <<tokens, items>>
      <3>1. MaySell(req[h].i, req[h].u) =>
              stock' # [stock EXCEPT ![req[h].i] = @ - 1]
        BY <1>3, ReqKinds, TypeParts DEF RunScript, MaySell, BuyReq
      <3> QED
        BY <1>3, <3>1 DEF RunScript
    <2>2. \A g \in Requests : InFlight(g)' => InFlight(g) /\ req'[g] = req[g]
      BY <2>1 DEF End, Step, TypeOK, InFlight, Idle
    <2> QED
      BY <1>3, <2>1, <2>2, QuietBooks
  <1>4. CASE PopQueue(h) \/ StoreToken(h)
    <2>1. \E pc \in {"token", "sold"} : Goto(h, pc)
      BY <1>4 DEF PopQueue, StoreToken
    <2>2. req[h] \in BuyReq /\ InFlight(h)
      BY <1>4, ReqKinds DEF PopQueue, StoreToken, InFlight
    <2>3. \A g \in Requests : InFlight(g)' =>
            InFlight(g) /\ req'[g].i = req[g].i /\ req'[g].u = req[g].u
      <3>1. \A g \in Requests : g # h => req'[g] = req[g]
        BY <2>1 DEF Goto, Step, TypeOK
      <3>2. req'[h].i = req[h].i /\ req'[h].u = req[h].u
        BY <2>1, <2>2 DEF Goto, Step, TypeOK, BuyReq
      <3> QED
        BY <2>2, <3>1, <3>2 DEF InFlight
    <2>4. UNCHANGED <<bought, items>>
      BY <1>4 DEF PopQueue, StoreToken
    <2>5. \A i \in Items, u \in Users :
            <<i, u>> \in tokens' => <<i, u>> \in tokens \/ u \in Buyers(i)
      BY <1>4, <2>2 DEF PopQueue, StoreToken, FlightsAreBought
    <2> QED
      BY <2>3, <2>4, <2>5, QuietBooks
  <1>5. CASE CheckMember(h) \/ PushUser(h) \/ AddMember(h) \/ SetStock(h) \/ Crash(h)
    <2>1. UNCHANGED <<bought, tokens, items>>
      BY <1>5 DEF CheckMember, PushUser, AddMember, SetStock, Crash, redisVars
    <2>2. End(h) \/ (req[h].op = "join" /\ \E pc \in {"push", "add"} : Goto(h, pc))
      BY <1>5 DEF CheckMember, PushUser, AddMember, SetStock, Crash
    <2>3. \A g \in Requests : InFlight(g)' => InFlight(g) /\ req'[g] = req[g]
      <3>1. \A g \in Requests : g # h => req'[g] = req[g]
        BY <2>2 DEF End, Goto, Step, TypeOK
      <3>2. CASE End(h)
        BY <3>1, <3>2 DEF End, Step, TypeOK, InFlight, Idle
      <3>3. CASE req[h].op = "join" /\ \E pc \in {"push", "add"} : Goto(h, pc)
        <4>1. req[h] \in JoinReq
          BY <3>3, ReqKinds
        <4>2. req'[h].op = "join"
          BY <3>3, <4>1 DEF Goto, Step, TypeOK, JoinReq
        <4> QED
          BY <3>1, <4>2 DEF InFlight
      <3> QED
        BY <2>2, <3>2, <3>3
    <2> QED
      BY <2>1, <2>3, QuietBooks
  <1> QED
    BY <1>1, <1>2, <1>3, <1>4, <1>5 DEF Work

LEMMA ArrivalBooks ==
    ASSUME BooksInv, IInv', NEW h \in Requests, Accept(h)
    PROVE  BooksInv'
  <1> USE DEF BooksInv, IInv
  <1>1. UNCHANGED <<bought, tokens>>
    BY DEF Accept, JoinQueue, AttemptBuy, AddFlashSaleItem, redisVars
  <1>2. \A i \in Items : items'[i].sold = items[i].sold
    <2>1. \/ items' = items
          \/ \E i \in Items, n \in 1..MaxQuota : items' = [items EXCEPT ![i].quota = n]
      BY DEF Accept, JoinQueue, AttemptBuy, AddFlashSaleItem
    <2> QED
      BY <2>1, TypeParts DEF Item
  <1>3. /\ \A g \in Requests : g # h => req'[g] = req[g]
        /\ ~InFlight(h)'
    BY DEF Accept, JoinQueue, AttemptBuy, AddFlashSaleItem, Step, TypeOK, InFlight
  <1>4. \A g \in Requests : InFlight(g)' => InFlight(g) /\ req'[g] = req[g]
    BY <1>3 DEF InFlight
  <1> QED
    BY <1>1, <1>2, <1>4, QuietBooks

LEMMA OutsideBooks ==
    ASSUME BooksInv, IInv',
           \/ QueueExpires \/ TokenExpires \/ CreateFlashSale \/ EndFlashSale
           \/ UNCHANGED vars
           \/ \E i \in Items : StockExpires(i)
    PROVE  BooksInv'
  <1>1. UNCHANGED <<bought, items, req>> /\ tokens' \subseteq tokens
    BY DEF QueueExpires, TokenExpires, CreateFlashSale, EndFlashSale, StockExpires, vars,
           redisVars, queueVars
  <1>2. \A g \in Requests : InFlight(g)' => InFlight(g) /\ req'[g] = req[g]
    BY <1>1 DEF InFlight
  <1> QED
    BY <1>1, <1>2, QuietBooks

LEMMA BooksInvariance == Spec => []BooksInv
  <1>1. Init => BooksInv
    <2> SUFFICES ASSUME Init PROVE BooksInv
      OBVIOUS
    <2>1. FlightsAreBought /\ OneFlightEach /\ TokensAreBought
      BY DEF Init, FlightsAreBought, OneFlightEach, TokensAreBought, InFlight, Idle
    <2>2. \A i \in Items : items[i].sold = 0 /\ UsersInFlight(i) = {}
      BY DEF Init, NoItem, UsersInFlight, InFlight, Idle
    <2>3. Cardinality({}) = 0
      BY FS_EmptySet
    <2>4. \A i \in Items :
            items[i].sold + Cardinality(UsersInFlight(i)) <= Cardinality(Buyers(i))
      BY <2>2, <2>3, BuyersFinite
    <2> QED
      BY <2>1, <2>4, InitIInv DEF BooksInv, UncountedFit
  <1>2. BooksInv /\ [Next]_vars => BooksInv'
    <2>1. BooksInv /\ [Next]_vars => IInv'
      BY NextIInv DEF BooksInv
    <2> QED
      BY <2>1, RequestBooks, ArrivalBooks, OutsideBooks DEF Next
  <1> QED
    BY <1>1, <1>2, PTL DEF Spec

-----------------------------------------------------------------------------
(* Theorems *)

\* The Lua script, the key of an item that is set once and the limit per user keep a
\* sale within its quotas, whatever requests, expiries and lost replies interleave.
THEOREM QuotaHolds == Spec => []SaleSafety
  <1>1. IInv => SaleSafety
    BY DEF IInv, SaleSafety
  <1> QED
    BY <1>1, Invariance, PTL

\* Where users wait for their answers and the list does not expire under a purchase, two
\* users are never past the check of the queue at once (LPOS, handler.go:230).
THEOREM TurnsDoNotOverlap ==
    ASSUME OneCallPerUser, ~ExpiryRaces
    PROVE  Spec => []OneBuyerAtATime
  <1>1. TurnInv => OneBuyerAtATime
    BY DEF TurnInv, FrontIsBuyer, OneBuyerAtATime
  <1> QED
    BY <1>1, TurnInvariance, PTL

\* Under the same conditions the LPOP after a purchase never takes anyone but the buyer,
\* through every crash and lost command.
THEOREM TurnsAreKept ==
    ASSUME OneCallPerUser, ~ExpiryRaces
    PROVE  Spec => TurnIsKept
  <1>1. TurnInv /\ [Next]_vars =>
          [\A h \in Requests :
             PopQueue(h) /\ queue' # queue => Head(queue) = req[h].u]_vars
    BY DEF TurnInv, FrontIsBuyer, AtFront, PopQueue
  <1> QED
    BY <1>1, TurnInvariance, PTL DEF Spec, TurnIsKept

\* Whatever is lost, expires or crashes between the script and the statements after it: the
\* sold column never runs ahead of the purchases in Redis, and a token is only held by a
\* buyer.
THEOREM BooksLagBehind == Spec => []SoldIsBought
  <1>1. BooksInv => SoldIsBought
    <2> SUFFICES ASSUME BooksInv, NEW i \in Items
                 PROVE  /\ items[i].sold <= Cardinality(Buyers(i))
                        /\ \A u \in Users : <<i, u>> \in tokens => u \in Buyers(i)
      BY DEF SoldIsBought
    <2>1. items[i].sold \in Nat
      BY TypeParts DEF BooksInv, IInv, Item
    <2>2. items[i].sold + Cardinality(UsersInFlight(i)) <= Cardinality(Buyers(i))
      BY DEF BooksInv, UncountedFit
    <2>3. items[i].sold <= Cardinality(Buyers(i))
      BY <2>1, <2>2, FlightsFinite, BuyersFinite
    <2> QED
      BY <2>3 DEF BooksInv, TokensAreBought
  <1> QED
    BY <1>1, BooksInvariance, PTL
=============================================================================
