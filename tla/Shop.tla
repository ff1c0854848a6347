-------------------------------- MODULE Shop --------------------------------
(***************************************************************************)
(* Private shops of players (internal/system/private_shop.go, internal/    *)
(* handler/privateshop.go) and the shops of NPCs with their taxes          *)
(* (internal/system/shop.go).                                              *)
(*                                                                         *)
(* A private shop is two lists its owner made once: things to sell, by     *)
(* object number, and things to buy, by kind.  What he carries changes     *)
(* behind them, and so do the lists behind customers who have looked at    *)
(* them; a customer orders by position.  One packet holds several orders,  *)
(* carried out one by one, each with its own checks and its own row in     *)
(* the log (EconomyWal), which may fail to be written.                     *)
(***************************************************************************)
EXTENDS Integers, FiniteSetsExt, SequencesExt

CONSTANTS
    Trader,         \* players ...
    Keeper,         \* ... and those who open shops
    Gold, Herb,     \* adena, and another good that stacks
    Blade,          \* a kind that does not stack
    FirstStock,     \* FirstStock[p]: the inventory p begins with
    Price,          \* prices that are asked
    PriceLimit,     \* 2000000000
    MaxInt,         \* largest int32
    MaxSlots,       \* MaxInventorySize
    Weight,         \* ItemInfo.Weight of a good, in thousandths
    MaxLoad,        \* PlayerMaxWeight
    MaxList,        \* bound: entries of a list and orders of a packet (8 and 100)
    MaxThing,       \* bound: objects numbered (a state constraint)
    MaxVisits,       \* bound: visits to NPCs
    Ware,           \* SellingItems of the NPC: a sequence of [good, price, pack]
    Buys,           \* PurchasingItems of the NPC: [subset of the goods -> price]
    TaxRate         \* of the castle around the NPC, per cent

Kind == {Gold, Herb, Blade}
Stacks == {Gold, Herb}
Thing == [obj : Nat, good : Kind, n : Int]

\* A stack is of at least one, what does not stack is one; AddItem merges stacks of a kind.
ASSUME ShopAssumption ==
    /\ IsFiniteSet(Trader) /\ Keeper \subseteq Trader
    /\ Cardinality(Kind) = 3
    /\ FirstStock \in [Trader -> SUBSET Thing]
    /\ \A p \in Trader :
          /\ IsFiniteSet(FirstStock[p])
          /\ \A x \in FirstStock[p] :
                /\ x.obj >= 1 /\ x.n >= 1 /\ (x.good = Blade => x.n = 1)
                /\ \A q \in Trader : \A y \in FirstStock[q] :
                      /\ x.obj = y.obj => p = q /\ x = y
                      /\ p = q /\ x.good = y.good /\ x.good # Blade => x = y
    /\ Price \subseteq Nat \ {0} /\ {PriceLimit, MaxInt, MaxSlots, MaxLoad} \subseteq Nat
    /\ {MaxList, MaxThing, MaxVisits, TaxRate} \subseteq Nat
    /\ Weight \in [Kind -> Nat] /\ DOMAIN Buys \subseteq Kind /\ Buys \in [DOMAIN Buys -> Nat]
    /\ \A i \in DOMAIN Ware : /\ Ware[i].good \in Kind \ {Gold}
                             /\ {Ware[i].price, Ware[i].pack} \subseteq Nat

VARIABLES
    stock,      \* stock[p]: PlayerInfo.Inv, a set of [obj, good, n]
    worn,       \* worn[p]: numbers of the objects p has equipped
    shop,       \* shop[p]: PrivateShop, ShopSellList, ShopBuyList, and two histories
    glanced,    \* glanced[p]: ShopPartnerCount, the length of the list p saw last
    things,     \* objects numbered so far
    visits,      \* bound: visits to NPCs so far
    taxes,      \* what castles were paid
    burst       \* history: a count has wrapped

shopVars == <<stock, worn, shop, glanced, things, visits, taxes, burst>>

-----------------------------------------------------------------------------
(* Inventories.  An operation works on memory: m.stock, and numbers from m.things. *)

Total(S, g) == SumFunctionOnSet([x \in S |-> x.n], {x \in S : x.good = g})
GetAdena(S) == Total(S, Gold)
SupplyOf(all, g) == SumFunctionOnSet([p \in Trader |-> Total(all[p], g)], Trader)
Supply(g) == SupplyOf(stock, g)
Numbers(S) == {x.obj : x \in S}

Wrap(n) == IF n > MaxInt THEN n - 2 * (MaxInt + 1) ELSE n
Counting(x, n) == [x EXCEPT !.n = n]

\* AddItemWithID: a stack grows, anything else gets a slot of its own.
Put(m, p, obj, g, n) ==
    LET old == {x \in m.stock[p] : x.good = g}
        new == [obj |-> IF obj = 0 THEN m.things + 1 ELSE obj, good |-> g, n |-> n]
    IN  IF g \in Stacks /\ old # {}
        THEN [m EXCEPT !.stock[p] = (@ \ old) \cup {Counting(x, Wrap(x.n + n)) : x \in old},
                       !.burst = @ \/ \E x \in old : x.n + n > MaxInt]
        ELSE [m EXCEPT !.stock[p] = @ \cup {new}, !.things = IF obj = 0 THEN @ + 1 ELSE @]

\* Fault: the slot goes whatever is left in it.
TakeAll(m, p, x, n) == [m EXCEPT !.stock[p] = @ \ {x}]
\* RemoveItem: the slot goes with the last of it.
Take(m, p, x, n) ==
    [m EXCEPT !.stock[p] = (@ \ {x}) \cup
        IF x.good \in Stacks /\ x.n > n THEN {Counting(x, x.n - n)} ELSE {}]

\* TransferItem: a whole stack is numbered anew, an object keeps its number.
TransferItem(m, from, to, x, n) ==
    Put(Take(m, from, x, n), to, IF x.good = Blade THEN x.obj ELSE 0, x.good, n)

\* TransferGold, and what is paid for goods of an NPC: nothing, by who has no gold.
Purse(S) == {x \in S : x.good = Gold}
Pay(m, p, n) == IF Purse(m.stock[p]) = {} THEN m
                ELSE Take(m, p, CHOOSE x \in Purse(m.stock[p]) : TRUE, n)
TransferGold(m, from, to, n) ==
    IF Purse(m.stock[from]) = {} THEN m ELSE Put(Pay(m, from, n), to, 0, Gold, n)

\* TotalWeight: each slot weighs at least one; IsOverWeight: so does what is added.
Load(S) == MapThenSumSet(LAMBDA x : IF Weight[x.good] = 0 THEN 0
                                     ELSE Max({(x.n * Weight[x.good]) \div 1000, 1}), S)
OverWeight(S, raw) == Load(S) + (IF raw = 0 THEN 0 ELSE Max({raw \div 1000, 1})) >= MaxLoad

Memory == [stock |-> stock, things |-> things, burst |-> burst]
Store(m) == stock' = m.stock /\ things' = m.things /\ burst' = m.burst

-----------------------------------------------------------------------------
(* Opening, closing, looking *)

Closed == [open |-> FALSE, sell |-> <<>>, buy |-> <<>>, taken |-> 0, cleared |-> 0, self |-> FALSE]

\* What is left of a list: its entries in S, in their order.
Among(list, S) == FoldLeft(LAMBDA r, e : IF e \in S THEN Append(r, e) ELSE r, <<>>, list)

\* HandleShop, openPrivateShop.  Something worn on the list closes the shop there was;
\* what cannot be found is passed over, and so is the packet if nothing is left.
OpenShop(p, toSell, toBuy) ==
    LET Of(r) == CHOOSE x \in stock[p] : x.obj = r.obj
        there(list) == {r \in ToSet(list) : r.obj \in Numbers(stock[p])}
        offers == Among(toSell, {r \in there(toSell) : Of(r).n > 0})
        wishes == Among(toBuy, there(toBuy))
        sell == [i \in DOMAIN offers |->
                    [obj |-> offers[i].obj, price |-> offers[i].price,
                     total |-> Min({offers[i].n, Of(offers[i]).n}), done |-> 0]]
        buy == [i \in DOMAIN wishes |->
                    [good |-> Of(wishes[i]).good, price |-> wishes[i].price, total |-> wishes[i].n, done |-> 0]]
    IN  /\ shop' = [shop EXCEPT ![p] =
              IF \E r \in there(toSell) : r.obj \in worn[p] THEN Closed
              ELSE IF sell = <<>> /\ buy = <<>> THEN @
              ELSE [Closed EXCEPT !.open = TRUE, !.sell = sell, !.buy = buy]]
        /\ UNCHANGED <<stock, worn, glanced, things, visits, taxes, burst>>

CloseShop(p) ==
    /\ shop' = [shop EXCEPT ![p] = Closed]
    /\ UNCHANGED <<stock, worn, glanced, things, visits, taxes, burst>>

\* HandleQueryPrivateShop, sendPrivateShopSellList.
Browse(p, s) ==
    /\ ~shop[p].open /\ shop[s].open /\ shop[s].sell # <<>>
    /\ glanced' = [glanced EXCEPT ![p] = Len(shop[s].sell)]
    /\ UNCHANGED <<stock, worn, shop, things, visits, taxes, burst>>

-----------------------------------------------------------------------------
(* Orders.  The loop over them keeps memory, the list, and whether it goes on: *)
(* "break" leads to what comes after the loop, "return" does not.              *)

Fits(m, p, g, n) == g \in Stacks \/ Cardinality(m.stock[p]) + n <= MaxSlots

\* One turn of the loop of ExecuteBuy; o.log says whether WriteWAL works.
SellOne(buyer, s, st, o) ==
    LET e == st.list[o.at]
        n == Min({o.n, e.total - e.done})
        x == CHOOSE y \in st.mem.stock[s] : y.obj = e.obj
        price == e.price * n
    IN  IF st.next # "on" \/ o.at \notin DOMAIN st.list THEN st
        ELSE IF n <= 0 \/ e.obj \notin Numbers(st.mem.stock[s]) THEN st
        ELSE IF price > PriceLimit THEN [st EXCEPT !.next = "return"]
        ELSE IF GetAdena(st.mem.stock[buyer]) < price \/ x.n < n THEN st
        ELSE IF ~Fits(st.mem, buyer, x.good, n) THEN [st EXCEPT !.next = "break"]
        ELSE IF ~o.log THEN [st EXCEPT !.next = "return"]
        ELSE [st EXCEPT !.mem = TransferGold(TransferItem(@, s, buyer, x, n), buyer, s, price),
                        !.list[o.at].done = @ + n]

\* One turn of the loop of ExecuteSell; o.obj is what the customer hands over.
BuyOne(seller, s, st, o) ==
    LET e == st.list[o.at]
        n == Min({o.n, e.total - e.done})
        x == CHOOSE y \in st.mem.stock[seller] : y.obj = o.obj
        price == e.price * n
    IN  IF st.next # "on" \/ o.at \notin DOMAIN st.list THEN st
        ELSE IF n <= 0 \/ o.obj \notin Numbers(st.mem.stock[seller]) THEN st
        ELSE IF x.good # e.good THEN [st EXCEPT !.next = "return"]
        ELSE IF x.n < n THEN st
        ELSE IF price > PriceLimit THEN [st EXCEPT !.next = "return"]
        ELSE IF GetAdena(st.mem.stock[s]) < price THEN [st EXCEPT !.next = "break"]
        ELSE IF ~Fits(st.mem, s, x.good, n) THEN [st EXCEPT !.next = "break"]
        ELSE IF ~o.log THEN [st EXCEPT !.next = "return"]
        ELSE [st EXCEPT !.mem = TransferGold(TransferItem(@, seller, s, x, n), s, seller, price),
                        !.list[o.at].done = @ + n]

Loop(list) == [mem |-> Memory, list |-> list, next |-> "on"]

\* Fault: an entry goes with its first sale.
BegunWith(e) == e.done > 0
\* SoldCount >= SellTotal, BoughtCount >= BuyTotal.
DoneWith(e) == e.done >= e.total

\* What the goods sold, or bought, of a list came to, and those of the entries done with.
Brought(list) == SumFunction([i \in DOMAIN list |-> list[i].price * list[i].done])
Worth(list) == SumFunction([i \in DOMAIN list |->
                               IF DoneWith(list[i]) THEN list[i].price * list[i].total ELSE 0])

\* After the loop: what is done leaves the lists, and a shop with both empty closes.
Pending(list) == Among(list, {e \in ToSet(list) : ~DoneWith(e)})
Swept(kept) == IF kept.sell = <<>> /\ kept.buy = <<>> THEN Closed ELSE kept

\* The histories: what the owner's purse gained, and what entries no longer listed brought;
\* self: the owner has ordered something himself.
Booked(s, customer, m, worth, sell, buy) ==
    [open |-> TRUE, sell |-> sell, buy |-> buy,
     taken |-> shop[s].taken + (GetAdena(m.stock[s]) - GetAdena(stock[s])),
     cleared |-> shop[s].cleared + worth, self |-> shop[s].self \/ customer = s]

ExecuteBuy(buyer, s, orders) ==
    /\ shop[s].open /\ shop[s].sell # <<>>
    /\ glanced[buyer] = Len(shop[s].sell)
    /\ LET st == FoldLeft(LAMBDA t, o : SellOne(buyer, s, t, o), Loop(shop[s].sell), orders)
       IN  /\ Store(st.mem)
           /\ shop' = [shop EXCEPT ![s] =
                 IF st.next = "return" THEN Booked(s, buyer, st.mem, 0, st.list, shop[s].buy)
                 ELSE Swept(Booked(s, buyer, st.mem, Worth(st.list), Pending(st.list), shop[s].buy))]
    /\ UNCHANGED <<worn, glanced, visits, taxes>>

ExecuteSell(seller, s, orders) ==
    /\ shop[s].open /\ shop[s].buy # <<>>
    /\ LET st == FoldLeft(LAMBDA t, o : BuyOne(seller, s, t, o), Loop(shop[s].buy), orders)
       IN  /\ Store(st.mem)
           /\ shop' = [shop EXCEPT ![s] =
                 IF st.next = "return" THEN Booked(s, seller, st.mem, 0, shop[s].sell, st.list)
                 ELSE Swept(Booked(s, seller, st.mem, -Worth(st.list), shop[s].sell, Pending(st.list)))]
    /\ UNCHANGED <<worn, glanced, visits, taxes>>

-----------------------------------------------------------------------------
(* What happens to the goods meanwhile *)

\* A trade, or what one drops and another picks up; nothing worn changes hands.
HandOver(p, q, x) ==
    /\ p # q /\ x \in stock[p] /\ x.obj \notin worn[p]
    /\ Store(TransferItem(Memory, p, q, x, x.n))
    /\ UNCHANGED <<worn, shop, glanced, visits, taxes>>

EquipWeapon(p, x) ==
    /\ x \in stock[p] /\ x.good = Blade
    /\ worn' = [worn EXCEPT ![p] = IF x.obj \in @ THEN @ \ {x.obj} ELSE {x.obj}]
    /\ UNCHANGED <<stock, shop, glanced, things, visits, taxes, burst>>

\* Leaving and returning: PlayerInfo is made anew.
Relog(p) ==
    /\ shop' = [shop EXCEPT ![p] = Closed]
    /\ glanced' = [glanced EXCEPT ![p] = 0]
    /\ UNCHANGED <<stock, worn, things, visits, taxes, burst>>

-----------------------------------------------------------------------------
(* Shops of NPCs *)

\* ItemCreateSystem.GiveItem: nothing, when there is no room or it is too heavy.
Slots(S, g, n) == IF g = Blade THEN n ELSE IF \E x \in S : x.good = g THEN 0 ELSE 1
PutEach(m, p, g, n) == FoldLeft(LAMBDA r, i : Put(r, p, 0, g, 1), m, [i \in 1..n |-> i])
GiveItem(st, p, g, n) ==
    LET S == st.mem.stock[p]
        slots == Slots(S, g, n)
    IN  IF n <= 0 \/ (slots > 0 /\ Cardinality(S) + slots > MaxSlots) \/ (Weight[g] > 0 /\ OverWeight(S, Weight[g] * n))
        THEN [st EXCEPT !.given = FALSE]
        ELSE [st EXCEPT !.mem = IF g \in Stacks THEN Put(@, p, 0, g, n) ELSE PutEach(@, p, g, n)]

\* BuyFromNpc: the castle's tax with a tenth of it for Aden, and the war tax with a
\* tenth of it for Diad; the rest of the war tax goes to nobody.
CastleTax(cost) == (cost * TaxRate) \div 100
WarTax(cost) == (cost * 15) \div 100
Payment(cost) == cost + CastleTax(cost) + WarTax(cost)
NationalTax(cost) == (CastleTax(cost) * 10) \div 100
DiadTax(cost) == (WarTax(cost) * 10) \div 100
ToCastles(cost) == (CastleTax(cost) - NationalTax(cost)) + NationalTax(cost) + DiadTax(cost)

\* Paid before it is handed over, order by order until one does not fit.
Hand(p, st, w) == IF st.given THEN GiveItem(st, p, w.good, w.n) ELSE st
BuyFromNpc(p, orders) ==
    LET wares == [i \in DOMAIN orders |->
                    [good |-> Ware[orders[i].at].good, n |-> Wrap(orders[i].n * Ware[orders[i].at].pack)]]
        cost == SumFunction([i \in DOMAIN orders |-> Ware[orders[i].at].price * orders[i].n])
        slots == SumFunction([i \in DOMAIN wares |-> Slots(stock[p], wares[i].good, wares[i].n)])
        weight == SumFunction([i \in DOMAIN wares |-> Weight[wares[i].good] * wares[i].n])
        paid == [mem |-> Pay(Memory, p, Payment(cost)), given |-> TRUE]
    IN  /\ visits < MaxVisits /\ visits' = visits + 1
        /\ GetAdena(stock[p]) >= Payment(cost)
        /\ Cardinality(stock[p]) + slots <= MaxSlots
        /\ ~OverWeight(stock[p], weight)
        /\ Store(FoldLeft(LAMBDA t, w : Hand(p, t, w), paid, wares).mem)
        /\ taxes' = taxes + ToCastles(cost)
        /\ UNCHANGED <<worn, shop, glanced>>

\* SellToNpc: all that is sold is taken, then the sum is paid, as an int32.
TakeOne(p, st, o) ==
    LET x == CHOOSE y \in st.mem.stock[p] : y.obj = o.obj
        n == Min({o.n, x.n})
    IN  IF o.obj \notin Numbers(st.mem.stock[p]) \/ x.good \notin DOMAIN Buys THEN st
        ELSE [mem |-> Take(st.mem, p, x, n), earned |-> st.earned + n * Buys[x.good]]
SellToNpc(p, orders) ==
    LET sold == FoldLeft(LAMBDA t, o : TakeOne(p, t, o), [mem |-> Memory, earned |-> 0], orders)
        given == GiveItem([mem |-> sold.mem, given |-> TRUE], p, Gold, Wrap(sold.earned))
    IN  /\ visits < MaxVisits /\ visits' = visits + 1
        /\ Store(IF sold.earned > 0 THEN given.mem ELSE sold.mem)
        /\ UNCHANGED <<worn, shop, glanced, taxes>>

-----------------------------------------------------------------------------
ShopInit ==
    /\ stock = FirstStock
    /\ worn = [p \in Trader |-> {}]
    /\ shop = [p \in Trader |-> Closed]
    /\ glanced = [p \in Trader |-> 0]
    /\ things = Max({0} \cup {x.obj : x \in UNION {stock[p] : p \in Trader}})
    /\ visits = 0 /\ taxes = 0 /\ burst = FALSE

Lists(Entry) == UNION {[1..k -> Entry] : k \in 0..MaxList}
\* Bound: nobody asks a price for gold.
Requests(p) == Lists([obj : Numbers({x \in stock[p] : x.good # Gold}), price : Price, n : 1..2])

\* Packets of such orders.  A row that cannot be written ends the packet, so only the
\* last order's may be one.
Orders(Entry) == {o \in Lists(Entry) \ {<<>>} : \A i \in DOMAIN o : o[i].log \/ i = Len(o)}

ShopNext ==
    \/ \E p \in Keeper : (\E sell, buy \in Requests(p) : Len(buy) <= 1 /\ OpenShop(p, sell, buy)) \/ CloseShop(p)
    \/ \E p \in Trader : \/ Relog(p)
                         \/ \E o \in Lists([at : DOMAIN Ware, n : {1}]) \ {<<>>} : BuyFromNpc(p, o)
                         \/ \E o \in Lists([obj : Numbers(stock[p]), n : 1..2]) \ {<<>>} : SellToNpc(p, o)
                         \/ \E x \in stock[p] : EquipWeapon(p, x)
    \/ \E p, s \in Trader :
          \/ Browse(p, s)
          \/ \E o \in Orders([at : DOMAIN shop[s].sell, n : 1..2, log : BOOLEAN]) : ExecuteBuy(p, s, o)
          \/ \E x \in stock[p] : HandOver(p, s, x)
          \/ \E o \in Orders([obj : Numbers(stock[p]), at : DOMAIN shop[s].buy, n : 1..2, log : BOOLEAN]) :
                ExecuteSell(p, s, o)

ShopSpec == ShopInit /\ [][ShopNext]_shopVars
-----------------------------------------------------------------------------
(* Properties *)

ShopTypeOK ==
    /\ stock \in [Trader -> SUBSET Thing]
    /\ worn \in [Trader -> SUBSET Nat]
    /\ glanced \in [Trader -> 0..MaxList]
    /\ {visits, taxes} \subseteq Nat /\ burst \in BOOLEAN

\* ExecuteBuy, ExecuteSell (private_shop.go:64-256): no entry sells or buys more than
\* was listed, and the owner's purse gained what his entries say was sold at their
\* prices, less what was bought, whatever orders a packet mixed, which of them failed,
\* and what became of the goods in the meantime.
TakingsAgree ==
    \A s \in Trader :
        /\ \A i \in DOMAIN shop[s].sell : shop[s].sell[i].done \in 0..shop[s].sell[i].total
        /\ \A i \in DOMAIN shop[s].buy : shop[s].buy[i].done \in 0..shop[s].buy[i].total
        /\ ~burst /\ ~shop[s].self =>
              shop[s].taken = shop[s].cleared + Brought(shop[s].sell) - Brought(shop[s].buy)

\* TransferItem, TransferGold (private_shop.go:294-355): between players goods only move;
\* no object is in two inventories, and no number is given twice.
ObjectsAreUnique ==
    \A p, q \in Trader : \A x \in stock[p], y \in stock[q] : x.obj = y.obj => p = q /\ x = y
Conserved ==
    stock' # stock /\ visits' = visits /\ ~burst' => \A g \in Kind : Supply(g)' = Supply(g)

\* BuyFromNpc (shop.go:92-185): castles get no more than the customer loses, which is
\* more than the price of what he gets.
TaxFits == taxes' > taxes => taxes' - taxes < Supply(Gold) - Supply(Gold)'

\* What shops sell, what they are paid and whose the goods are.
ShopsAgree == ShopTypeOK /\ TakingsAgree /\ ObjectsAreUnique
PurchasesBalance == [][Conserved /\ TaxFits]_shopVars

\* BuyFromNpc (shop.go:186): what is paid for is delivered.
PaidIsDelivered ==
    [][visits' > visits /\ Supply(Gold)' < Supply(Gold)
       => Supply(Gold) - Supply(Gold)' <= Payment(SumFunction([i \in DOMAIN Ware |->
              Ware[i].price * ((Supply(Ware[i].good)' - Supply(Ware[i].good)) \div Ware[i].pack)]))]_shopVars

\* privateshop.go:151 "已裝備物品不可交易" (what is equipped cannot be traded): what a
\* player wears is his.
WornIsHeld == \A p \in Trader : worn[p] \subseteq Numbers(stock[p])
=============================================================================
