------------------------------- MODULE Trade -------------------------------
(***************************************************************************)
(* The player-to-player trade protocol of the game loop: TradeSystem       *)
(* (internal/system/trade.go), the client packets that drive it            *)
(* (internal/handler/trade.go, attr.go), the two ways of leaving the world *)
(* (InputSystem.handleDisconnect, HandleChangeChar), and the inventory     *)
(* operations other systems interleave with an open trade: drop, pick up,  *)
(* destroy, wield.                                                         *)
(*                                                                         *)
(* The game loop is one goroutine and runs a packet handler to its end, so *)
(* a handler is one action.  A non-stackable object is an element of Item; *)
(* a stackable template is an element of Stack and a player holds a count  *)
(* of it, the inventory slot existing exactly while the count is positive. *)
(* Distance, facing and death only restrict when a request or a pick-up is *)
(* accepted; they are left to the choice of the action.                    *)
(***************************************************************************)
EXTENDS Naturals, FiniteSetsExt

CONSTANTS
    Player,         \* characters (CharID)
    NoPlayer,       \* CharID 0
    Item,           \* non-stackable objects (ObjectID)
    NoItem,         \* an empty weapon slot
    Stack,          \* stackable item templates (ItemID)
    Adena,          \* world.AdenaItemID, the template that is money
    Untradeable,    \* objects and templates with "tradeable: false"
    MaxTradeItems,  \* 16 in AddItem
    StartGold,      \* 20000 in loadInventoryFromDB
    MaxMoney,       \* bound: adena in the world once StartGold is handed out
    MaxCount        \* bound: counts in the initial state and in requests

ASSUME TradeAssumption ==
    /\ NoPlayer \notin Player
    /\ NoItem \notin Item
    /\ Adena \in Stack
    /\ Item \cap Stack = {}
    /\ {MaxTradeItems, StartGold, MaxMoney} \subseteq Nat
    /\ MaxCount \in Nat

VARIABLES
    online,     \* players in world.State.byCharID
    inv,        \* inv[p]: the non-stackable objects in p's inventory
    weapon,     \* weapon[p]: the object p wields (InvItem.Equipped), or NoItem
    bag,        \* bag[p][s]: count of stack s in p's inventory
    ground,     \* objects lying on the ground
    groundBag,  \* groundBag[s]: count of stack s lying on the ground
    partner,    \* PlayerInfo.TradePartnerID
    open,       \* PlayerInfo.TradeWindowOpen
    ok,         \* PlayerInfo.TradeOk
    offer,      \* TradeItems (objects, stacks, entries used) and TradeGold
    dialogs     \* dialogs[p]: players whose request p's client still shows

invVars == <<inv, weapon, bag>>
groundVars == <<ground, groundBag>>
tradeVars == <<partner, open, ok, offer>>
vars == <<online, invVars, groundVars, tradeVars, dialogs>>

-----------------------------------------------------------------------------
Least(m, n) == IF m <= n THEN m ELSE n

NoStacks == [s \in Stack |-> 0]
NoOffer == [items |-> {}, bag |-> NoStacks, gold |-> 0, slots |-> 0]

Offers == [items : SUBSET Item, bag : [Stack -> Nat], gold : Nat, slots : Nat]

\* An entry appended to TradeItems, and the gold put in the window.
WithItem(o, i) == [o EXCEPT !.items = @ \cup {i}, !.slots = @ + 1]
WithStack(o, s, n) == [o EXCEPT !.bag = [o.bag EXCEPT ![s] = @ + n], !.slots = @ + 1]
WithGold(o, n) == [o EXCEPT !.gold = n]

\* What p has put into the window of stack s: entries of it and, for adena, TradeGold.
Offered(p, s) == offer[p].bag[s] + (IF s = Adena THEN offer[p].gold ELSE 0)

\* Fault: the partner is forgotten when a trade is closed.
EngagedAlone(p) == {p}
\* World.GetByCharID of the player's partner: found only while in the world.
Engaged(p) == {p} \cup ({partner[p]} \cap online)

\* "partner != nil && partner.TradePartnerID == player.CharID"
PartnerWaits(p) == partner[p] \in online /\ partner[partner[p]] = p

-----------------------------------------------------------------------------
\* clearTradeState for every player of S.
ClearTradeState(S) ==
    /\ partner' = [p \in Player |-> IF p \in S THEN NoPlayer ELSE partner[p]]
    /\ open' = [p \in Player |-> IF p \in S THEN FALSE ELSE open[p]]
    /\ ok' = [p \in Player |-> IF p \in S THEN FALSE ELSE ok[p]]
    /\ offer' = [p \in Player |-> IF p \in S THEN NoOffer ELSE offer[p]]

\* Fault: stacks and gold are not restored.
RestoreItemsOnly(S) ==
    /\ inv' = [p \in Player |-> IF p \in S THEN inv[p] \cup offer[p].items
                                            ELSE inv[p]]
    /\ UNCHANGED <<bag, weapon>>

\* restoreTradeItems: the offer goes back to the inventory it was taken from.
RestoreTradeItems(S) ==
    /\ inv' = [p \in Player |-> IF p \in S THEN inv[p] \cup offer[p].items
                                            ELSE inv[p]]
    /\ bag' = [p \in Player |-> IF p \in S
                                THEN [s \in Stack |-> bag[p][s] + Offered(p, s)]
                                ELSE bag[p]]
    /\ UNCHANGED weapon

CancelTrade(S) == RestoreTradeItems(S) /\ ClearTradeState(S)

\* addTradeItemToPlayer and addGoldToPlayer, both ways.
ReceiveOffers(p, q) ==
    /\ inv' = [inv EXCEPT ![p] = @ \cup offer[q].items,
                          ![q] = @ \cup offer[p].items]
    /\ bag' = [bag EXCEPT ![p] = [s \in Stack |-> bag[p][s] + Offered(q, s)],
                          ![q] = [s \in Stack |-> bag[q][s] + Offered(p, s)]]
    /\ UNCHANGED weapon

\* Fault: the trade state survives the execution.
DeliverAndStayOpen(p, q) == ReceiveOffers(p, q) /\ UNCHANGED tradeVars

\* executeTrade once the WAL is written: each side receives the other's offer.
DeliverOffers(p, q) == ReceiveOffers(p, q) /\ ClearTradeState({p, q})

\* executeTrade: a failed WriteWAL cancels; with nothing offered no WAL is written.
ExecuteTrade(p, q) ==
    \/ DeliverOffers(p, q)
    \/ /\ offer[p] # NoOffer \/ offer[q] # NoOffer
       /\ CancelTrade({p, q})

-----------------------------------------------------------------------------
(* Packet handlers of the trade protocol *)

\* C_ASK_XCHG: p asks q, whom it faces.  Both are paired at once; q's client
\* shows dialog 252.
InitiateTrade(p, q) ==
    /\ {p, q} \subseteq online /\ p # q
    /\ partner[p] = NoPlayer
    /\ partner[q] = NoPlayer
    /\ partner' = [partner EXCEPT ![p] = q, ![q] = p]
    /\ open' = [open EXCEPT ![p] = FALSE, ![q] = FALSE]
    /\ ok' = [ok EXCEPT ![p] = FALSE, ![q] = FALSE]
    /\ offer' = [offer EXCEPT ![p] = NoOffer, ![q] = NoOffer]
    /\ dialogs' = [dialogs EXCEPT ![q] = @ \cup {p}]
    /\ UNCHANGED <<online, invVars, groundVars>>

\* C_ATTR 252: p answers the dialog that a's request opened on its client.  The
\* handler looks up the partner p has now, whoever asked.
HandleYesNo(p, a, accepted) ==
    /\ p \in online /\ a \in dialogs[p]
    /\ dialogs' = [dialogs EXCEPT ![p] = @ \ {a}]
    /\ \/ /\ ~accepted
          /\ ClearTradeState(Engaged(p))
       \/ /\ accepted /\ ~PartnerWaits(p)
          /\ ClearTradeState({p})
       \/ /\ accepted /\ PartnerWaits(p)
          /\ open' = [open EXCEPT ![p] = TRUE, ![partner[p]] = TRUE]
          /\ UNCHANGED <<partner, ok, offer>>
    /\ UNCHANGED <<online, invVars, groundVars>>

\* The window of p is open: AddItem and Accept act only then.
InWindow(p) == p \in online /\ partner[p] # NoPlayer /\ open[p]

\* Fault: the partner's confirmation survives a change of the offer.
ResetOwnOk(p) == ok' = [ok EXCEPT ![p] = FALSE]
\* Any change of the offer withdraws both confirmations, before the checks that
\* may still refuse the change.
ResetOk(p) == ok' = [ok EXCEPT ![p] = FALSE, ![partner[p]] = FALSE]

\* Fault: the Equipped check is missing.
RefusesUnlessEquipped(p, x) == x \in Untradeable \/ offer[p].slots >= MaxTradeItems
\* AddItem refuses what is wielded or not tradeable, and a seventeenth entry.
Refuses(p, x) ==
    x = weapon[p] \/ x \in Untradeable \/ offer[p].slots >= MaxTradeItems

\* C_ADD_XCHG with a non-stackable object, which p may not have.
AddItem(p, i) ==
    /\ InWindow(p) /\ partner[p] \in online
    /\ ResetOk(p)
    /\ \/ /\ i \in inv[p] /\ ~Refuses(p, i)
          /\ offer' = [offer EXCEPT ![p] = WithItem(@, i)]
          /\ inv' = [inv EXCEPT ![p] = @ \ {i}]
       \/ /\ i \notin inv[p] \/ Refuses(p, i)
          /\ UNCHANGED <<offer, inv>>
    /\ UNCHANGED <<online, weapon, bag, groundVars, partner, open, dialogs>>

\* The part of a slot a request for n takes: all of it when n is 0 or too many.
CountOf(p, s, n) == IF n = 0 THEN bag[p][s] ELSE Least(n, bag[p][s])

\* C_ADD_XCHG with the slot of a stack.
AddStack(p, s, n) ==
    /\ InWindow(p) /\ partner[p] \in online
    /\ bag[p][s] > 0
    /\ ResetOk(p)
    /\ \/ /\ ~Refuses(p, s)
          /\ offer' = [offer EXCEPT ![p] = WithStack(@, s, CountOf(p, s, n))]
          /\ bag' = [bag EXCEPT ![p][s] = @ - CountOf(p, s, n)]
       \/ /\ Refuses(p, s)
          /\ UNCHANGED <<offer, bag>>
    /\ UNCHANGED <<online, inv, weapon, groundVars, partner, open, dialogs>>

\* The adena count once an earlier offer of gold is returned: it returns to the
\* slot only if there still is one.
GoldBack(p) == IF bag[p][Adena] > 0 THEN bag[p][Adena] + offer[p].gold ELSE 0
\* Fault: the gold asked for is not cut to what is there.
GoldUnclamped(p, n) == n
GoldTaken(p, n) == Least(n, GoldBack(p))

\* C_ADD_XCHG with object 0: set the gold offered.
AddGoldToTrade(p, n) ==
    /\ InWindow(p) /\ partner[p] \in online
    /\ ResetOk(p)
    /\ \/ /\ n = 0
          /\ UNCHANGED <<offer, bag>>
       \/ /\ n > 0
          /\ offer' = [offer EXCEPT ![p] = WithGold(@, GoldTaken(p, n))]
          /\ bag' = [bag EXCEPT ![p][Adena] = GoldBack(p) - GoldTaken(p, n)]
    /\ UNCHANGED <<online, inv, weapon, groundVars, partner, open, dialogs>>

\* Fault: one confirmation is enough.
AcceptAtOnce(p) ==
    /\ InWindow(p) /\ partner[p] \in online
    /\ ExecuteTrade(p, partner[p])
    /\ UNCHANGED <<online, groundVars, dialogs>>

\* C_ACCEPT_XCHG: the second confirmation executes the trade.
Accept(p) ==
    /\ InWindow(p) /\ partner[p] \in online
    /\ \/ /\ ~ok[partner[p]]
          /\ ok' = [ok EXCEPT ![p] = TRUE]
          /\ UNCHANGED <<invVars, partner, open, offer>>
       \/ /\ ok[partner[p]]
          /\ ExecuteTrade(p, partner[p])
    /\ UNCHANGED <<online, groundVars, dialogs>>

\* C_CANCEL_XCHG, and cancelTradeIfActive from movement, teleport, portal, ship,
\* shop and NPC handlers.
Cancel(p) ==
    /\ p \in online
    /\ partner[p] # NoPlayer
    /\ CancelTrade(Engaged(p))
    /\ UNCHANGED <<online, groundVars, dialogs>>

-----------------------------------------------------------------------------
(* Leaving and entering the world *)

\* handleDisconnect: the connection is gone; the partner and the leaver get
\* their offers back and the inventory is saved.
HandleDisconnect(p) ==
    /\ p \in online
    /\ online' = online \ {p}
    /\ CancelTrade(IF partner[p] = NoPlayer THEN {} ELSE Engaged(p))
    /\ dialogs' = [dialogs EXCEPT ![p] = {}]
    /\ UNCHANGED groundVars

\* C_CHANGE_CHAR: RemovePlayer first, then cancelTradeIfActive.
HandleChangeChar(p) ==
    /\ p \in online
    /\ online' = online \ {p}
    /\ CancelTrade(IF partner[p] = NoPlayer THEN {}
                   ELSE {p} \cup ({partner[p]} \cap online'))
    /\ dialogs' = [dialogs EXCEPT ![p] = {}]
    /\ UNCHANGED groundVars

\* Only the bound MaxMoney looks at this.
AdenaInWorld ==
    groundBag[Adena] + MapThenSumSet(LAMBDA q : bag[q][Adena] + Offered(q, Adena), Player)

OwnsNothing(p) == inv[p] = {} /\ bag[p] = NoStacks

\* enterworld: a new PlayerInfo around the saved inventory, no trade in progress.
\* Who comes back with nothing is given the starting gold.
EnterWorld(p) ==
    /\ p \notin online
    /\ online' = online \cup {p}
    /\ ClearTradeState({p})
    /\ \/ /\ ~OwnsNothing(p)
          /\ UNCHANGED bag
       \/ /\ OwnsNothing(p) /\ AdenaInWorld + StartGold <= MaxMoney
          /\ bag' = [bag EXCEPT ![p][Adena] = StartGold]
    /\ UNCHANGED <<inv, weapon, groundVars, dialogs>>

-----------------------------------------------------------------------------
(* What the other systems do to an inventory meanwhile *)

\* EquipWeapon: wield i, or put it away when it is the one wielded.
EquipWeapon(p, i) ==
    /\ p \in online /\ i \in inv[p]
    /\ weapon' = [weapon EXCEPT ![p] = IF @ = i THEN NoItem ELSE i]
    /\ UNCHANGED <<online, inv, bag, groundVars, tradeVars, dialogs>>

\* Fault: the dropped object is cloned but not removed.
DropItemKeepingIt(p, i) ==
    /\ p \in online /\ i \in inv[p] /\ i # weapon[p]
    /\ ground' = ground \cup {i}
    /\ UNCHANGED <<online, inv, weapon, bag, groundBag, tradeVars, dialogs>>
DropItem(p, i) ==
    /\ p \in online /\ i \in inv[p] /\ i # weapon[p]
    /\ inv' = [inv EXCEPT ![p] = @ \ {i}]
    /\ ground' = ground \cup {i}
    /\ UNCHANGED <<online, weapon, bag, groundBag, tradeVars, dialogs>>

DropStack(p, s, n) ==
    /\ p \in online /\ bag[p][s] > 0
    /\ bag' = [bag EXCEPT ![p][s] = @ - CountOf(p, s, n)]
    /\ groundBag' = [groundBag EXCEPT ![s] = @ + CountOf(p, s, n)]
    /\ UNCHANGED <<online, inv, weapon, ground, tradeVars, dialogs>>

DestroyItem(p, i) ==
    /\ p \in online /\ i \in inv[p] /\ i # weapon[p]
    /\ inv' = [inv EXCEPT ![p] = @ \ {i}]
    /\ UNCHANGED <<online, weapon, bag, groundVars, tradeVars, dialogs>>

DestroyStack(p, s, n) ==
    /\ p \in online /\ bag[p][s] > 0
    /\ bag' = [bag EXCEPT ![p][s] = @ - CountOf(p, s, n)]
    /\ UNCHANGED <<online, inv, weapon, groundVars, tradeVars, dialogs>>

PickupItem(p, i) ==
    /\ p \in online /\ i \in ground
    /\ ground' = ground \ {i}
    /\ inv' = [inv EXCEPT ![p] = @ \cup {i}]
    /\ UNCHANGED <<online, weapon, bag, groundBag, tradeVars, dialogs>>

\* A pile of n is picked up whole; how the count on the ground is split into
\* piles is left to the choice of n.
PickupStack(p, s, n) ==
    /\ p \in online /\ n \in 1..groundBag[s]
    /\ groundBag' = [groundBag EXCEPT ![s] = @ - n]
    /\ bag' = [bag EXCEPT ![p][s] = @ + n]
    /\ UNCHANGED <<online, inv, weapon, ground, tradeVars, dialogs>>

\* GroundItemSystem: an object's five minutes are over.
TickGroundItems(i) ==
    /\ i \in ground
    /\ ground' = ground \ {i}
    /\ UNCHANGED <<online, invVars, groundBag, tradeVars, dialogs>>

TickGroundStack(s, n) ==
    /\ n \in 1..groundBag[s]
    /\ groundBag' = [groundBag EXCEPT ![s] = @ - n]
    /\ UNCHANGED <<online, invVars, ground, tradeVars, dialogs>>

-----------------------------------------------------------------------------
Init ==
    /\ online \in SUBSET Player
    /\ inv \in [Player -> SUBSET Item]
    /\ \A p, q \in Player : p # q => inv[p] \cap inv[q] = {}
    /\ weapon = [p \in Player |-> NoItem]
    /\ bag \in [Player -> [Stack -> 0..MaxCount]]
    /\ ground = {}
    /\ groundBag = NoStacks
    /\ partner = [p \in Player |-> NoPlayer]
    /\ open = [p \in Player |-> FALSE]
    /\ ok = [p \in Player |-> FALSE]
    /\ offer = [p \in Player |-> NoOffer]
    /\ dialogs = [p \in Player |-> {}]

TradeStep(p) ==
    \/ \E q \in Player : InitiateTrade(p, q)
    \/ \E a \in Player, accepted \in BOOLEAN : HandleYesNo(p, a, accepted)
    \/ \E i \in Item : AddItem(p, i)
    \/ \E s \in Stack, n \in 0..MaxCount : AddStack(p, s, n)
    \/ \E n \in 0..MaxCount : AddGoldToTrade(p, n)
    \/ Accept(p)
    \/ Cancel(p)

WorldStep(p) ==
    \/ HandleDisconnect(p)
    \/ HandleChangeChar(p)
    \/ EnterWorld(p)

InventoryStep(p) ==
    \/ \E i \in Item : \/ EquipWeapon(p, i)
                       \/ DropItem(p, i)
                       \/ DestroyItem(p, i)
                       \/ PickupItem(p, i)
    \/ \E s \in Stack, n \in 0..MaxCount : \/ DropStack(p, s, n)
                                              \/ DestroyStack(p, s, n)
    \/ \E s \in Stack : \E n \in 1..groundBag[s] : PickupStack(p, s, n)

Next ==
    \/ \E p \in Player : TradeStep(p) \/ WorldStep(p) \/ InventoryStep(p)
    \/ \E i \in Item : TickGroundItems(i)
    \/ \E s \in Stack : \E n \in 1..groundBag[s] : TickGroundStack(s, n)

Spec == Init /\ [][Next]_vars
-----------------------------------------------------------------------------
(* Properties *)

\* The values the PlayerInfo fields take.
TypeOK ==
    /\ online \subseteq Player
    /\ inv \in [Player -> SUBSET Item]
    /\ weapon \in [Player -> Item \cup {NoItem}]
    /\ bag \in [Player -> [Stack -> Nat]]
    /\ ground \subseteq Item
    /\ groundBag \in [Stack -> Nat]
    /\ partner \in [Player -> Player \cup {NoPlayer}]
    /\ open \in [Player -> BOOLEAN]
    /\ ok \in [Player -> BOOLEAN]
    /\ offer \in [Player -> Offers]
    /\ dialogs \in [Player -> SUBSET Player]

\* Trade state is set and cleared on two players by a dozen code paths; it is
\* always mutual: a partner is another player in the world who names this one,
\* the windows of the two are open or shut together, and nothing is offered or
\* confirmed outside an open window.
PairedTrades ==
    \A p \in Player :
        /\ partner[p] # NoPlayer =>
              /\ p \in online /\ partner[p] \in online \ {p}
              /\ partner[partner[p]] = p
              /\ open[partner[p]] = open[p]
        /\ partner[p] = NoPlayer => ~open[p]
        /\ ~open[p] => ~ok[p] /\ offer[p] = NoOffer

\* Everything p owns, the offer included: offers are taken out of the inventory.
Held(p) == inv[p] \cup offer[p].items
Wealth(p, s) == bag[p][s] + Offered(p, s)

\* No object is in two inventories, windows or on the ground at once, whatever
\* trades, cancellations, drops and disconnections it went through.
OneOwner ==
    \A p \in Player :
        /\ inv[p] \cap offer[p].items = {}
        /\ Held(p) \cap ground = {}
        /\ \A q \in Player \ {p} : Held(p) \cap Held(q) = {}

\* EquipWeapon's Equipped flag is on an object of the wielder's inventory: no
\* trade, drop or destruction takes a wielded weapon away.
WieldedIsHeld == \A p \in Player : weapon[p] # NoItem => weapon[p] \in inv[p]

\* While a player's confirmation stands, neither offer changes: nobody confirms
\* one deal and is given another.
NoBaitAndSwitch ==
    [][\A p \in Player : ok[p] /\ ok'[p] =>
          /\ partner'[p] = partner[p]
          /\ offer'[p] = offer[p]
          /\ offer'[partner[p]] = offer[partner[p]]]_vars

\* Goods pass from p to q in this step.
Passes(p, q) ==
    \/ Held(p) \cap Held(q)' # {}
    \/ \E s \in Stack : Wealth(p, s)' < Wealth(p, s) /\ Wealth(q, s)' > Wealth(q, s)

\* Goods pass directly between two players only by a trade the other side has
\* already confirmed, and then both get exactly what was offered, no more.
ExchangeIsAsOffered ==
    [][\A p \in Player : \A q \in Player \ {p} : Passes(p, q) =>
          /\ partner[p] = q /\ open[p] /\ (ok[p] \/ ok[q])
          /\ inv'[q] = inv[q] \cup offer[p].items
          /\ inv'[p] = inv[p] \cup offer[q].items
          /\ \A s \in Stack : /\ bag'[q][s] = bag[q][s] + Offered(p, s)
                              /\ bag'[p][s] = bag[p][s] + Offered(q, s)
          /\ offer'[p] = NoOffer /\ offer'[q] = NoOffer]_vars

\* A trade that ends by execution, cancellation, a failed WAL or either side's
\* leaving loses nothing and makes nothing: the two own what they owned.
ClosingConserves ==
    [][\A p, q \in Player :
          /\ partner[p] = q /\ partner'[p] = NoPlayer
          /\ \A r \in online' : dialogs'[r] = dialogs[r]
          => /\ Held(p)' \cup Held(q)' = Held(p) \cup Held(q)
             /\ \A s \in Stack :
                   Wealth(p, s)' + Wealth(q, s)' = Wealth(p, s) + Wealth(q, s)]_vars

\* The economy the trade protocol implements.
Goods == INSTANCE Holdings
    WITH Nobody <- NoPlayer,
         holds <- [a \in Player \cup {NoPlayer} |->
                      IF a = NoPlayer THEN ground ELSE Held(a)],
         wealth <- [a \in Player \cup {NoPlayer} |->
                      IF a = NoPlayer THEN groundBag
                      ELSE [s \in Stack |-> Wealth(a, s)]]

\* Every step is a transfer between two holders, a loss or a first grant: no
\* order of requests, answers, offers, drops and logouts mints or copies goods.
ImplementsHoldings == Goods!Spec

\* "First return the earlier gold (if the amount is modified)": changing the gold
\* offered leaves the player as rich as before.  The code does so only while an
\* adena slot is left in the inventory.
GoldChangeKeepsWealth ==
    [][\A p \in Player :
          partner'[p] = partner[p] /\ offer'[p].gold # offer[p].gold
          => Wealth(p, Adena)' = Wealth(p, Adena)]_vars
=============================================================================
