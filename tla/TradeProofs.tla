---------------------------- MODULE TradeProofs ----------------------------
(***************************************************************************)
(* Proofs about goods in the hands of players: the trade protocol, for any *)
(* players, objects and stacks, first the protocol itself, then what it    *)
(* does to the economy; and the sheet of a character, for any pieces,      *)
(* places, forms and bonuses.                                              *)
(***************************************************************************)
EXTENDS Trade, Sheet, Sums

USE TradeAssumption

LEMMA NoOfferType == NoOffer \in Offers
BY DEF NoOffer, Offers, NoStacks

LEMMA OfferFields ==
    ASSUME NEW o \in Offers
    PROVE  /\ o.items \in SUBSET Item
           /\ o.bag \in [Stack -> Nat]
           /\ o.gold \in Nat
           /\ o.slots \in Nat
BY DEF Offers

LEMMA WithItemType ==
    ASSUME NEW o \in Offers, NEW i \in Item
    PROVE  WithItem(o, i) \in Offers
<1>1. \A S \in SUBSET Item, n \in Nat : [o EXCEPT !.items = S, !.slots = n] \in Offers
    BY DEF Offers
<1>2. o.items \cup {i} \in SUBSET Item /\ o.slots + 1 \in Nat
    BY OfferFields
<1>. QED
    BY <1>1, <1>2 DEF WithItem

LEMMA WithStackType ==
    ASSUME NEW o \in Offers, NEW s \in Stack, NEW n \in Nat
    PROVE  WithStack(o, s, n) \in Offers
<1>1. \A b \in [Stack -> Nat], k \in Nat : [o EXCEPT !.bag = b, !.slots = k] \in Offers
    BY DEF Offers
<1>2. [o.bag EXCEPT ![s] = @ + n] \in [Stack -> Nat] /\ o.slots + 1 \in Nat
    BY OfferFields
<1>. QED
    BY <1>1, <1>2 DEF WithStack

LEMMA WithGoldType ==
    ASSUME NEW o \in Offers, NEW n \in Nat
    PROVE  WithGold(o, n) \in Offers
BY DEF WithGold, Offers

LEMMA OfferedType ==
    ASSUME TypeOK, NEW p \in Player, NEW s \in Stack
    PROVE  Offered(p, s) \in Nat
<1>1. offer[p] \in Offers
    BY DEF TypeOK
<1>2. offer[p].bag \in [Stack -> Nat] /\ offer[p].gold \in Nat
    BY <1>1 DEF Offers
<1>. QED
    BY <1>2 DEF Offered

LEMMA CountOfType ==
    ASSUME TypeOK, NEW p \in Player, NEW s \in Stack, NEW n \in Nat
    PROVE  CountOf(p, s, n) \in 0..bag[p][s]
<1>1. bag[p][s] \in Nat
    BY DEF TypeOK
<1>. QED
    BY <1>1 DEF CountOf, Least

LEMMA GoldType ==
    ASSUME TypeOK, NEW p \in Player, NEW n \in Nat
    PROVE  GoldBack(p) \in Nat /\ GoldTaken(p, n) \in 0..GoldBack(p)
<1>1. bag[p][Adena] \in Nat /\ offer[p] \in Offers
    BY DEF TypeOK
<1>2. offer[p].gold \in Nat
    BY <1>1 DEF Offers
<1>3. GoldBack(p) \in Nat
    BY <1>1, <1>2 DEF GoldBack
<1>. QED
    BY <1>3 DEF GoldTaken, Least

\* Writing one count of one inventory.
LEMMA BagSet ==
    ASSUME TypeOK, NEW p \in Player, NEW s \in Stack, NEW n \in Nat
    PROVE  [bag EXCEPT ![p][s] = n] \in [Player -> [Stack -> Nat]]
<1>1. [bag[p] EXCEPT ![s] = n] \in [Stack -> Nat]
    BY DEF TypeOK
<1>. QED
    BY <1>1 DEF TypeOK

LEMMA BagTaken ==
    ASSUME TypeOK, NEW p \in Player, NEW s \in Stack, NEW n \in 0..bag[p][s]
    PROVE  [bag EXCEPT ![p][s] = @ - n] \in [Player -> [Stack -> Nat]]
<1>1. bag[p][s] - n \in Nat
    BY DEF TypeOK
<1>. QED
    BY <1>1, BagSet

\* Closing a trade leaves well-typed trade fields, whoever it closes it for.
LEMMA ClearType ==
    ASSUME TypeOK, NEW S, ClearTradeState(S)
    PROVE  /\ partner' \in [Player -> Player \cup {NoPlayer}]
           /\ open' \in [Player -> BOOLEAN]
           /\ ok' \in [Player -> BOOLEAN]
           /\ offer' \in [Player -> Offers]
BY NoOfferType DEF TypeOK, ClearTradeState

LEMMA RestoreType ==
    ASSUME TypeOK, NEW S, RestoreTradeItems(S)
    PROVE  /\ inv' \in [Player -> SUBSET Item]
           /\ bag' \in [Player -> [Stack -> Nat]]
           /\ weapon' \in [Player -> Item \cup {NoItem}]
<1>1. \A p \in Player : offer[p].items \in SUBSET Item
    BY DEF TypeOK, Offers
<1>2. inv' \in [Player -> SUBSET Item]
    BY <1>1 DEF TypeOK, RestoreTradeItems
<1>3. \A p \in Player, s \in Stack : bag[p][s] + Offered(p, s) \in Nat
    BY OfferedType DEF TypeOK
<1>4. bag' \in [Player -> [Stack -> Nat]]
    BY <1>3 DEF TypeOK, RestoreTradeItems
<1>. QED
    BY <1>2, <1>4 DEF TypeOK, RestoreTradeItems

LEMMA DeliverType ==
    ASSUME TypeOK, NEW p \in Player, NEW q \in Player, ReceiveOffers(p, q)
    PROVE  /\ inv' \in [Player -> SUBSET Item]
           /\ bag' \in [Player -> [Stack -> Nat]]
           /\ weapon' \in [Player -> Item \cup {NoItem}]
<1>1. offer[p].items \in SUBSET Item /\ offer[q].items \in SUBSET Item
    BY DEF TypeOK, Offers
<1>2. inv' \in [Player -> SUBSET Item]
    BY <1>1 DEF TypeOK, ReceiveOffers
<1>3. \A s \in Stack : bag[p][s] + Offered(q, s) \in Nat /\ bag[q][s] + Offered(p, s) \in Nat
    BY OfferedType DEF TypeOK
<1>4. bag' \in [Player -> [Stack -> Nat]]
    BY <1>3 DEF TypeOK, ReceiveOffers
<1>. QED
    BY <1>2, <1>4 DEF TypeOK, ReceiveOffers

-----------------------------------------------------------------------------
(* Type correctness: the trade fields, inventories and counts keep their     *)
(* types under every handler.                                                *)

LEMMA TradeStepType ==
    ASSUME TypeOK, NEW p \in Player, TradeStep(p)
    PROVE  TypeOK'
<1>1. CASE \E q \in Player : InitiateTrade(p, q)
    <2>1. PICK q \in Player : InitiateTrade(p, q)
        BY <1>1
    <2>. QED
        BY <2>1, NoOfferType DEF InitiateTrade, TypeOK, invVars, groundVars
<1>2. CASE \E a \in Player, accepted \in BOOLEAN : HandleYesNo(p, a, accepted)
    <2>1. PICK a \in Player, accepted \in BOOLEAN : HandleYesNo(p, a, accepted)
        BY <1>2
    <2>2. /\ partner' \in [Player -> Player \cup {NoPlayer}]
          /\ open' \in [Player -> BOOLEAN]
          /\ ok' \in [Player -> BOOLEAN]
          /\ offer' \in [Player -> Offers]
        BY <2>1, ClearType DEF HandleYesNo, TypeOK
    <2>. QED
        BY <2>1, <2>2 DEF HandleYesNo, TypeOK, invVars, groundVars
<1>3. CASE \E i \in Item : AddItem(p, i)
    <2>1. PICK i \in Item : AddItem(p, i)
        BY <1>3
    <2>2. offer' \in [Player -> Offers]
        <3>1. WithItem(offer[p], i) \in Offers
            BY WithItemType DEF TypeOK
        <3>. QED
            BY <2>1, <3>1 DEF AddItem, TypeOK
    <2>3. inv' \in [Player -> SUBSET Item]
        <3>1. inv' = inv \/ inv' = [inv EXCEPT ![p] = @ \ {i}]
            BY <2>1 DEF AddItem
        <3>. QED
            BY <3>1 DEF TypeOK
    <2>4. ok' \in [Player -> BOOLEAN]
        BY <2>1 DEF AddItem, ResetOk, TypeOK
    <2>. QED
        BY <2>1, <2>2, <2>3, <2>4 DEF AddItem, TypeOK, groundVars
<1>4. CASE \E s \in Stack, n \in 0..MaxCount : AddStack(p, s, n)
    <2>1. PICK s \in Stack, n \in 0..MaxCount : AddStack(p, s, n)
        BY <1>4
    <2>2. CountOf(p, s, n) \in 0..bag[p][s]
        BY CountOfType
    <2>3. offer' \in [Player -> Offers]
        <3>1. WithStack(offer[p], s, CountOf(p, s, n)) \in Offers
            BY <2>2, WithStackType DEF TypeOK
        <3>. QED
            BY <2>1, <3>1 DEF AddStack, TypeOK
    <2>4. bag' \in [Player -> [Stack -> Nat]]
        <3>1. [bag EXCEPT ![p][s] = @ - CountOf(p, s, n)] \in [Player -> [Stack -> Nat]]
            BY <2>2, BagTaken
        <3>2. bag' = bag \/ bag' = [bag EXCEPT ![p][s] = @ - CountOf(p, s, n)]
            BY <2>1 DEF AddStack
        <3>. QED
            BY <3>1, <3>2 DEF TypeOK
    <2>. QED
        BY <2>1, <2>3, <2>4 DEF AddStack, ResetOk, TypeOK, groundVars
<1>5. CASE \E n \in 0..MaxCount : AddGoldToTrade(p, n)
    <2>1. PICK n \in 0..MaxCount : AddGoldToTrade(p, n)
        BY <1>5
    <2>2. GoldBack(p) \in Nat /\ GoldTaken(p, n) \in 0..GoldBack(p)
        BY GoldType
    <2>3. offer' \in [Player -> Offers]
        <3>1. WithGold(offer[p], GoldTaken(p, n)) \in Offers
            BY <2>2, WithGoldType DEF TypeOK
        <3>. QED
            BY <2>1, <3>1 DEF AddGoldToTrade, TypeOK
    <2>4. GoldBack(p) - GoldTaken(p, n) \in Nat
        BY <2>2
    <2>5. bag' \in [Player -> [Stack -> Nat]]
        <3>1. [bag EXCEPT ![p][Adena] = GoldBack(p) - GoldTaken(p, n)]
                 \in [Player -> [Stack -> Nat]]
            BY <2>4, BagSet, TradeAssumption
        <3>2. \/ bag' = bag
              \/ bag' = [bag EXCEPT ![p][Adena] = GoldBack(p) - GoldTaken(p, n)]
            BY <2>1 DEF AddGoldToTrade
        <3>. QED
            BY <3>1, <3>2 DEF TypeOK
    <2>. QED
        BY <2>1, <2>3, <2>5 DEF AddGoldToTrade, ResetOk, TypeOK, groundVars
<1>6. CASE Accept(p)
    <2>1. CASE ~ok[partner[p]] /\ ok' = [ok EXCEPT ![p] = TRUE]
               /\ UNCHANGED <<invVars, partner, open, offer>>
        BY <1>6, <2>1 DEF Accept, TypeOK, invVars, groundVars
    <2>2. CASE ExecuteTrade(p, partner[p])
        <3>1. partner[p] \in Player
            BY <1>6 DEF Accept, TypeOK
        <3>2. CASE DeliverOffers(p, partner[p])
            BY <1>6, <3>1, <3>2, DeliverType, ClearType
            DEF DeliverOffers, Accept, TypeOK, groundVars
        <3>3. CASE CancelTrade({p, partner[p]})
            BY <1>6, <3>3, RestoreType, ClearType
            DEF CancelTrade, Accept, TypeOK, groundVars
        <3>. QED
            BY <2>2, <3>2, <3>3 DEF ExecuteTrade
    <2>. QED
        BY <1>6, <2>1, <2>2 DEF Accept
<1>7. CASE Cancel(p)
    BY <1>7, RestoreType, ClearType DEF Cancel, CancelTrade, TypeOK, groundVars
<1>. QED
    BY <1>1, <1>2, <1>3, <1>4, <1>5, <1>6, <1>7 DEF TradeStep

LEMMA WorldStepType ==
    ASSUME TypeOK, NEW p \in Player, WorldStep(p)
    PROVE  TypeOK'
<1>1. CASE HandleDisconnect(p)
    BY <1>1, RestoreType, ClearType
    DEF HandleDisconnect, CancelTrade, TypeOK, groundVars
<1>2. CASE HandleChangeChar(p)
    BY <1>2, RestoreType, ClearType
    DEF HandleChangeChar, CancelTrade, TypeOK, groundVars
<1>3. CASE EnterWorld(p)
    <2>1. /\ partner' \in [Player -> Player \cup {NoPlayer}]
          /\ open' \in [Player -> BOOLEAN]
          /\ ok' \in [Player -> BOOLEAN]
          /\ offer' \in [Player -> Offers]
        BY <1>3, ClearType DEF EnterWorld
    <2>2. bag' \in [Player -> [Stack -> Nat]]
        BY <1>3 DEF EnterWorld, TypeOK
    <2>. QED
        BY <1>3, <2>1, <2>2 DEF EnterWorld, TypeOK, groundVars
<1>. QED
    BY <1>1, <1>2, <1>3 DEF WorldStep

LEMMA InventoryStepType ==
    ASSUME TypeOK, NEW p \in Player, InventoryStep(p)
    PROVE  TypeOK'
<1>. USE DEF tradeVars, TypeOK
<1>1. ASSUME NEW i \in Item, EquipWeapon(p, i)
      PROVE  TypeOK'
    BY <1>1 DEF EquipWeapon, groundVars
<1>2. ASSUME NEW i \in Item, DropItem(p, i)
      PROVE  TypeOK'
    BY <1>2 DEF DropItem
<1>3. ASSUME NEW i \in Item, DestroyItem(p, i)
      PROVE  TypeOK'
    BY <1>3 DEF DestroyItem, groundVars
<1>4. ASSUME NEW i \in Item, PickupItem(p, i)
      PROVE  TypeOK'
    BY <1>4 DEF PickupItem
<1>5. ASSUME NEW s \in Stack, NEW n \in 0..MaxCount, DropStack(p, s, n)
      PROVE  TypeOK'
    <2>1. CountOf(p, s, n) \in 0..bag[p][s]
        BY CountOfType
    <2>. QED
        BY <1>5, <2>1 DEF DropStack
<1>6. ASSUME NEW s \in Stack, NEW n \in 0..MaxCount, DestroyStack(p, s, n)
      PROVE  TypeOK'
    <2>1. CountOf(p, s, n) \in 0..bag[p][s]
        BY CountOfType
    <2>. QED
        BY <1>6, <2>1 DEF DestroyStack, groundVars
<1>7. ASSUME NEW s \in Stack, NEW n \in 1..groundBag[s], PickupStack(p, s, n)
      PROVE  TypeOK'
    BY <1>7 DEF PickupStack
<1>. QED
    BY <1>1, <1>2, <1>3, <1>4, <1>5, <1>6, <1>7 DEF InventoryStep

LEMMA StepType == TypeOK /\ [Next]_vars => TypeOK'
<1>. SUFFICES ASSUME TypeOK, [Next]_vars
              PROVE  TypeOK'
    OBVIOUS
<1>1. ASSUME NEW i \in Item, TickGroundItems(i)
      PROVE  TypeOK'
    BY <1>1 DEF TickGroundItems, TypeOK, invVars, tradeVars
<1>2. ASSUME NEW s \in Stack, NEW n \in 1..groundBag[s], TickGroundStack(s, n)
      PROVE  TypeOK'
    BY <1>2 DEF TickGroundStack, TypeOK, invVars, tradeVars
<1>3. CASE UNCHANGED vars
    BY <1>3 DEF vars, TypeOK, invVars, tradeVars, groundVars
<1>. QED
    BY <1>1, <1>2, <1>3, TradeStepType, WorldStepType, InventoryStepType DEF Next

LEMMA InitType == Init => TypeOK
BY NoOfferType DEF Init, TypeOK, NoStacks

\* The type invariant, for every value of the constants.
THEOREM TypeCorrect == Spec => []TypeOK
<1>. QED
    BY InitType, StepType, PTL DEF Spec

-----------------------------------------------------------------------------
(* Trades are mutual.  PairedTrades is inductive once the types are known:   *)
(* every handler that ends a trade clears a set of players that contains,    *)
(* with each player, the partner.                                            *)

\* With pairs in place, the partner GetByCharID looks up is always found.
LEMMA EngagedIsPair ==
    ASSUME TypeOK, PairedTrades, NEW p \in Player, partner[p] # NoPlayer
    PROVE  Engaged(p) = {p, partner[p]} /\ partner[p] \in Player
BY DEF Engaged, PairedTrades, TypeOK

\* Clearing whole pairs, and letting only cleared players leave, keeps pairs.
LEMMA ClearPairs ==
    ASSUME TypeOK, PairedTrades,
           NEW S, ClearTradeState(S),
           \A r \in Player : partner[r] # NoPlayer => (r \in S <=> partner[r] \in S),
           online \subseteq online' \cup S
    PROVE  PairedTrades'
<1>. SUFFICES ASSUME NEW r \in Player
              PROVE  /\ partner'[r] # NoPlayer =>
                            /\ r \in online' /\ partner'[r] \in online' \ {r}
                            /\ partner'[partner'[r]] = r
                            /\ open'[partner'[r]] = open'[r]
                     /\ partner'[r] = NoPlayer => ~open'[r]
                     /\ ~open'[r] => ~ok'[r] /\ offer'[r] = NoOffer
    BY DEF PairedTrades, NoOffer, NoStacks
<1>1. CASE r \in S
    BY <1>1 DEF ClearTradeState
<1>2. CASE r \notin S
    <2>1. /\ partner'[r] = partner[r] /\ open'[r] = open[r]
          /\ ok'[r] = ok[r] /\ offer'[r] = offer[r]
        BY <1>2 DEF ClearTradeState
    <2>2. CASE partner[r] = NoPlayer
        BY <2>1, <2>2 DEF PairedTrades
    <2>3. CASE partner[r] # NoPlayer
        <3>1. partner[r] \in Player /\ partner[r] \notin S
            BY <1>2, <2>3 DEF TypeOK
        <3>2. partner'[partner[r]] = partner[partner[r]] /\ open'[partner[r]] = open[partner[r]]
            BY <3>1 DEF ClearTradeState
        <3>3. r \in online' /\ partner[r] \in online'
            BY <1>2, <2>3, <3>1 DEF PairedTrades
        <3>. QED
            BY <2>1, <2>3, <3>2, <3>3 DEF PairedTrades
    <2>. QED
        BY <2>2, <2>3
<1>. QED
    BY <1>1, <1>2

\* Inside open windows, confirmations and offers change freely.
LEMMA ChangeInWindow ==
    ASSUME TypeOK, PairedTrades,
           UNCHANGED <<online, partner, open>>,
           \A r \in Player : ~open[r] => ~ok'[r] /\ offer'[r] = offer[r]
    PROVE  PairedTrades'
BY DEF PairedTrades, NoOffer, NoStacks

LEMMA SameTrades ==
    ASSUME PairedTrades, UNCHANGED <<online, tradeVars>>
    PROVE  PairedTrades'
BY DEF PairedTrades, tradeVars, NoOffer, NoStacks

LEMMA TradeStepPairs ==
    ASSUME TypeOK, PairedTrades, NEW p \in Player, TradeStep(p)
    PROVE  PairedTrades'
<1>1. ASSUME NEW q \in Player, InitiateTrade(p, q)
      PROVE  PairedTrades'
    <2>. SUFFICES ASSUME NEW r \in Player
                  PROVE  /\ partner'[r] # NoPlayer =>
                                /\ r \in online' /\ partner'[r] \in online' \ {r}
                                /\ partner'[partner'[r]] = r
                                /\ open'[partner'[r]] = open'[r]
                         /\ partner'[r] = NoPlayer => ~open'[r]
                         /\ ~open'[r] => ~ok'[r] /\ offer'[r] = NoOffer
        BY DEF PairedTrades, NoOffer, NoStacks
    <2>1. CASE r \in {p, q}
        <3>1. /\ partner'[p] = q /\ partner'[q] = p
              /\ open'[p] = FALSE /\ open'[q] = FALSE
              /\ ok'[p] = FALSE /\ ok'[q] = FALSE
            BY <1>1 DEF InitiateTrade, TypeOK
        <3>2. offer'[p] = NoOffer /\ offer'[q] = NoOffer
            BY <1>1 DEF InitiateTrade, TypeOK
        <3>3. {p, q} \subseteq online' /\ p # q
            BY <1>1 DEF InitiateTrade
        <3>. QED
            BY <2>1, <3>1, <3>2, <3>3
    <2>2. CASE r \notin {p, q}
        <3>1. partner[r] \notin {p, q}
            BY <1>1, <2>2 DEF InitiateTrade, PairedTrades, TypeOK
        <3>. QED
            BY <1>1, <2>2, <3>1 DEF InitiateTrade, PairedTrades, TypeOK
    <2>. QED
        BY <2>1, <2>2
<1>2. ASSUME NEW a \in Player, NEW accepted \in BOOLEAN, HandleYesNo(p, a, accepted)
      PROVE  PairedTrades'
    <2>1. CASE ClearTradeState(Engaged(p))
        <3>1. \A r \in Player : partner[r] # NoPlayer
                                 => (r \in Engaged(p) <=> partner[r] \in Engaged(p))
            BY DEF Engaged, PairedTrades, TypeOK
        <3>. QED
            BY <1>2, <2>1, <3>1, ClearPairs DEF HandleYesNo
    <2>2. CASE ClearTradeState({p}) /\ ~PartnerWaits(p)
        <3>1. partner[p] = NoPlayer
            BY <2>2 DEF PartnerWaits, PairedTrades
        <3>2. \A r \in Player : partner[r] # NoPlayer => (r \in {p} <=> partner[r] \in {p})
            BY <3>1 DEF PairedTrades, TypeOK
        <3>. QED
            BY <1>2, <2>2, <3>2, ClearPairs DEF HandleYesNo
    <2>3. CASE /\ PartnerWaits(p)
               /\ open' = [open EXCEPT ![p] = TRUE, ![partner[p]] = TRUE]
               /\ UNCHANGED <<partner, ok, offer>>
        <3>1. partner[p] \in Player /\ partner[p] # p /\ partner[partner[p]] = p
            BY <2>3 DEF PartnerWaits, PairedTrades, TypeOK
        <3>2. UNCHANGED <<online, partner, ok, offer>>
            BY <1>2, <2>3 DEF HandleYesNo
        <3>3. \A r \in Player : open'[r] = (r \in {p, partner[p]} \/ open[r])
            BY <2>3, <3>1 DEF TypeOK
        <3>4. \A r \in Player : partner[r] # NoPlayer
                  => (r \in {p, partner[p]} <=> partner[r] \in {p, partner[p]})
            BY <3>1 DEF PairedTrades, TypeOK
        <3>5. \A r \in Player : /\ partner[r] # NoPlayer => open'[partner[r]] = open'[r]
                                /\ partner[r] = NoPlayer => ~open'[r]
            BY <3>1, <3>3, <3>4 DEF PairedTrades, TypeOK
        <3>. QED
            BY <3>2, <3>3, <3>5 DEF PairedTrades, NoOffer, NoStacks
    <2>. QED
        BY <1>2, <2>1, <2>2, <2>3 DEF HandleYesNo
<1>3. ASSUME NEW i \in Item, AddItem(p, i)
      PROVE  PairedTrades'
    BY <1>3, ChangeInWindow DEF AddItem, InWindow, ResetOk, PairedTrades, TypeOK
<1>4. ASSUME NEW s \in Stack, NEW n \in 0..MaxCount, AddStack(p, s, n)
      PROVE  PairedTrades'
    BY <1>4, ChangeInWindow DEF AddStack, InWindow, ResetOk, PairedTrades, TypeOK
<1>5. ASSUME NEW n \in 0..MaxCount, AddGoldToTrade(p, n)
      PROVE  PairedTrades'
    BY <1>5, ChangeInWindow DEF AddGoldToTrade, InWindow, ResetOk, PairedTrades, TypeOK
<1>6. ASSUME Accept(p)
      PROVE  PairedTrades'
    <2>1. CASE ok' = [ok EXCEPT ![p] = TRUE] /\ UNCHANGED <<partner, open, offer>>
        BY <1>6, <2>1, ChangeInWindow DEF Accept, InWindow, PairedTrades, TypeOK
    <2>2. CASE ExecuteTrade(p, partner[p])
        <3>1. ClearTradeState({p, partner[p]})
            BY <2>2 DEF ExecuteTrade, DeliverOffers, CancelTrade
        <3>2. \A r \in Player : partner[r] # NoPlayer
                  => (r \in {p, partner[p]} <=> partner[r] \in {p, partner[p]})
            BY <1>6 DEF Accept, InWindow, PairedTrades, TypeOK
        <3>. QED
            BY <1>6, <3>1, <3>2, ClearPairs DEF Accept
    <2>. QED
        BY <1>6, <2>1, <2>2 DEF Accept
<1>7. ASSUME Cancel(p)
      PROVE  PairedTrades'
    <2>1. Engaged(p) = {p, partner[p]}
        BY <1>7, EngagedIsPair DEF Cancel
    <2>2. \A r \in Player : partner[r] # NoPlayer
              => (r \in {p, partner[p]} <=> partner[r] \in {p, partner[p]})
        BY <1>7 DEF Cancel, PairedTrades, TypeOK
    <2>. QED
        BY <1>7, <2>1, <2>2, ClearPairs DEF Cancel, CancelTrade
<1>. QED
    BY <1>1, <1>2, <1>3, <1>4, <1>5, <1>6, <1>7 DEF TradeStep

LEMMA WorldStepPairs ==
    ASSUME TypeOK, PairedTrades, NEW p \in Player, WorldStep(p)
    PROVE  PairedTrades'
<1>1. CASE HandleDisconnect(p) \/ HandleChangeChar(p)
    <2>1. online' = online \ {p}
        BY <1>1 DEF HandleDisconnect, HandleChangeChar
    <2>2. CASE partner[p] = NoPlayer
        <3>1. ClearTradeState({})
            BY <1>1, <2>2 DEF HandleDisconnect, HandleChangeChar, CancelTrade
        <3>2. \A r \in Player : partner[r] # p
            BY <2>2 DEF PairedTrades, TypeOK
        <3>3. UNCHANGED tradeVars
            BY <3>1 DEF ClearTradeState, TypeOK, tradeVars
        <3>. QED
            BY <2>1, <2>2, <3>2, <3>3 DEF tradeVars, PairedTrades, TypeOK, NoOffer, NoStacks
    <2>3. CASE partner[p] # NoPlayer
        <3>1. partner[p] \in online'
            BY <2>1, <2>3 DEF PairedTrades
        <3>2. ClearTradeState({p, partner[p]})
            BY <1>1, <2>3, <3>1, EngagedIsPair
            DEF HandleDisconnect, HandleChangeChar, CancelTrade
        <3>3. \A r \in Player : partner[r] # NoPlayer
                  => (r \in {p, partner[p]} <=> partner[r] \in {p, partner[p]})
            BY <2>3 DEF PairedTrades, TypeOK
        <3>. QED
            BY <2>1, <3>2, <3>3, ClearPairs
    <2>. QED
        BY <2>2, <2>3
<1>2. CASE EnterWorld(p)
    <2>1. \A r \in Player : partner[r] # NoPlayer => (r \in {p} <=> partner[r] \in {p})
        BY <1>2 DEF EnterWorld, PairedTrades, TypeOK
    <2>. QED
        BY <1>2, <2>1, ClearPairs DEF EnterWorld
<1>. QED
    BY <1>1, <1>2 DEF WorldStep

LEMMA StepPairs == TypeOK /\ PairedTrades /\ [Next]_vars => PairedTrades'
<1>. SUFFICES ASSUME TypeOK, PairedTrades, [Next]_vars
              PROVE  PairedTrades'
    OBVIOUS
<1>1. ASSUME NEW p \in Player, InventoryStep(p)
      PROVE  PairedTrades'
    BY <1>1, SameTrades
    DEF InventoryStep, EquipWeapon, DropItem, DestroyItem, PickupItem, DropStack,
        DestroyStack, PickupStack
<1>2. ASSUME NEW i \in Item, TickGroundItems(i)
      PROVE  PairedTrades'
    BY <1>2, SameTrades DEF TickGroundItems
<1>3. ASSUME NEW s \in Stack, NEW n \in 1..groundBag[s], TickGroundStack(s, n)
      PROVE  PairedTrades'
    BY <1>3, SameTrades DEF TickGroundStack
<1>4. CASE UNCHANGED vars
    BY <1>4, SameTrades DEF vars
<1>. QED
    BY <1>1, <1>2, <1>3, <1>4, TradeStepPairs, WorldStepPairs DEF Next

\* Trades are mutual in every reachable state, for any number of players.
THEOREM TradesArePaired == Spec => []PairedTrades
<1>1. Init => PairedTrades
    BY DEF Init, PairedTrades
<1>. QED
    BY <1>1, TypeCorrect, StepPairs, PTL DEF Spec

-----------------------------------------------------------------------------
(* One owner.  An object moves between an inventory, its owner's window and  *)
(* the ground; what a step leaves to a player is what that player held, or   *)
(* what the partner's window held when the trade executes.                   *)

LEMMA NoOfferEmpty == NoOffer.items = {}
BY DEF NoOffer

\* A step after which nobody holds more than before.
LEMMA HeldShrinks ==
    ASSUME OneOwner,
           \A r \in Player : Held(r)' \subseteq Held(r) /\ inv'[r] \cap offer'[r].items = {},
           ground' \subseteq ground
    PROVE  OneOwner'
BY DEF OneOwner

LEMMA CancelOwners ==
    ASSUME TypeOK, OneOwner, NEW S, CancelTrade(S), UNCHANGED ground
    PROVE  OneOwner'
<1>1. ASSUME NEW r \in Player
      PROVE  Held(r)' \subseteq Held(r) /\ inv'[r] \cap offer'[r].items = {}
    <2>1. CASE r \in S
        <3>1. inv'[r] = inv[r] \cup offer[r].items /\ offer'[r] = NoOffer
            BY <2>1 DEF CancelTrade, RestoreTradeItems, ClearTradeState
        <3>. QED
            BY <3>1, NoOfferEmpty DEF Held
    <2>2. CASE r \notin S
        <3>1. inv'[r] = inv[r] /\ offer'[r] = offer[r]
            BY <2>2 DEF CancelTrade, RestoreTradeItems, ClearTradeState
        <3>. QED
            BY <3>1 DEF Held, OneOwner
    <2>. QED
        BY <2>1, <2>2
<1>. QED
    BY <1>1, HeldShrinks

\* Dropping offers without returning them only loses objects.
LEMMA ClearOwners ==
    ASSUME TypeOK, OneOwner, NEW S, ClearTradeState(S), UNCHANGED <<inv, ground>>
    PROVE  OneOwner'
<1>1. ASSUME NEW r \in Player
      PROVE  offer'[r] = NoOffer \/ offer'[r] = offer[r]
    BY DEF ClearTradeState
<1>2. ASSUME NEW r \in Player
      PROVE  Held(r)' \subseteq Held(r) /\ inv'[r] \cap offer'[r].items = {}
    BY <1>1, NoOfferEmpty DEF Held, OneOwner
<1>. QED
    BY <1>2, HeldShrinks

LEMMA DeliverOwners ==
    ASSUME TypeOK, OneOwner, NEW p \in Player, NEW q \in Player, p # q,
           DeliverOffers(p, q), UNCHANGED ground
    PROVE  OneOwner'
<1>1. /\ Held(p)' = inv[p] \cup offer[q].items /\ offer'[p].items = {}
      /\ Held(q)' = inv[q] \cup offer[p].items /\ offer'[q].items = {}
    <2>1. /\ inv'[p] = inv[p] \cup offer[q].items
          /\ inv'[q] = inv[q] \cup offer[p].items
        BY DEF DeliverOffers, ReceiveOffers, TypeOK
    <2>2. offer'[p] = NoOffer /\ offer'[q] = NoOffer
        BY DEF DeliverOffers, ClearTradeState
    <2>. QED
        BY <2>1, <2>2, NoOfferEmpty DEF Held
<1>2. ASSUME NEW r \in Player \ {p, q}
      PROVE  inv'[r] = inv[r] /\ offer'[r] = offer[r]
    BY DEF DeliverOffers, ReceiveOffers, ClearTradeState, TypeOK
<1>3. ASSUME NEW r \in Player
      PROVE  inv'[r] \cap offer'[r].items = {}
    BY <1>1, <1>2 DEF OneOwner
<1>4. Held(p)' \cap Held(q)' = {}
    BY <1>1 DEF OneOwner, Held
<1>5. ASSUME NEW r \in Player \ {p, q}
      PROVE  Held(r)' = Held(r)
    BY <1>2 DEF Held
<1>6. ASSUME NEW r \in Player \ {p, q}, NEW t \in Player, t # r
      PROVE  Held(r)' \cap Held(t)' = {}
    <2>1. Held(p)' \cup Held(q)' \subseteq Held(p) \cup Held(q)
        BY <1>1 DEF Held
    <2>2. Held(r) \cap (Held(p) \cup Held(q)) = {}
        BY DEF OneOwner
    <2>3. CASE t \in {p, q}
        BY <2>1, <2>2, <2>3, <1>5
    <2>4. CASE t \notin {p, q}
        BY <2>4, <1>5, <1>6 DEF OneOwner
    <2>. QED
        BY <2>3, <2>4
<1>7. ASSUME NEW r \in Player
      PROVE  Held(r)' \cap ground' = {}
    BY <1>1, <1>5 DEF OneOwner, Held
<1>. QED
    BY <1>3, <1>4, <1>6, <1>7 DEF OneOwner

LEMMA TradeStepOwners ==
    ASSUME TypeOK, PairedTrades, OneOwner, NEW p \in Player, TradeStep(p)
    PROVE  OneOwner'
<1>1. ASSUME NEW q \in Player, InitiateTrade(p, q)
      PROVE  OneOwner'
    <2>1. ASSUME NEW r \in Player
          PROVE  inv'[r] = inv[r] /\ (offer'[r] = NoOffer \/ offer'[r] = offer[r])
        BY <1>1 DEF InitiateTrade, TypeOK, invVars
    <2>2. UNCHANGED ground
        BY <1>1 DEF InitiateTrade, groundVars
    <2>3. ASSUME NEW r \in Player
          PROVE  Held(r)' \subseteq Held(r) /\ inv'[r] \cap offer'[r].items = {}
        BY <2>1, NoOfferEmpty DEF Held, OneOwner
    <2>. QED
        BY <2>2, <2>3, HeldShrinks
<1>2. ASSUME NEW a \in Player, NEW accepted \in BOOLEAN, HandleYesNo(p, a, accepted)
      PROVE  OneOwner'
    <2>1. UNCHANGED <<inv, ground>>
        BY <1>2 DEF HandleYesNo, invVars, groundVars
    <2>2. CASE UNCHANGED offer
        BY <2>1, <2>2 DEF OneOwner, Held
    <2>3. CASE \E S : ClearTradeState(S)
        BY <2>1, <2>3, ClearOwners
    <2>. QED
        BY <1>2, <2>2, <2>3 DEF HandleYesNo
<1>3. ASSUME NEW i \in Item, AddItem(p, i)
      PROVE  OneOwner'
    <2>1. UNCHANGED ground
        BY <1>3 DEF AddItem, groundVars
    <2>2. CASE UNCHANGED <<offer, inv>>
        BY <2>1, <2>2 DEF OneOwner, Held
    <2>3. CASE /\ i \in inv[p]
               /\ offer' = [offer EXCEPT ![p] = WithItem(@, i)]
               /\ inv' = [inv EXCEPT ![p] = @ \ {i}]
        <3>1. i \in inv[p]
            BY <2>3
        <3>2. offer[p].items \in SUBSET Item /\ offer[p] \in Offers
            BY OfferFields DEF TypeOK
        <3>3. WithItem(offer[p], i).items = offer[p].items \cup {i}
            BY <3>2 DEF WithItem, Offers
        <3>4. offer'[p].items = offer[p].items \cup {i} /\ inv'[p] = inv[p] \ {i}
            BY <2>3, <3>3 DEF TypeOK
        <3>5. \A r \in Player \ {p} : offer'[r] = offer[r] /\ inv'[r] = inv[r]
            BY <2>3 DEF TypeOK
        <3>6. ASSUME NEW r \in Player
              PROVE  Held(r)' \subseteq Held(r) /\ inv'[r] \cap offer'[r].items = {}
            BY <3>1, <3>4, <3>5 DEF Held, OneOwner
        <3>. QED
            BY <2>1, <3>6, HeldShrinks
    <2>. QED
        BY <1>3, <2>2, <2>3 DEF AddItem
<1>4. ASSUME NEW s \in Stack, NEW n \in 0..MaxCount, AddStack(p, s, n)
      PROVE  OneOwner'
    <2>1. UNCHANGED <<inv, ground>>
        BY <1>4 DEF AddStack, groundVars
    <2>2. offer[p] \in Offers
        BY DEF TypeOK
    <2>3. WithStack(offer[p], s, CountOf(p, s, n)).items = offer[p].items
        BY <2>2 DEF WithStack, Offers
    <2>4. \A r \in Player : offer'[r].items = offer[r].items
        BY <1>4, <2>3 DEF AddStack, TypeOK
    <2>. QED
        BY <2>1, <2>4 DEF OneOwner, Held
<1>5. ASSUME NEW n \in 0..MaxCount, AddGoldToTrade(p, n)
      PROVE  OneOwner'
    <2>1. UNCHANGED <<inv, ground>>
        BY <1>5 DEF AddGoldToTrade, groundVars
    <2>2. offer[p] \in Offers
        BY DEF TypeOK
    <2>3. WithGold(offer[p], GoldTaken(p, n)).items = offer[p].items
        BY <2>2 DEF WithGold, Offers
    <2>4. \A r \in Player : offer'[r].items = offer[r].items
        BY <1>5, <2>3 DEF AddGoldToTrade, TypeOK
    <2>. QED
        BY <2>1, <2>4 DEF OneOwner, Held
<1>6. ASSUME Accept(p)
      PROVE  OneOwner'
    <2>1. UNCHANGED ground
        BY <1>6 DEF Accept, groundVars
    <2>2. partner[p] \in Player /\ partner[p] # p
        BY <1>6 DEF Accept, InWindow, PairedTrades, TypeOK
    <2>3. CASE UNCHANGED <<inv, offer>>
        BY <2>1, <2>3 DEF OneOwner, Held
    <2>4. CASE ExecuteTrade(p, partner[p])
        BY <2>1, <2>2, <2>4, DeliverOwners, CancelOwners DEF ExecuteTrade
    <2>. QED
        BY <1>6, <2>3, <2>4 DEF Accept, invVars
<1>7. ASSUME Cancel(p)
      PROVE  OneOwner'
    BY <1>7, CancelOwners DEF Cancel, groundVars
<1>. QED
    BY <1>1, <1>2, <1>3, <1>4, <1>5, <1>6, <1>7 DEF TradeStep

LEMMA InventoryStepOwners ==
    ASSUME TypeOK, OneOwner, NEW p \in Player, InventoryStep(p)
    PROVE  OneOwner'
<1>1. ASSUME NEW i \in Item, DropItem(p, i)
      PROVE  OneOwner'
    <2>1. /\ UNCHANGED offer /\ i \in inv[p] /\ ground' = ground \cup {i}
          /\ inv'[p] = inv[p] \ {i}
          /\ \A r \in Player \ {p} : inv'[r] = inv[r]
        BY <1>1 DEF DropItem, tradeVars, TypeOK
    <2>. QED
        BY <2>1 DEF OneOwner, Held
<1>2. ASSUME NEW i \in Item, DestroyItem(p, i)
      PROVE  OneOwner'
    <2>1. /\ UNCHANGED <<offer, ground>>
          /\ \A r \in Player : inv'[r] \subseteq inv[r]
        BY <1>2 DEF DestroyItem, tradeVars, groundVars, TypeOK
    <2>. QED
        BY <2>1, HeldShrinks DEF OneOwner, Held
<1>3. ASSUME NEW i \in Item, PickupItem(p, i)
      PROVE  OneOwner'
    <2>1. /\ UNCHANGED offer /\ i \in ground /\ ground' = ground \ {i}
          /\ inv'[p] = inv[p] \cup {i}
          /\ \A r \in Player \ {p} : inv'[r] = inv[r]
        BY <1>3 DEF PickupItem, tradeVars, TypeOK
    <2>. QED
        BY <2>1 DEF OneOwner, Held
<1>4. CASE UNCHANGED <<inv, offer, ground>>
    BY <1>4 DEF OneOwner, Held
<1>. QED
    BY <1>1, <1>2, <1>3, <1>4
    DEF InventoryStep, EquipWeapon, DropStack, DestroyStack, PickupStack, tradeVars, groundVars

LEMMA StepOwners ==
    TypeOK /\ PairedTrades /\ OneOwner /\ [Next]_vars => OneOwner'
<1>. SUFFICES ASSUME TypeOK, PairedTrades, OneOwner, [Next]_vars
              PROVE  OneOwner'
    OBVIOUS
<1>1. ASSUME NEW p \in Player, WorldStep(p)
      PROVE  OneOwner'
    <2>1. CASE EnterWorld(p)
        BY <2>1, ClearOwners DEF EnterWorld, groundVars
    <2>2. CASE HandleDisconnect(p) \/ HandleChangeChar(p)
        BY <2>2, CancelOwners DEF HandleDisconnect, HandleChangeChar, groundVars
    <2>. QED
        BY <1>1, <2>1, <2>2 DEF WorldStep
<1>2. ASSUME NEW i \in Item, TickGroundItems(i)
      PROVE  OneOwner'
    BY <1>2 DEF TickGroundItems, invVars, tradeVars, OneOwner, Held
<1>3. CASE UNCHANGED <<inv, offer, ground>>
    BY <1>3 DEF OneOwner, Held
<1>. QED
    BY <1>1, <1>2, <1>3, TradeStepOwners, InventoryStepOwners
    DEF Next, vars, TickGroundStack, invVars, tradeVars, groundVars

\* Nothing is ever in two places, for any number of players and objects.
THEOREM ObjectsHaveOneOwner == Spec => []OneOwner
<1>1. Init => OneOwner
    BY NoOfferEmpty DEF Init, OneOwner, Held
<1>. QED
    BY <1>1, TypeCorrect, TradesArePaired, StepOwners, PTL DEF Spec

-----------------------------------------------------------------------------
(* No bait and switch.  What changes an offer withdraws the confirmation of  *)
(* the player and of the partner; pairing makes that both who could hold one.*)

Switches ==
    \A p \in Player : ok[p] /\ ok'[p] =>
        /\ partner'[p] = partner[p]
        /\ offer'[p] = offer[p]
        /\ offer'[partner[p]] = offer[partner[p]]

LEMMA ClearKeepsDeals ==
    ASSUME TypeOK, PairedTrades, NEW S, ClearTradeState(S),
           \A r \in Player : partner[r] # NoPlayer => (r \in S <=> partner[r] \in S)
    PROVE  Switches
<1>1. ASSUME NEW r \in Player, ok[r], ok'[r]
      PROVE  r \notin S /\ partner[r] \notin S /\ partner[r] \in Player
    BY <1>1 DEF ClearTradeState, PairedTrades, TypeOK
<1>. QED
    BY <1>1 DEF Switches, ClearTradeState

\* A change of p's offer that withdraws the confirmations of p and its partner.
LEMMA ResetKeepsDeals ==
    ASSUME TypeOK, PairedTrades, NEW p \in Player, InWindow(p), ResetOk(p),
           UNCHANGED partner, \A r \in Player \ {p} : offer'[r] = offer[r]
    PROVE  Switches
<1>1. partner[p] \in Player /\ partner[partner[p]] = p
    BY DEF InWindow, PairedTrades, TypeOK
<1>2. ok'[p] = FALSE /\ ok'[partner[p]] = FALSE
    BY <1>1 DEF ResetOk, TypeOK
<1>3. ASSUME NEW r \in Player, ok[r], ok'[r]
      PROVE  r # p /\ partner[r] # p /\ partner[r] \in Player
    BY <1>2, <1>3 DEF PairedTrades, TypeOK
<1>. QED
    BY <1>3 DEF Switches

LEMMA TradeStepDeals ==
    ASSUME TypeOK, PairedTrades, NEW p \in Player, TradeStep(p)
    PROVE  Switches
<1>1. ASSUME NEW q \in Player, InitiateTrade(p, q)
      PROVE  Switches
    <2>1. ASSUME NEW r \in Player, ok[r]
          PROVE  r \notin {p, q} /\ partner[r] \notin {p, q} /\ partner[r] \in Player
        BY <1>1, <2>1 DEF InitiateTrade, PairedTrades, TypeOK
    <2>. QED
        BY <1>1, <2>1 DEF InitiateTrade, Switches, TypeOK
<1>2. ASSUME NEW a \in Player, NEW accepted \in BOOLEAN, HandleYesNo(p, a, accepted)
      PROVE  Switches
    <2>1. CASE ClearTradeState(Engaged(p))
        BY <2>1, ClearKeepsDeals DEF Engaged, PairedTrades, TypeOK
    <2>2. CASE ClearTradeState({p}) /\ ~PartnerWaits(p)
        <3>1. partner[p] = NoPlayer
            BY <2>2 DEF PartnerWaits, PairedTrades
        <3>. QED
            BY <2>2, <3>1, ClearKeepsDeals DEF PairedTrades, TypeOK
    <2>3. CASE UNCHANGED <<partner, ok, offer>>
        BY <2>3 DEF Switches
    <2>. QED
        BY <1>2, <2>1, <2>2, <2>3 DEF HandleYesNo
<1>3. ASSUME NEW i \in Item, AddItem(p, i)
      PROVE  Switches
    BY <1>3, ResetKeepsDeals DEF AddItem, TypeOK
<1>4. ASSUME NEW s \in Stack, NEW n \in 0..MaxCount, AddStack(p, s, n)
      PROVE  Switches
    BY <1>4, ResetKeepsDeals DEF AddStack, TypeOK
<1>5. ASSUME NEW n \in 0..MaxCount, AddGoldToTrade(p, n)
      PROVE  Switches
    BY <1>5, ResetKeepsDeals DEF AddGoldToTrade, TypeOK
<1>6. ASSUME Accept(p)
      PROVE  Switches
    <2>1. CASE UNCHANGED <<partner, offer>>
        BY <2>1 DEF Switches
    <2>2. CASE ExecuteTrade(p, partner[p])
        <3>1. ClearTradeState({p, partner[p]})
            BY <2>2 DEF ExecuteTrade, DeliverOffers, CancelTrade
        <3>2. \A r \in Player : partner[r] # NoPlayer
                  => (r \in {p, partner[p]} <=> partner[r] \in {p, partner[p]})
            BY <1>6 DEF Accept, InWindow, PairedTrades, TypeOK
        <3>. QED
            BY <3>1, <3>2, ClearKeepsDeals
    <2>. QED
        BY <1>6, <2>1, <2>2 DEF Accept
<1>7. ASSUME Cancel(p)
      PROVE  Switches
    <2>1. Engaged(p) = {p, partner[p]}
        BY <1>7, EngagedIsPair DEF Cancel
    <2>2. \A r \in Player : partner[r] # NoPlayer
              => (r \in {p, partner[p]} <=> partner[r] \in {p, partner[p]})
        BY <1>7 DEF Cancel, PairedTrades, TypeOK
    <2>. QED
        BY <1>7, <2>1, <2>2, ClearKeepsDeals DEF Cancel, CancelTrade
<1>. QED
    BY <1>1, <1>2, <1>3, <1>4, <1>5, <1>6, <1>7 DEF TradeStep

LEMMA StepDeals == TypeOK /\ PairedTrades /\ [Next]_vars => Switches
<1>. SUFFICES ASSUME TypeOK, PairedTrades, [Next]_vars
              PROVE  Switches
    OBVIOUS
<1>1. CASE UNCHANGED tradeVars
    BY <1>1 DEF tradeVars, Switches
<1>2. ASSUME NEW p \in Player, WorldStep(p)
      PROVE  Switches
    <2>1. CASE EnterWorld(p)
        BY <2>1, ClearKeepsDeals DEF EnterWorld, PairedTrades, TypeOK
    <2>2. CASE HandleDisconnect(p) \/ HandleChangeChar(p)
        <3>1. CASE partner[p] = NoPlayer
            <4>1. ClearTradeState({})
                BY <2>2, <3>1 DEF HandleDisconnect, HandleChangeChar, CancelTrade
            <4>. QED
                BY <4>1, ClearKeepsDeals
        <3>2. CASE partner[p] # NoPlayer
            <4>1. partner[p] \in online \ {p}
                BY <3>2 DEF PairedTrades
            <4>2. ClearTradeState({p, partner[p]})
                BY <2>2, <3>2, <4>1, EngagedIsPair
                DEF HandleDisconnect, HandleChangeChar, CancelTrade
            <4>3. \A r \in Player : partner[r] # NoPlayer
                      => (r \in {p, partner[p]} <=> partner[r] \in {p, partner[p]})
                BY <3>2 DEF PairedTrades, TypeOK
            <4>. QED
                BY <4>2, <4>3, ClearKeepsDeals
        <3>. QED
            BY <3>1, <3>2
    <2>. QED
        BY <1>2, <2>1, <2>2 DEF WorldStep
<1>3. ASSUME NEW p \in Player, InventoryStep(p)
      PROVE  UNCHANGED tradeVars
    BY <1>3
    DEF InventoryStep, EquipWeapon, DropItem, DestroyItem, PickupItem, DropStack,
        DestroyStack, PickupStack
<1>. QED
    BY <1>1, <1>2, <1>3, TradeStepDeals
    DEF Next, vars, TickGroundItems, TickGroundStack

\* A standing confirmation is for the deal on the table, with any number of players.
THEOREM ConfirmedDealsStand == Spec => NoBaitAndSwitch
<1>1. TypeOK /\ PairedTrades /\ [Next]_vars
      => [\A p \in Player : ok[p] /\ ok'[p] =>
             /\ partner'[p] = partner[p]
             /\ offer'[p] = offer[p]
             /\ offer'[partner[p]] = offer[partner[p]]]_vars
    BY StepDeals DEF Switches
<1>. QED
    BY <1>1, TypeCorrect, TradesArePaired, PTL DEF Spec, NoBaitAndSwitch

-----------------------------------------------------------------------------
(* What the protocol does to the economy: every step, seen from what the    *)
(* players and the ground hold, is one of four, and from that follow the    *)
(* refinement of Holdings and what an exchange may do.                      *)

\* Nothing of r's changes hands, though it may move between inventory and window.
Stays(r) == Held(r)' = Held(r) /\ \A s \in Stack : Wealth(r, s)' = Wealth(r, s)

\* Nobody has more than before.
Loses ==
    /\ \A r \in Player : /\ Held(r)' \subseteq Held(r)
                         /\ \A s \in Stack : Wealth(r, s)' <= Wealth(r, s)
    /\ ground' \subseteq ground
    /\ \A s \in Stack : groundBag'[s] <= groundBag[s]

\* p and the ground share between them what they had.
WithGround(p) ==
    /\ Held(p)' \cup ground' = Held(p) \cup ground
    /\ Held(p)' \cap ground' = {}
    /\ \A s \in Stack : Wealth(p, s)' + groundBag'[s] = Wealth(p, s) + groundBag[s]
    /\ \A r \in Player \ {p} : Stays(r)

\* p confirms what q has confirmed already, and each gets what the other offered.
Delivers(p, q) ==
    /\ partner[p] = q /\ open[p] /\ ok[q]
    /\ inv'[p] = inv[p] \cup offer[q].items /\ inv'[q] = inv[q] \cup offer[p].items
    /\ \A s \in Stack : /\ bag'[p][s] = bag[p][s] + Offered(q, s)
                        /\ bag'[q][s] = bag[q][s] + Offered(p, s)
    /\ offer'[p] = NoOffer /\ offer'[q] = NoOffer
    /\ \A r \in Player \ {p, q} : Stays(r)
    /\ UNCHANGED groundVars

\* p, who has nothing, is given the starting gold.
Granted(p) ==
    /\ Held(p) = {} /\ Held(p)' = {}
    /\ \A s \in Stack : Wealth(p, s) = 0
    /\ \A s \in Stack : Wealth(p, s)' = IF s = Adena THEN StartGold ELSE 0
    /\ \A r \in Player \ {p} : Stays(r)
    /\ UNCHANGED groundVars

Effect ==
    \/ Loses
    \/ \E p \in Player : WithGround(p) \/ Granted(p)
    \/ \E p \in Player : \E q \in Player \ {p} : Delivers(p, q)

-----------------------------------------------------------------------------
(* The effect of each step.                                                  *)

LEMMA WealthType ==
    ASSUME TypeOK, NEW p \in Player, NEW s \in Stack
    PROVE  Wealth(p, s) \in Nat /\ bag[p][s] \in Nat
BY OfferedType DEF Wealth, TypeOK

LEMMA NothingOffered == \A s \in Stack : NoOffer.bag[s] = 0 /\ NoOffer.gold = 0
BY DEF NoOffer, NoStacks

\* An empty offer is worth nothing, before a step and after it.
LEMMA EmptyOfferIsNothing ==
    ASSUME NEW r, NEW s \in Stack
    PROVE  /\ offer[r] = NoOffer => Offered(r, s) = 0
           /\ offer'[r] = NoOffer => Offered(r, s)' = 0
BY NothingOffered DEF Offered

\* Whoever has the same inventory and offer as before has what he had.
LEMMA SameStays ==
    ASSUME NEW r, inv'[r] = inv[r], bag'[r] = bag[r], offer'[r] = offer[r]
    PROVE  Stays(r)
BY DEF Stays, Held, Wealth, Offered

LEMMA StayingLoses ==
    ASSUME TypeOK, \A r \in Player : Stays(r), UNCHANGED groundVars
    PROVE  Loses
<1>1. \A r \in Player, s \in Stack : Wealth(r, s) \in Nat
    BY WealthType
<1>2. \A s \in Stack : groundBag[s] \in Nat
    BY DEF TypeOK
<1>. QED
    BY <1>1, <1>2 DEF Loses, Stays, groundVars

\* Cancelling returns to each what he had in the window.
LEMMA CancelStays ==
    ASSUME TypeOK, NEW S, CancelTrade(S)
    PROVE  \A r \in Player : Stays(r)
<1> SUFFICES ASSUME NEW r \in Player
             PROVE  Stays(r)
    OBVIOUS
<1>1. CASE r \in S
    <2>1. /\ inv'[r] = inv[r] \cup offer[r].items /\ offer'[r] = NoOffer
          /\ \A s \in Stack : bag'[r][s] = bag[r][s] + Offered(r, s)
        BY <1>1 DEF CancelTrade, RestoreTradeItems, ClearTradeState
    <2>2. Held(r)' = Held(r)
        BY <2>1, NoOfferEmpty DEF Held
    <2>3. ASSUME NEW s \in Stack
          PROVE  Wealth(r, s)' = Wealth(r, s)
        BY <2>1, EmptyOfferIsNothing, OfferedType, WealthType DEF Wealth
    <2>. QED
        BY <2>2, <2>3 DEF Stays
<1>2. CASE r \notin S
    <2>1. inv'[r] = inv[r] /\ bag'[r] = bag[r] /\ offer'[r] = offer[r]
        BY <1>2 DEF CancelTrade, RestoreTradeItems, ClearTradeState
    <2>. QED
        BY <2>1, SameStays
<1>. QED
    BY <1>1, <1>2

\* Clearing a trade without returning what is in the windows loses it.
LEMMA ClearLoses ==
    ASSUME TypeOK, NEW S, ClearTradeState(S), UNCHANGED <<inv, bag, ground, groundBag>>
    PROVE  Loses
<1>1. ASSUME NEW r \in Player
      PROVE  Held(r)' \subseteq Held(r) /\ \A s \in Stack : Wealth(r, s)' <= Wealth(r, s)
    <2>1. offer'[r] = NoOffer \/ offer'[r] = offer[r]
        BY DEF ClearTradeState
    <2>2. CASE offer'[r] = offer[r]
        BY <2>2, SameStays, WealthType DEF Stays
    <2>3. CASE offer'[r] = NoOffer
        BY <2>3, NoOfferEmpty, EmptyOfferIsNothing, OfferedType, WealthType DEF Held, Wealth
    <2>. QED
        BY <2>1, <2>2, <2>3
<1>2. \A s \in Stack : groundBag[s] \in Nat
    BY DEF TypeOK
<1>. QED
    BY <1>1, <1>2 DEF Loses

LEMMA OfferingLoses ==
    ASSUME TypeOK, PairedTrades, OneOwner, NEW p \in Player,
           \/ \E i \in Item : AddItem(p, i)
           \/ \E s \in Stack, n \in 0..MaxCount : AddStack(p, s, n)
           \/ \E n \in 0..MaxCount : AddGoldToTrade(p, n)
    PROVE  Loses
<1>1. offer[p] \in Offers /\ offer[p].bag \in [Stack -> Nat] /\ offer[p].gold \in Nat
    BY OfferFields DEF TypeOK
<1>2. \A s \in Stack : bag[p][s] \in Nat /\ groundBag[s] \in Nat
    BY DEF TypeOK
<1>3. UNCHANGED groundVars
    BY DEF AddItem, AddStack, AddGoldToTrade
<1>4. ASSUME NEW r \in Player \ {p}
      PROVE  Stays(r)
    <2>1. inv'[r] = inv[r] /\ bag'[r] = bag[r] /\ offer'[r] = offer[r]
        BY DEF AddItem, AddStack, AddGoldToTrade, TypeOK
    <2>. QED
        BY <2>1, SameStays
<1>5. CASE \E i \in Item : AddItem(p, i)
    <2>1. PICK i \in Item : AddItem(p, i)
        BY <1>5
    <2>2. CASE UNCHANGED <<offer, inv>>
        BY <2>1, <2>2, <1>3, SameStays, StayingLoses DEF AddItem
    <2>3. CASE /\ i \in inv[p]
               /\ offer' = [offer EXCEPT ![p] = WithItem(@, i)]
               /\ inv' = [inv EXCEPT ![p] = @ \ {i}]
        <3>1. i \in inv[p] /\ bag' = bag
            BY <2>1, <2>3 DEF AddItem
        <3>2. /\ WithItem(offer[p], i).items = offer[p].items \cup {i}
              /\ WithItem(offer[p], i).bag = offer[p].bag
              /\ WithItem(offer[p], i).gold = offer[p].gold
            BY <1>1 DEF WithItem, Offers
        <3>3. offer'[p] = WithItem(offer[p], i) /\ inv'[p] = inv[p] \ {i}
            BY <2>3 DEF TypeOK
        <3>4. Held(p)' = Held(p)
            BY <3>1, <3>2, <3>3 DEF Held
        <3>5. \A s \in Stack : Wealth(p, s)' = Wealth(p, s)
            BY <3>1, <3>2, <3>3 DEF Wealth, Offered
        <3>. QED
            BY <1>3, <1>4, <3>4, <3>5, StayingLoses DEF Stays
    <2>. QED
        BY <2>1, <2>2, <2>3 DEF AddItem
<1>6. CASE \E s \in Stack, n \in 0..MaxCount : AddStack(p, s, n)
    <2>1. PICK s \in Stack, n \in 0..MaxCount : AddStack(p, s, n)
        BY <1>6
    <2>2. CASE UNCHANGED <<offer, bag>>
        BY <2>1, <2>2, <1>3, SameStays, StayingLoses DEF AddStack
    <2>3. CASE /\ offer' = [offer EXCEPT ![p] = WithStack(@, s, CountOf(p, s, n))]
               /\ bag' = [bag EXCEPT ![p][s] = @ - CountOf(p, s, n)]
        <3> DEFINE a == CountOf(p, s, n)
        <3>1. a \in 0..bag[p][s] /\ a \in Nat
            BY CountOfType, <1>2
        <3> HIDE DEF a
        <3>2. /\ WithStack(offer[p], s, a).items = offer[p].items
              /\ WithStack(offer[p], s, a).bag = [offer[p].bag EXCEPT ![s] = @ + a]
              /\ WithStack(offer[p], s, a).gold = offer[p].gold
            BY <1>1 DEF WithStack, Offers
        <3>3. /\ offer'[p] = WithStack(offer[p], s, a)
              /\ bag'[p] = [bag[p] EXCEPT ![s] = @ - a] /\ inv' = inv
            BY <2>1, <2>3 DEF TypeOK, AddStack, a
        <3>4. Held(p)' = Held(p)
            BY <3>2, <3>3 DEF Held
        <3>5. ASSUME NEW t \in Stack
              PROVE  Wealth(p, t)' = Wealth(p, t)
            <4>1. bag[p] \in [Stack -> Nat]
                BY DEF TypeOK
            <4>2. CASE t = s
                <5>1. offer'[p].bag[t] = offer[p].bag[t] + a /\ bag'[p][t] = bag[p][t] - a
                    BY <1>1, <3>2, <3>3, <4>1, <4>2
                <5>. QED
                    BY <5>1, <1>1, <1>2, <3>1, <3>2, <3>3 DEF Wealth, Offered
            <4>3. CASE t # s
                <5>1. offer'[p].bag[t] = offer[p].bag[t] /\ bag'[p][t] = bag[p][t]
                    BY <1>1, <3>2, <3>3, <4>1, <4>3
                <5>. QED
                    BY <5>1, <3>2, <3>3 DEF Wealth, Offered
            <4>. QED
                BY <4>2, <4>3
        <3>. QED
            BY <1>3, <1>4, <3>4, <3>5, StayingLoses DEF Stays
    <2>. QED
        BY <2>1, <2>2, <2>3 DEF AddStack
<1>7. CASE \E n \in 0..MaxCount : AddGoldToTrade(p, n)
    <2>1. PICK n \in 0..MaxCount : AddGoldToTrade(p, n)
        BY <1>7
    <2>2. CASE UNCHANGED <<offer, bag>>
        BY <2>1, <2>2, <1>3, SameStays, StayingLoses DEF AddGoldToTrade
    <2>3. CASE /\ offer' = [offer EXCEPT ![p] = WithGold(@, GoldTaken(p, n))]
               /\ bag' = [bag EXCEPT ![p][Adena] = GoldBack(p) - GoldTaken(p, n)]
        <3> DEFINE a == GoldTaken(p, n)
        <3>1. GoldBack(p) \in Nat /\ a \in 0..GoldBack(p)
            BY GoldType
        <3> HIDE DEF a
        <3>2. /\ WithGold(offer[p], a).items = offer[p].items
              /\ WithGold(offer[p], a).bag = offer[p].bag
              /\ WithGold(offer[p], a).gold = a
            BY <1>1 DEF WithGold, Offers
        <3>3. /\ offer'[p] = WithGold(offer[p], a)
              /\ bag'[p] = [bag[p] EXCEPT ![Adena] = GoldBack(p) - a] /\ inv' = inv
            BY <2>1, <2>3 DEF TypeOK, AddGoldToTrade, a
        <3>4. Held(p)' = Held(p)
            BY <3>2, <3>3 DEF Held
        <3>5. GoldBack(p) <= bag[p][Adena] + offer[p].gold
            BY <1>1, <1>2 DEF GoldBack
        <3>6. ASSUME NEW t \in Stack
              PROVE  Wealth(p, t)' <= Wealth(p, t)
            <4>1. bag[p] \in [Stack -> Nat] /\ offer[p].bag[t] \in Nat
                BY <1>1 DEF TypeOK
            <4>2. CASE t = Adena
                <5>1. bag'[p][t] = GoldBack(p) - a
                    BY <3>3, <4>1, <4>2
                <5>2. Offered(p, t)' = offer[p].bag[t] + a
                    BY <3>2, <3>3, <4>2 DEF Offered
                <5>3. Wealth(p, t)' = GoldBack(p) + offer[p].bag[t]
                    BY <5>1, <5>2, <3>1, <4>1 DEF Wealth
                <5>4. Wealth(p, t) = bag[p][t] + (offer[p].bag[t] + offer[p].gold)
                    BY <4>2 DEF Wealth, Offered
                <5>. QED
                    BY <5>3, <5>4, <3>1, <3>5, <4>1, <4>2, <1>1
            <4>3. CASE t # Adena
                <5>1. bag'[p][t] = bag[p][t] /\ Offered(p, t)' = Offered(p, t)
                    BY <3>2, <3>3, <4>1, <4>3 DEF Offered
                <5>. QED
                    BY <5>1, WealthType DEF Wealth
            <4>. QED
                BY <4>2, <4>3
        <3>7. ASSUME NEW r \in Player
              PROVE  Held(r)' \subseteq Held(r) /\ \A s \in Stack : Wealth(r, s)' <= Wealth(r, s)
            <4>1. CASE r = p
                BY <4>1, <3>4, <3>6
            <4>2. CASE r # p
                BY <4>2, <1>4, WealthType DEF Stays
            <4>. QED
                BY <4>1, <4>2
        <3>. QED
            BY <1>2, <1>3, <3>7 DEF Loses, groundVars
    <2>. QED
        BY <2>1, <2>2, <2>3 DEF AddGoldToTrade
<1>. QED
    BY <1>5, <1>6, <1>7

\* The second confirmation, when the log is written, delivers.
LEMMA AcceptDelivers ==
    ASSUME TypeOK, PairedTrades, NEW p \in Player,
           Accept(p), ok[partner[p]], DeliverOffers(p, partner[p])
    PROVE  Delivers(p, partner[p])
<1> DEFINE q == partner[p]
<1>1. q \in Player \ {p} /\ open[p] /\ UNCHANGED groundVars
    BY DEF Accept, InWindow, PairedTrades, TypeOK
<1>2. partner[p] = q
    OBVIOUS
<1>3. ok[q] /\ DeliverOffers(p, q)
    OBVIOUS
<1> HIDE DEF q
<1>4. /\ inv'[p] = inv[p] \cup offer[q].items /\ inv'[q] = inv[q] \cup offer[p].items
      /\ \A s \in Stack : /\ bag'[p][s] = bag[p][s] + Offered(q, s)
                          /\ bag'[q][s] = bag[q][s] + Offered(p, s)
    BY <1>1, <1>3 DEF DeliverOffers, ReceiveOffers, TypeOK
<1>5. offer'[p] = NoOffer /\ offer'[q] = NoOffer
    BY <1>1, <1>3 DEF DeliverOffers, ClearTradeState
<1>6. ASSUME NEW r \in Player \ {p, q}
      PROVE  Stays(r)
    <2>1. inv'[r] = inv[r] /\ bag'[r] = bag[r] /\ offer'[r] = offer[r]
        BY <1>3 DEF DeliverOffers, ReceiveOffers, ClearTradeState, TypeOK
    <2>. QED
        BY <2>1, SameStays
<1>7. Delivers(p, q)
    BY <1>1, <1>2, <1>3, <1>4, <1>5, <1>6 DEF Delivers
<1>. QED
    BY <1>2, <1>7

LEMMA TradeStepEffect ==
    ASSUME TypeOK, PairedTrades, OneOwner, NEW p \in Player, TradeStep(p)
    PROVE  Effect
<1>1. ASSUME NEW q \in Player, InitiateTrade(p, q)
      PROVE  Loses
    <2>1. UNCHANGED <<inv, bag, groundVars>>
        BY <1>1 DEF InitiateTrade, invVars
    <2>2. ASSUME NEW r \in Player
          PROVE  offer'[r] = offer[r]
        <3>1. offer[p] = NoOffer /\ offer[q] = NoOffer
            BY <1>1 DEF InitiateTrade, PairedTrades
        <3>. QED
            BY <1>1, <3>1 DEF InitiateTrade, TypeOK
    <2>. QED
        BY <2>1, <2>2, SameStays, StayingLoses
<1>2. ASSUME NEW a \in Player, NEW accepted \in BOOLEAN, HandleYesNo(p, a, accepted)
      PROVE  Loses
    <2>1. UNCHANGED <<inv, bag, ground, groundBag>>
        BY <1>2 DEF HandleYesNo, invVars, groundVars
    <2>2. CASE UNCHANGED offer
        BY <2>1, <2>2, SameStays, StayingLoses DEF groundVars
    <2>3. CASE \E S : ClearTradeState(S)
        BY <2>1, <2>3, ClearLoses
    <2>. QED
        BY <1>2, <2>2, <2>3 DEF HandleYesNo
<1>3. CASE \/ \E i \in Item : AddItem(p, i)
           \/ \E s \in Stack, n \in 0..MaxCount : AddStack(p, s, n)
           \/ \E n \in 0..MaxCount : AddGoldToTrade(p, n)
    BY <1>3, OfferingLoses DEF Effect
<1>4. ASSUME Accept(p)
      PROVE  Effect
    <2> DEFINE q == partner[p]
    <2>1. q \in Player \ {p} /\ open[p] /\ UNCHANGED groundVars
        BY <1>4 DEF Accept, InWindow, PairedTrades, TypeOK
    <2>2. CASE UNCHANGED <<inv, bag, offer>>
        BY <2>1, <2>2, SameStays, StayingLoses DEF Effect
    <2>3. CASE CancelTrade({p, q})
        BY <2>1, <2>3, CancelStays, StayingLoses DEF Effect
    <2>4. CASE ok[q] /\ DeliverOffers(p, q)
        BY <1>4, <2>1, <2>4, AcceptDelivers DEF Effect
    <2>. QED
        BY <1>4, <2>2, <2>3, <2>4 DEF Accept, ExecuteTrade, invVars
<1>5. ASSUME Cancel(p)
      PROVE  Loses
    BY <1>5, CancelStays, StayingLoses DEF Cancel
<1>. QED
    BY <1>1, <1>2, <1>3, <1>4, <1>5 DEF TradeStep, Effect

LEMMA WorldStepEffect ==
    ASSUME TypeOK, PairedTrades, OneOwner, NEW p \in Player, WorldStep(p)
    PROVE  Effect
<1>1. CASE HandleDisconnect(p) \/ HandleChangeChar(p)
    BY <1>1, CancelStays, StayingLoses DEF HandleDisconnect, HandleChangeChar, Effect
<1>2. CASE EnterWorld(p)
    <2>1. UNCHANGED <<inv, groundVars>>
        BY <1>2 DEF EnterWorld
    <2>2. offer[p] = NoOffer
        BY <1>2 DEF EnterWorld, PairedTrades
    <2>3. \A r \in Player : offer'[r] = offer[r]
        BY <1>2, <2>2 DEF EnterWorld, ClearTradeState
    <2>4. CASE UNCHANGED bag
        BY <2>1, <2>3, <2>4, SameStays, StayingLoses DEF Effect
    <2>5. CASE OwnsNothing(p) /\ bag' = [bag EXCEPT ![p][Adena] = StartGold]
        <3>1. inv[p] = {} /\ \A s \in Stack : bag[p][s] = 0
            BY <2>5 DEF OwnsNothing, NoStacks
        <3>2. Held(p) = {} /\ Held(p)' = {}
            BY <2>1, <2>2, <2>3, <3>1, NoOfferEmpty DEF Held
        <3>3. \A s \in Stack : Wealth(p, s) = 0
            BY <2>2, <3>1, EmptyOfferIsNothing DEF Wealth
        <3>4. ASSUME NEW s \in Stack
              PROVE  Wealth(p, s)' = IF s = Adena THEN StartGold ELSE 0
            <4>1. bag[p] \in [Stack -> Nat] /\ bag'[p] = [bag[p] EXCEPT ![Adena] = StartGold]
                BY <2>5 DEF TypeOK
            <4>2. bag'[p][s] = IF s = Adena THEN StartGold ELSE 0
                BY <3>1, <4>1
            <4>3. Offered(p, s)' = 0
                BY <2>2, <2>3, EmptyOfferIsNothing
            <4>4. StartGold \in Nat
                OBVIOUS
            <4>. QED
                BY <4>2, <4>3, <4>4 DEF Wealth
        <3>5. ASSUME NEW r \in Player \ {p}
              PROVE  Stays(r)
            <4>1. inv'[r] = inv[r] /\ bag'[r] = bag[r] /\ offer'[r] = offer[r]
                BY <2>1, <2>3, <2>5 DEF TypeOK
            <4>. QED
                BY <4>1, SameStays
        <3>. QED
            BY <2>1, <3>2, <3>3, <3>4, <3>5 DEF Granted, Effect
    <2>. QED
        BY <1>2, <2>4, <2>5 DEF EnterWorld
<1>. QED
    BY <1>1, <1>2 DEF WorldStep

\* A count that is taken out of a bag is what the bag then lacks, of that stack alone.
LEMMA OneCount ==
    ASSUME TypeOK, NEW p \in Player, NEW s \in Stack, NEW n,
           bag' = [bag EXCEPT ![p][s] = n], UNCHANGED <<inv, offer>>
    PROVE  /\ bag'[p][s] = n /\ Held(p)' = Held(p)
           /\ \A t \in Stack \ {s} : Wealth(p, t)' = Wealth(p, t)
           /\ \A r \in Player \ {p} : Stays(r)
<1>1. bag \in [Player -> [Stack -> Nat]]
    BY DEF TypeOK
<1>2. bag'[p][s] = n /\ \A t \in Stack \ {s} : bag'[p][t] = bag[p][t]
    BY <1>1
<1>3. \A r \in Player \ {p} : bag'[r] = bag[r]
    BY <1>1
<1>. QED
    BY <1>2, <1>3, SameStays DEF Held, Wealth, Offered

\* An object changes hands between p and the ground.
LEMMA ObjectMoves ==
    ASSUME TypeOK, OneOwner, NEW p \in Player, NEW i \in Item,
           UNCHANGED <<bag, groundBag, offer>>,
           \/ i \in inv[p] /\ inv' = [inv EXCEPT ![p] = @ \ {i}] /\ ground' = ground \cup {i}
           \/ i \in ground /\ inv' = [inv EXCEPT ![p] = @ \cup {i}] /\ ground' = ground \ {i}
    PROVE  WithGround(p)
<1>1. ASSUME NEW r \in Player \ {p}
      PROVE  Stays(r)
    <2>1. inv'[r] = inv[r]
        BY DEF TypeOK
    <2>. QED
        BY <2>1, SameStays
<1>2. \A s \in Stack : Wealth(p, s)' = Wealth(p, s)
    BY DEF Wealth, Offered
<1>3. inv[p] \cap offer[p].items = {} /\ (inv[p] \cup offer[p].items) \cap ground = {}
    BY DEF OneOwner, Held
<1>4. \/ i \in inv[p] /\ inv'[p] = inv[p] \ {i} /\ ground' = ground \cup {i}
      \/ i \in ground /\ inv'[p] = inv[p] \cup {i} /\ ground' = ground \ {i}
    BY DEF TypeOK
<1>5. Held(p)' \cup ground' = Held(p) \cup ground /\ Held(p)' \cap ground' = {}
    BY <1>3, <1>4 DEF Held
<1>. QED
    BY <1>1, <1>2, <1>5 DEF WithGround

\* Part of a stack changes hands between p and the ground.
LEMMA CountMoves ==
    ASSUME TypeOK, OneOwner, NEW p \in Player, NEW s \in Stack, NEW m \in Nat, NEW n \in Nat,
           m + n = bag[p][s] + groundBag[s],
           bag' = [bag EXCEPT ![p][s] = m], groundBag' = [groundBag EXCEPT ![s] = n],
           UNCHANGED <<inv, ground, offer>>
    PROVE  WithGround(p)
<1>1. /\ bag'[p][s] = m /\ Held(p)' = Held(p)
      /\ \A t \in Stack \ {s} : Wealth(p, t)' = Wealth(p, t)
      /\ \A r \in Player \ {p} : Stays(r)
    BY OneCount
<1>2. Held(p) \cap ground = {}
    BY DEF OneOwner
<1>3. ASSUME NEW t \in Stack
      PROVE  Wealth(p, t)' + groundBag'[t] = Wealth(p, t) + groundBag[t]
    <2>1. groundBag \in [Stack -> Nat] /\ bag[p][t] \in Nat /\ Offered(p, t) \in Nat
        BY OfferedType DEF TypeOK
    <2>2. CASE t = s
        <3>1. Wealth(p, t)' = m + Offered(p, t) /\ groundBag'[t] = n
            BY <1>1, <2>1, <2>2 DEF Wealth, Offered
        <3>2. Wealth(p, t) = bag[p][t] + Offered(p, t)
            BY DEF Wealth
        <3>. QED
            BY <2>1, <2>2, <3>1, <3>2
    <2>3. CASE t # s
        BY <1>1, <2>1, <2>3
    <2>. QED
        BY <2>2, <2>3
<1>. QED
    BY <1>1, <1>2, <1>3 DEF WithGround

LEMMA InventoryStepEffect ==
    ASSUME TypeOK, PairedTrades, OneOwner, NEW p \in Player, InventoryStep(p)
    PROVE  Effect
<1>0. UNCHANGED offer /\ \A s \in Stack : bag[p][s] \in Nat /\ groundBag[s] \in Nat
    BY DEF InventoryStep, EquipWeapon, DropItem, DestroyItem, PickupItem, DropStack,
           DestroyStack, PickupStack, tradeVars, TypeOK
<1>1. ASSUME NEW i \in Item, EquipWeapon(p, i)
      PROVE  Loses
    BY <1>0, <1>1, SameStays, StayingLoses DEF EquipWeapon
<1>2. ASSUME NEW i \in Item, DropItem(p, i) \/ PickupItem(p, i)
      PROVE  WithGround(p)
    BY <1>0, <1>2, ObjectMoves DEF DropItem, PickupItem
<1>3. ASSUME NEW i \in Item, DestroyItem(p, i)
      PROVE  Loses
    <2>1. ASSUME NEW r \in Player
          PROVE  Held(r)' \subseteq Held(r) /\ \A s \in Stack : Wealth(r, s)' = Wealth(r, s)
        <3>1. inv'[r] \subseteq inv[r] /\ bag' = bag
            BY <1>3 DEF DestroyItem, TypeOK
        <3>. QED
            BY <3>1, <1>0 DEF Held, Wealth, Offered
    <2>2. \A r \in Player, s \in Stack : Wealth(r, s) \in Nat
        BY WealthType
    <2>. QED
        BY <1>0, <1>3, <2>1, <2>2 DEF DestroyItem, groundVars, Loses
<1>4. ASSUME NEW s \in Stack, NEW n \in 0..MaxCount, DropStack(p, s, n)
      PROVE  WithGround(p)
    <2>1. CountOf(p, s, n) \in 0..bag[p][s]
        BY CountOfType
    <2>2. /\ bag[p][s] - CountOf(p, s, n) \in Nat /\ groundBag[s] + CountOf(p, s, n) \in Nat
          /\ (bag[p][s] - CountOf(p, s, n)) + (groundBag[s] + CountOf(p, s, n))
                = bag[p][s] + groundBag[s]
        BY <1>0, <2>1
    <2>3. /\ bag' = [bag EXCEPT ![p][s] = bag[p][s] - CountOf(p, s, n)]
          /\ groundBag' = [groundBag EXCEPT ![s] = groundBag[s] + CountOf(p, s, n)]
          /\ UNCHANGED <<inv, ground>>
        BY <1>4 DEF DropStack, TypeOK
    <2>. QED
        BY <1>0, <2>2, <2>3, CountMoves
<1>5. ASSUME NEW s \in Stack, NEW n \in 0..MaxCount, DestroyStack(p, s, n)
      PROVE  Loses
    <2>1. CountOf(p, s, n) \in 0..bag[p][s]
        BY CountOfType
    <2>2. bag' = [bag EXCEPT ![p][s] = bag[p][s] - CountOf(p, s, n)] /\ UNCHANGED inv
        BY <1>5 DEF DestroyStack, TypeOK
    <2>3. /\ bag'[p][s] = bag[p][s] - CountOf(p, s, n) /\ Held(p)' = Held(p)
          /\ \A t \in Stack \ {s} : Wealth(p, t)' = Wealth(p, t)
          /\ \A r \in Player \ {p} : Stays(r)
        BY <1>0, <2>2, OneCount
    <2>4. Wealth(p, s)' <= Wealth(p, s)
        <3>1. Offered(p, s)' = Offered(p, s) /\ Offered(p, s) \in Nat
            BY <1>0, OfferedType DEF Offered
        <3>2. bag'[p][s] + Offered(p, s) <= bag[p][s] + Offered(p, s)
            BY <1>0, <2>1, <2>3, <3>1
        <3>. QED
            BY <3>1, <3>2 DEF Wealth
    <2>5. \A r \in Player, t \in Stack : Wealth(r, t) \in Nat
        BY WealthType
    <2>6. ASSUME NEW r \in Player
          PROVE  Held(r)' \subseteq Held(r) /\ \A t \in Stack : Wealth(r, t)' <= Wealth(r, t)
        BY <2>3, <2>4, <2>5 DEF Stays
    <2>7. UNCHANGED groundVars
        BY <1>5 DEF DestroyStack
    <2>. QED
        BY <1>0, <2>6, <2>7 DEF Loses, groundVars
<1>6. ASSUME NEW s \in Stack, NEW n \in 1..groundBag[s], PickupStack(p, s, n)
      PROVE  WithGround(p)
    <2>1. /\ bag[p][s] + n \in Nat /\ groundBag[s] - n \in Nat
          /\ (bag[p][s] + n) + (groundBag[s] - n) = bag[p][s] + groundBag[s]
        BY <1>0
    <2>2. /\ bag' = [bag EXCEPT ![p][s] = bag[p][s] + n]
          /\ groundBag' = [groundBag EXCEPT ![s] = groundBag[s] - n]
          /\ UNCHANGED <<inv, ground>>
        BY <1>6 DEF PickupStack, TypeOK
    <2>. QED
        BY <1>0, <2>1, <2>2, CountMoves
<1>. QED
    BY <1>1, <1>2, <1>3, <1>4, <1>5, <1>6 DEF InventoryStep, Effect

\* Every step of the trade protocol and of what goes on beside it has one of the four
\* effects.
LEMMA EveryStepHasAnEffect ==
    ASSUME TypeOK, PairedTrades, OneOwner, [Next]_vars
    PROVE  Effect
<1>1. \A s \in Stack : groundBag[s] \in Nat
    BY DEF TypeOK
<1>2. ASSUME UNCHANGED <<inv, bag, offer>>, ground' \subseteq ground,
             \A s \in Stack : groundBag'[s] <= groundBag[s]
      PROVE  Loses
    <2>1. \A r \in Player : Stays(r)
        BY <1>2, SameStays
    <2>2. \A r \in Player, s \in Stack : Wealth(r, s) \in Nat
        BY WealthType
    <2>. QED
        BY <1>2, <2>1, <2>2 DEF Loses, Stays
<1>3. ASSUME NEW i \in Item, TickGroundItems(i)
      PROVE  Loses
    BY <1>1, <1>2, <1>3 DEF TickGroundItems, invVars, tradeVars
<1>4. ASSUME NEW s \in Stack, NEW n \in 1..groundBag[s], TickGroundStack(s, n)
      PROVE  Loses
    <2>1. \A t \in Stack : groundBag'[t] <= groundBag[t]
        BY <1>1, <1>4 DEF TickGroundStack, TypeOK
    <2>. QED
        BY <1>2, <1>4, <2>1 DEF TickGroundStack, invVars, tradeVars
<1>5. CASE UNCHANGED vars
    <2>1. UNCHANGED <<inv, bag, offer, ground, groundBag>>
        BY <1>5 DEF vars, invVars, tradeVars, groundVars
    <2>2. \A s \in Stack : groundBag'[s] <= groundBag[s]
        BY <1>1, <2>1
    <2>. QED
        BY <1>2, <2>1, <2>2 DEF Effect
<1>. QED
    BY <1>3, <1>4, <1>5, TradeStepEffect, WorldStepEffect, InventoryStepEffect
    DEF Next, Effect

-----------------------------------------------------------------------------
(* What is exchanged.  Of the four effects only a delivery lets one player   *)
(* have what another had.                                                    *)

LEMMA WealthTypeNext ==
    ASSUME TypeOK', NEW p \in Player, NEW s \in Stack
    PROVE  Wealth(p, s)' \in Nat
<1>1. offer'[p] \in Offers /\ bag'[p][s] \in Nat
    BY DEF TypeOK
<1>2. offer'[p].bag \in [Stack -> Nat] /\ offer'[p].gold \in Nat
    BY <1>1, OfferFields
<1>. QED
    BY <1>1, <1>2 DEF Wealth, Offered

LEMMA OnlyDeliveriesPass ==
    ASSUME TypeOK, TypeOK', OneOwner, Effect,
           NEW p \in Player, NEW q \in Player \ {p}, Passes(p, q)
    PROVE  Delivers(p, q) \/ Delivers(q, p)
<1>1. \A r \in Player, s \in Stack : Wealth(r, s) \in Nat /\ Wealth(r, s)' \in Nat
    BY WealthType, WealthTypeNext
<1>2. Held(p) \cap Held(q) = {} /\ Held(p) \cap ground = {}
    BY DEF OneOwner
<1>3. ASSUME Held(p) \cap Held(q)' = {}, Stays(p) \/ \A s \in Stack : Wealth(q, s)' <= Wealth(q, s)
      PROVE  FALSE
    <2>1. PICK s \in Stack : Wealth(p, s)' < Wealth(p, s) /\ Wealth(q, s)' > Wealth(q, s)
        BY <1>3 DEF Passes
    <2>2. CASE Stays(p)
        BY <1>1, <2>1, <2>2 DEF Stays
    <2>3. CASE Wealth(q, s)' <= Wealth(q, s)
        BY <1>1, <2>1, <2>3
    <2>. QED
        BY <1>3, <2>2, <2>3
<1>4. ASSUME Stays(q)
      PROVE  FALSE
    BY <1>1, <1>2, <1>3, <1>4 DEF Stays
<1>5. CASE Loses
    BY <1>2, <1>3, <1>5 DEF Loses
<1>6. ASSUME NEW r \in Player, WithGround(r) \/ Granted(r)
      PROVE  FALSE
    <2>1. CASE r = q
        BY <1>2, <1>3, <1>6, <2>1 DEF WithGround, Granted
    <2>2. CASE r # q
        BY <1>4, <1>6, <2>2 DEF WithGround, Granted
    <2>. QED
        BY <2>1, <2>2
<1>7. ASSUME NEW a \in Player, NEW b \in Player \ {a}, Delivers(a, b)
      PROVE  {a, b} = {p, q}
    <2>1. CASE q \notin {a, b}
        BY <1>4, <1>7, <2>1 DEF Delivers
    <2>2. CASE p \notin {a, b} /\ q \in {a, b}
        <3>1. Held(q)' \subseteq Held(a) \cup Held(b)
            BY <1>7, <2>2, NoOfferEmpty DEF Delivers, Held
        <3>2. Held(p) \cap Held(q)' = {}
            BY <2>2, <3>1 DEF OneOwner
        <3>3. Stays(p)
            BY <1>7, <2>2 DEF Delivers
        <3>. QED
            BY <1>3, <3>2, <3>3
    <2>. QED
        BY <2>1, <2>2
<1>8. ASSUME NEW a \in Player, NEW b \in Player \ {a}, Delivers(a, b)
      PROVE  Delivers(p, q) \/ Delivers(q, p)
    BY <1>7, <1>8
<1>. QED
    BY <1>5, <1>6, <1>8 DEF Effect

LEMMA StepExchanges ==
    TypeOK /\ PairedTrades /\ OneOwner /\ [Next]_vars =>
      \A p \in Player : \A q \in Player \ {p} : Passes(p, q) =>
          /\ partner[p] = q /\ open[p] /\ (ok[p] \/ ok[q])
          /\ inv'[q] = inv[q] \cup offer[p].items
          /\ inv'[p] = inv[p] \cup offer[q].items
          /\ \A s \in Stack : /\ bag'[q][s] = bag[q][s] + Offered(p, s)
                              /\ bag'[p][s] = bag[p][s] + Offered(q, s)
          /\ offer'[p] = NoOffer /\ offer'[q] = NoOffer
<1>1. SUFFICES ASSUME TypeOK, PairedTrades, OneOwner, [Next]_vars,
                      NEW p \in Player, NEW q \in Player \ {p}, Passes(p, q)
               PROVE  /\ partner[p] = q /\ open[p] /\ (ok[p] \/ ok[q])
                      /\ inv'[q] = inv[q] \cup offer[p].items
                      /\ inv'[p] = inv[p] \cup offer[q].items
                      /\ \A s \in Stack : /\ bag'[q][s] = bag[q][s] + Offered(p, s)
                                          /\ bag'[p][s] = bag[p][s] + Offered(q, s)
                      /\ offer'[p] = NoOffer /\ offer'[q] = NoOffer
    OBVIOUS
<1>2. Delivers(p, q) \/ Delivers(q, p)
    BY <1>1, StepType, EveryStepHasAnEffect, OnlyDeliveriesPass
<1>3. CASE Delivers(p, q)
    BY <1>3 DEF Delivers
<1>4. CASE Delivers(q, p)
    <2>1. partner[q] = p /\ open[q]
        BY <1>4 DEF Delivers
    <2>2. partner[q] # NoPlayer
        BY <2>1
    <2>3. partner[partner[q]] = q /\ open[partner[q]] = open[q]
        BY <1>1, <2>2 DEF PairedTrades
    <2>. QED
        BY <1>4, <2>1, <2>3 DEF Delivers
<1>. QED
    BY <1>2, <1>3, <1>4

\* Goods pass between players only in a trade both sides confirmed, and exactly as
\* offered, for any number of players and whatever else happens meanwhile.
THEOREM ExchangesAreAsOffered == Spec => ExchangeIsAsOffered
<1>. QED
    BY StepExchanges, TypeCorrect, TradesArePaired, ObjectsHaveOneOwner, PTL
    DEF Spec, ExchangeIsAsOffered

-----------------------------------------------------------------------------
(* The end of a trade.  Whatever closes one, unless it is the answer to a    *)
(* dialog, cancels it or delivers.                                           *)

LEMMA DeliveryConserves ==
    ASSUME TypeOK, NEW p \in Player, NEW q \in Player, p # q, Delivers(p, q)
    PROVE  /\ Held(p)' \cup Held(q)' = Held(p) \cup Held(q)
           /\ \A s \in Stack : Wealth(p, s)' + Wealth(q, s)' = Wealth(p, s) + Wealth(q, s)
<1>1. Held(p)' \cup Held(q)' = Held(p) \cup Held(q)
    BY NoOfferEmpty DEF Delivers, Held
<1>2. ASSUME NEW s \in Stack
      PROVE  Wealth(p, s)' + Wealth(q, s)' = Wealth(p, s) + Wealth(q, s)
    <2>1. /\ Offered(p, s) \in Nat /\ Offered(q, s) \in Nat
          /\ bag[p][s] \in Nat /\ bag[q][s] \in Nat
        BY OfferedType, WealthType
    <2>2. Wealth(p, s)' = (bag[p][s] + Offered(q, s)) + 0
        BY EmptyOfferIsNothing DEF Delivers, Wealth
    <2>3. Wealth(q, s)' = (bag[q][s] + Offered(p, s)) + 0
        BY EmptyOfferIsNothing DEF Delivers, Wealth
    <2>. QED
        BY <2>1, <2>2, <2>3 DEF Wealth
<1>. QED
    BY <1>1, <1>2

\* A step that ends a trade and answers no dialog leaves everybody what he had, or
\* delivers.
LEMMA ClosingStep ==
    ASSUME TypeOK, PairedTrades, OneOwner, [Next]_vars,
           NEW p \in Player, partner[p] \in Player, partner'[p] = NoPlayer,
           \A r \in online' : dialogs'[r] = dialogs[r]
    PROVE  \/ \A r \in Player : Stays(r)
           \/ Delivers(p, partner[p]) \/ Delivers(partner[p], p)
<1>1. partner'[p] # partner[p]
    OBVIOUS
<1>2. PICK a \in Player : TradeStep(a) \/ WorldStep(a)
    BY <1>1
    DEF Next, vars, tradeVars, InventoryStep, EquipWeapon, DropItem, DestroyItem, PickupItem,
        DropStack, DestroyStack, PickupStack, TickGroundItems, TickGroundStack
<1>3. ASSUME \E S : CancelTrade(S)
      PROVE  \A r \in Player : Stays(r)
    BY <1>3, CancelStays
<1>4. CASE HandleDisconnect(a) \/ HandleChangeChar(a) \/ Cancel(a)
    BY <1>3, <1>4 DEF HandleDisconnect, HandleChangeChar, Cancel
<1>5. CASE EnterWorld(a)
    <2>1. partner'[p] = partner[p] \/ p = a
        BY <1>5 DEF EnterWorld, ClearTradeState
    <2>2. p # a
        BY <1>5 DEF EnterWorld, PairedTrades
    <2>. QED
        BY <1>1, <2>1, <2>2
<1>6. ASSUME NEW q \in Player, InitiateTrade(a, q)
      PROVE  FALSE
    BY <1>1, <1>6 DEF InitiateTrade, TypeOK
<1>7. ASSUME NEW b \in Player, NEW accepted \in BOOLEAN, HandleYesNo(a, b, accepted)
      PROVE  FALSE
    <2>1. /\ a \in online' /\ b \in dialogs[a] /\ dialogs'[a] = dialogs[a] \ {b}
        BY <1>7 DEF HandleYesNo, TypeOK
    <2>. QED
        BY <2>1
<1>8. ASSUME Accept(a)
      PROVE  \/ \A r \in Player : Stays(r)
             \/ Delivers(p, partner[p]) \/ Delivers(partner[p], p)
    <2>1. ExecuteTrade(a, partner[a])
        BY <1>1, <1>8 DEF Accept
    <2>2. partner[a] \in Player \ {a} /\ open[a] /\ partner[partner[a]] = a
        BY <1>8 DEF Accept, InWindow, PairedTrades, TypeOK
    <2>3. CASE CancelTrade({a, partner[a]})
        BY <1>3, <2>3
    <2>4. CASE DeliverOffers(a, partner[a])
        <3>1. p \in {a, partner[a]}
            BY <1>1, <2>4 DEF DeliverOffers, ClearTradeState
        <3>2. ok[partner[a]]
            BY <1>1, <1>8 DEF Accept
        <3>3. Delivers(a, partner[a])
            BY <1>8, <2>4, <3>2, AcceptDelivers
        <3>. QED
            BY <2>2, <3>1, <3>3
    <2>. QED
        BY <2>1, <2>3, <2>4 DEF ExecuteTrade
<1>9. ASSUME \/ \E i \in Item : AddItem(a, i)
             \/ \E s \in Stack, n \in 0..MaxCount : AddStack(a, s, n)
             \/ \E n \in 0..MaxCount : AddGoldToTrade(a, n)
      PROVE  FALSE
    BY <1>1, <1>9 DEF AddItem, AddStack, AddGoldToTrade
<1>. QED
    BY <1>2, <1>4, <1>5, <1>6, <1>7, <1>8, <1>9 DEF TradeStep, WorldStep

LEMMA StepCloses ==
    TypeOK /\ PairedTrades /\ OneOwner /\ [Next]_vars =>
      \A p, q \in Player :
          /\ partner[p] = q /\ partner'[p] = NoPlayer
          /\ \A r \in online' : dialogs'[r] = dialogs[r]
          => /\ Held(p)' \cup Held(q)' = Held(p) \cup Held(q)
             /\ \A s \in Stack :
                   Wealth(p, s)' + Wealth(q, s)' = Wealth(p, s) + Wealth(q, s)
<1>1. SUFFICES ASSUME TypeOK, PairedTrades, OneOwner, [Next]_vars,
                      NEW p \in Player, NEW q \in Player,
                      partner[p] = q, partner'[p] = NoPlayer,
                      \A r \in online' : dialogs'[r] = dialogs[r]
               PROVE  /\ Held(p)' \cup Held(q)' = Held(p) \cup Held(q)
                      /\ \A s \in Stack :
                            Wealth(p, s)' + Wealth(q, s)' = Wealth(p, s) + Wealth(q, s)
    OBVIOUS
<1>2. q # p
    <2>1. partner[p] # NoPlayer
        BY <1>1
    <2>. QED
        BY <1>1, <2>1 DEF PairedTrades
<1>3. (\A r \in Player : Stays(r)) \/ Delivers(p, q) \/ Delivers(q, p)
    BY <1>1, ClosingStep
<1>4. CASE \A r \in Player : Stays(r)
    BY <1>4 DEF Stays
<1>5. CASE Delivers(p, q)
    BY <1>1, <1>2, <1>5, DeliveryConserves
<1>6. CASE Delivers(q, p)
    <2>1. /\ Held(q)' \cup Held(p)' = Held(q) \cup Held(p)
          /\ \A s \in Stack : Wealth(q, s)' + Wealth(p, s)' = Wealth(q, s) + Wealth(p, s)
        BY <1>1, <1>2, <1>6, DeliveryConserves
    <2>2. \A s \in Stack : /\ Wealth(p, s) \in Nat /\ Wealth(p, s)' \in Nat
                          /\ Wealth(q, s) \in Nat /\ Wealth(q, s)' \in Nat
        BY <1>1, StepType, WealthType, WealthTypeNext
    <2>. QED
        BY <2>1, <2>2
<1>. QED
    BY <1>3, <1>4, <1>5, <1>6

\* Whatever ends a trade, the two players together own what they owned before.
THEOREM ClosingTradesConserves == Spec => ClosingConserves
<1>. QED
    BY StepCloses, TypeCorrect, TradesArePaired, ObjectsHaveOneOwner, PTL
    DEF Spec, ClosingConserves

-----------------------------------------------------------------------------
(* The wielded weapon: whoever takes an object out of an inventory looks at  *)
(* it first, and the ends of a trade only add to inventories.                *)

LEMMA StepWields == TypeOK /\ WieldedIsHeld /\ [Next]_vars => WieldedIsHeld'
<1>. SUFFICES ASSUME TypeOK, WieldedIsHeld, [Next]_vars
              PROVE  WieldedIsHeld'
    OBVIOUS
<1>1. ASSUME UNCHANGED weapon, \A r \in Player : inv[r] \ inv'[r] \subseteq Item \ {weapon[r]}
      PROVE  WieldedIsHeld'
    BY <1>1 DEF WieldedIsHeld
<1>2. ASSUME UNCHANGED weapon, \A r \in Player : inv[r] \subseteq inv'[r]
      PROVE  WieldedIsHeld'
    BY <1>1, <1>2
<1>3. CASE UNCHANGED <<inv, weapon>>
    BY <1>2, <1>3
<1>4. ASSUME NEW S, CancelTrade(S)
      PROVE  WieldedIsHeld'
    BY <1>2, <1>4 DEF CancelTrade, RestoreTradeItems
<1>5. ASSUME NEW p \in Player, TradeStep(p)
      PROVE  WieldedIsHeld'
    <2>1. CASE UNCHANGED <<inv, weapon>>
        BY <1>3, <2>1
    <2>2. ASSUME NEW i \in Item, AddItem(p, i), ~UNCHANGED <<inv, weapon>>
          PROVE  WieldedIsHeld'
        <3>1. /\ UNCHANGED weapon /\ i # weapon[p]
              /\ \A r \in Player : inv'[r] = IF r = p THEN inv[r] \ {i} ELSE inv[r]
            BY <2>2 DEF AddItem, Refuses, TypeOK
        <3>. QED
            BY <1>1, <3>1
    <2>3. ASSUME Accept(p), ~UNCHANGED <<inv, weapon>>
          PROVE  WieldedIsHeld'
        <3>1. CASE DeliverOffers(p, partner[p])
            <4>1. UNCHANGED weapon /\ \A r \in Player : inv[r] \subseteq inv'[r]
                BY <3>1 DEF DeliverOffers, ReceiveOffers, TypeOK
            <4>. QED
                BY <1>2, <4>1
        <3>2. CASE CancelTrade({p, partner[p]})
            BY <1>4, <3>2
        <3>. QED
            BY <2>3, <3>1, <3>2 DEF Accept, ExecuteTrade, invVars
    <2>. QED
        BY <1>4, <1>5, <2>1, <2>2, <2>3
        DEF TradeStep, InitiateTrade, HandleYesNo, AddStack, AddGoldToTrade, Cancel, invVars
<1>6. ASSUME NEW p \in Player, WorldStep(p)
      PROVE  WieldedIsHeld'
    BY <1>3, <1>4, <1>6 DEF WorldStep, HandleDisconnect, HandleChangeChar, EnterWorld
<1>7. ASSUME NEW p \in Player, InventoryStep(p)
      PROVE  WieldedIsHeld'
    <2>1. ASSUME NEW i \in Item, EquipWeapon(p, i)
          PROVE  WieldedIsHeld'
        BY <2>1 DEF EquipWeapon, WieldedIsHeld, TypeOK
    <2>2. ASSUME NEW i \in Item, DropItem(p, i) \/ DestroyItem(p, i)
          PROVE  WieldedIsHeld'
        <3>1. /\ UNCHANGED weapon /\ i # weapon[p]
              /\ \A r \in Player : inv'[r] = IF r = p THEN inv[r] \ {i} ELSE inv[r]
            BY <2>2 DEF DropItem, DestroyItem, TypeOK
        <3>. QED
            BY <1>1, <3>1
    <2>3. ASSUME NEW i \in Item, PickupItem(p, i)
          PROVE  WieldedIsHeld'
        <3>1. UNCHANGED weapon /\ \A r \in Player : inv[r] \subseteq inv'[r]
            BY <2>3 DEF PickupItem, TypeOK
        <3>. QED
            BY <1>2, <3>1
    <2>. QED
        BY <1>3, <1>7, <2>1, <2>2, <2>3 DEF InventoryStep, DropStack, DestroyStack, PickupStack
<1>. QED
    BY <1>3, <1>5, <1>6, <1>7 DEF Next, vars, TickGroundItems, TickGroundStack, invVars

\* A wielded weapon is always in the inventory of the player who wields it.
THEOREM WieldedIsAlwaysHeld == Spec => []WieldedIsHeld
<1>1. Init => WieldedIsHeld
    BY DEF Init, WieldedIsHeld
<1>. QED
    BY <1>1, TypeCorrect, StepWields, PTL DEF Spec

-----------------------------------------------------------------------------
(* The refinement: a loss, an exchange with the ground, an exchange between  *)
(* two players, a grant are the steps of Holdings.                           *)

LEMMA GoodsType ==
    ASSUME TypeOK
    PROVE  Goods!TypeOK
<1>1. ASSUME NEW r \in Player
      PROVE  Held(r) \in SUBSET Item /\ [s \in Stack |-> Wealth(r, s)] \in [Stack -> Nat]
    BY WealthType, OfferFields DEF Held, TypeOK
<1>2. ground \in SUBSET Item /\ groundBag \in [Stack -> Nat]
    BY DEF TypeOK
<1>. QED
    BY <1>1, <1>2 DEF Goods!TypeOK, Goods!Holder

LEMMA GoodsInit ==
    ASSUME Init
    PROVE  Goods!Init
<1>1. TypeOK
    BY InitType
<1>2. \A r \in Player : Held(r) = inv[r]
    BY NoOfferEmpty DEF Init, Held
<1>3. Goods!OneHolder
    BY <1>2 DEF Init, Goods!OneHolder, Goods!Holder
<1>. QED
    BY <1>1, <1>3, GoodsType DEF Init, Goods!Init, NoStacks

LEMMA GoodsNext ==
    ASSUME TypeOK, TypeOK', OneOwner', Effect
    PROVE  Goods!Next
<1>1. Goods!TypeOK'
    BY GoodsType, PTL
<1>2. CASE Loses
    <2>1. Goods!Lose
        BY <1>2 DEF Loses, Goods!Lose, Goods!Holder
    <2>. QED
        BY <1>1, <2>1 DEF Goods!Next
<1>3. ASSUME NEW p \in Player, WithGround(p)
      PROVE  Goods!Next
    <2>1. Goods!Exchange(p, NoPlayer)
        BY <1>3 DEF WithGround, Stays, Goods!Exchange, Goods!Holder
    <2>. QED
        BY <1>1, <2>1 DEF Goods!Next, Goods!Holder
<1>4. ASSUME NEW p \in Player, NEW q \in Player \ {p}, Delivers(p, q)
      PROVE  Goods!Next
    <2>1. /\ Held(p)' \cup Held(q)' = Held(p) \cup Held(q)
          /\ \A s \in Stack : Wealth(p, s)' + Wealth(q, s)' = Wealth(p, s) + Wealth(q, s)
        BY <1>4, DeliveryConserves
    <2>2. Held(p)' \cap Held(q)' = {}
        BY DEF OneOwner
    <2>3. /\ \A r \in Player \ {p, q} : Stays(r)
          /\ UNCHANGED <<ground, groundBag>>
        BY <1>4 DEF Delivers, groundVars
    <2>4. Goods!Exchange(p, q)
        BY <2>1, <2>2, <2>3 DEF Stays, Goods!Exchange, Goods!Holder
    <2>. QED
        BY <1>1, <2>4 DEF Goods!Next, Goods!Holder
<1>5. ASSUME NEW p \in Player, Granted(p)
      PROVE  Goods!Next
    <2>1. Goods!Grant(p)
        BY <1>5 DEF Granted, Stays, Goods!Grant, groundVars
    <2>. QED
        BY <1>1, <2>1 DEF Goods!Next
<1>. QED
    BY <1>2, <1>3, <1>4, <1>5 DEF Effect

\* The trade protocol, with all that players do meanwhile, implements the economy of
\* Holdings, for any numbers of players, objects and stacks.
THEOREM TradeImplementsHoldings == Spec => ImplementsHoldings
<1>1. Init => Goods!Init
    BY GoodsInit
<1>2. TypeOK /\ TypeOK' /\ PairedTrades /\ OneOwner /\ OneOwner' /\ [Next]_vars => Goods!Next
    BY EveryStepHasAnEffect, GoodsNext
<1>. QED
    BY <1>1, <1>2, TypeCorrect, TradesArePaired, ObjectsHaveOneOwner, PTL
    DEF Spec, ImplementsHoldings, Goods!Spec

-----------------------------------------------------------------------------
(* The sheet of a character.                                               *)

HIDE TradeAssumption
USE SheetAssumption

(* Buffs.  The shape changes no statistic, and no buff moves anybody but its own way. *)

Running == {f \in UNION {[D -> Buff] : D \in SUBSET Skill} :
               \A s \in DOMAIN f : /\ f[s].move \in {0, MoveSpeed(s)}
                                   /\ s = "shape" => f[s].delta = 0}

DeltaIn(f) == [s \in DOMAIN f |-> f[s].delta]

LEMMA MoveIs ==
    \A s \in Skill : MoveSpeed(s) \in 0..2 /\ (MoveSpeed(s) = 1 <=> s \in {"haste", "potion"})
                                           /\ (MoveSpeed(s) = 2 <=> s = "slow")
BY DEF MoveSpeed, Skill

LEMMA RunningAre ==
    ASSUME NEW f \in Running
    PROVE  /\ DOMAIN f \subseteq Skill /\ IsFiniteSet(DOMAIN f) /\ f \in [DOMAIN f -> Buff]
           /\ \A s \in DOMAIN f : /\ f[s] \in Buff /\ f[s].delta \in Int /\ f[s].move \in 0..2
                                  /\ f[s].move \in {0, MoveSpeed(s)}
                                  /\ s = "shape" => f[s].delta = 0
           /\ Deltas(f) \in Int /\ Deltas(f) = SumFunctionOnSet(DeltaIn(f), DOMAIN f)
<1>1. DOMAIN f \subseteq Skill /\ f \in [DOMAIN f -> Buff]
    BY DEF Running
<1>2. IsFiniteSet(Skill)
    <2>1. IsFiniteSet({"strong", "spirit", "shape"}) /\ IsFiniteSet({"haste", "potion", "slow"})
        <3>1. ASSUME NEW a, NEW b, NEW d
              PROVE  IsFiniteSet({a, b, d})
            <4>1. IsFiniteSet({a}) /\ IsFiniteSet({b}) /\ IsFiniteSet({d})
                BY FS_Singleton
            <4>2. IsFiniteSet({a} \cup {b})
                BY <4>1, FS_Union
            <4>3. IsFiniteSet(({a} \cup {b}) \cup {d}) /\ ({a} \cup {b}) \cup {d} = {a, b, d}
                BY <4>1, <4>2, FS_Union
            <4>. QED
                BY <4>3
        <3>. QED
            BY <3>1
    <2>2. Skill = {"strong", "spirit", "shape"} \cup {"haste", "potion", "slow"}
        BY DEF Skill
    <2>. QED
        BY <2>1, <2>2, FS_Union
<1>3. IsFiniteSet(DOMAIN f)
    BY <1>1, <1>2, FS_Subset
<1>4. \A s \in DOMAIN f : f[s] \in Buff /\ f[s].delta \in Int /\ f[s].move \in 0..2
    BY <1>1 DEF Buff
<1>5. Deltas(f) = SumFunctionOnSet(DeltaIn(f), DOMAIN f)
    BY DEF Deltas, SumFunction, SumFunctionOnSet, DeltaIn
<1>6. SumFunctionOnSet(DeltaIn(f), DOMAIN f) \in Int
    <2>1. \A s \in DOMAIN f : DeltaIn(f)[s] \in Int
        BY <1>4 DEF DeltaIn
    <2>2. DOMAIN f \in FiniteSubsetsOf(DOMAIN f)
        BY <1>3 DEF FiniteSubsetsOf
    <2>. QED
        BY <2>1, <2>2, SumType
<1>. QED
    BY <1>1, <1>3, <1>4, <1>5, <1>6 DEF Running

LEMMA PartRuns ==
    ASSUME NEW f \in Running, NEW D \in SUBSET DOMAIN f
    PROVE  /\ [s \in D |-> f[s]] \in Running
           /\ Deltas([s \in D |-> f[s]]) = SumFunctionOnSet(DeltaIn(f), D)
<1> DEFINE g == [s \in D |-> f[s]]
<1>1. g \in Running /\ DOMAIN g = D
    BY RunningAre DEF Running
<1>2. Deltas(g) = SumFunctionOnSet(DeltaIn(g), D)
    <2> HIDE DEF g
    <2>. QED
        BY <1>1, RunningAre
<1>3. \A s \in D : DeltaIn(g)[s] = DeltaIn(f)[s]
    BY DEF DeltaIn
<1>4. D \in FiniteSubsetsOf(D)
    BY RunningAre, FS_Subset DEF FiniteSubsetsOf
<1> HIDE DEF g
<1>5. SumFunctionOnSet(DeltaIn(g), D) = SumFunctionOnSet(DeltaIn(f), D)
    BY <1>3, <1>4, SumEqual
<1>. QED
    BY <1>1, <1>2, <1>5 DEF g

\* What ends takes its part of the sum.
LEMMA EndsTake ==
    ASSUME NEW f \in Running, NEW S
    PROVE  /\ Excluding(f, S) \in Running /\ DOMAIN Excluding(f, S) = DOMAIN f \ S
           /\ \A s \in DOMAIN f \ S : Excluding(f, S)[s] = f[s]
           /\ Deltas(f) = Deltas([s \in S \cap DOMAIN f |-> f[s]]) + Deltas(Excluding(f, S))
           /\ Deltas([s \in S \cap DOMAIN f |-> f[s]]) \in Int
<1> DEFINE A == S \cap DOMAIN f
           B == DOMAIN f \ S
<1>1. A \in SUBSET DOMAIN f /\ B \in SUBSET DOMAIN f /\ B = DOMAIN f \ A
    OBVIOUS
<1>2. /\ Excluding(f, S) \in Running
      /\ Deltas(Excluding(f, S)) = SumFunctionOnSet(DeltaIn(f), B)
    BY <1>1, PartRuns DEF Excluding
<1>3. /\ [s \in A |-> f[s]] \in Running
      /\ Deltas([s \in A |-> f[s]]) = SumFunctionOnSet(DeltaIn(f), A)
    BY <1>1, PartRuns
<1>4. SumFunctionOnSet(DeltaIn(f), DOMAIN f)
        = SumFunctionOnSet(DeltaIn(f), A) + SumFunctionOnSet(DeltaIn(f), B)
    <2>1. IsFiniteSet(DOMAIN f) /\ \A s \in DOMAIN f : DeltaIn(f)[s] \in Int
        BY RunningAre DEF DeltaIn
    <2>2. A \in FiniteSubsetsOf(DOMAIN f)
        BY <2>1, FS_Subset DEF FiniteSubsetsOf
    <2> HIDE DEF A, B
    <2>. QED
        BY <1>1, <2>1, <2>2, SumSplit
<1>5. Deltas([s \in A |-> f[s]]) \in Int
    BY <1>3, RunningAre
<1>. QED
    BY <1>2, <1>3, <1>4, <1>5, RunningAre DEF Excluding

\* A buff that did not run adds what it adds.
Fitting(s, v) == v \in Buff /\ v.move \in {0, MoveSpeed(s)} /\ (s = "shape" => v.delta = 0)
Added(v) == v.delta

LEMMA BuffAdds ==
    ASSUME NEW f \in Running, NEW s \in Skill, s \notin DOMAIN f, NEW v, Fitting(s, v)
    PROVE  /\ With(f, s, v) \in Running /\ Deltas(With(f, s, v)) = Deltas(f) + Added(v)
           /\ \A t : t \in DOMAIN With(f, s, v) <=> t \in DOMAIN f \/ t = s
           /\ With(f, s, v)[s] = v /\ \A t \in DOMAIN f : With(f, s, v)[t] = f[t]
<1> DEFINE d == Added(v)
           g == With(f, s, v)
<1>1. d = v.delta /\ d \in Int
    BY DEF Buff, Fitting, Added
<1>2. g \in Running /\ DOMAIN g = DOMAIN f \cup {s} /\ g[s] = v /\ \A t \in DOMAIN f : g[t] = f[t]
    <2>1. DOMAIN g = DOMAIN f \cup {s} /\ g[s] = v /\ \A t \in DOMAIN f : g[t] = f[t]
        BY DEF With
    <2>2. DOMAIN g \in SUBSET Skill /\ g = [t \in DOMAIN g |-> g[t]]
        BY <2>1, RunningAre DEF With
    <2>3. ASSUME NEW t \in DOMAIN g
          PROVE  g[t] \in Buff /\ g[t].move \in {0, MoveSpeed(t)} /\ (t = "shape" => g[t].delta = 0)
        <3>1. CASE t = s
            BY <1>1, <2>1, <3>1 DEF Fitting
        <3>2. CASE t # s
            BY <2>1, <3>2, RunningAre
        <3>. QED
            BY <3>1, <3>2
    <2> HIDE DEF g
    <2>4. g \in [DOMAIN g -> Buff]
        BY <2>2, <2>3
    <2>. QED
        BY <2>1, <2>2, <2>3, <2>4 DEF Running
<1> HIDE DEF g
<1>3. Excluding(g, {s}) = f
    <2>1. DOMAIN g \ {s} = DOMAIN f
        BY <1>2
    <2>. QED
        BY <1>2, <2>1, RunningAre DEF Excluding
<1>4. Deltas([t \in {s} |-> g[t]]) = d
    <2> DEFINE h == [t \in {s} |-> g[t]]
    <2>1. h \in Running /\ Deltas(h) = SumFunctionOnSet(DeltaIn(g), {s})
        BY <1>2, PartRuns
    <2>2. DeltaIn(g)[s] = d /\ d \in Int
        BY <1>1, <1>2 DEF DeltaIn
    <2>3. SumFunctionOnSet(DeltaIn(g), {s}) = d + SumFunctionOnSet(DeltaIn(g), {})
        <3>1. {s} \ {s} = {} /\ s \in {s} /\ IsFiniteSet({s}) /\ \A x \in {s} : DeltaIn(g)[x] \in Int
            BY <2>2, FS_Singleton
        <3>2. SumFunctionOnSet(DeltaIn(g), {s}) = DeltaIn(g)[s] + SumFunctionOnSet(DeltaIn(g), {s} \ {s})
            BY <3>1, SumWithout
        <3>. QED
            BY <2>2, <3>1, <3>2
    <2>4. SumFunctionOnSet(DeltaIn(g), {}) = 0
        BY SumEmpty
    <2> HIDE DEF h
    <2>5. Deltas(h) = d
        BY <2>1, <2>2, <2>3, <2>4
    <2>. QED
        BY <2>5 DEF h
<1>5. {s} \cap DOMAIN g = {s}
    BY <1>2
<1>6. Deltas(g) = Deltas([t \in {s} |-> g[t]]) + Deltas(Excluding(g, {s}))
    BY <1>2, <1>5, EndsTake
<1>7. Deltas(f) \in Int
    BY RunningAre
<1>. QED
    BY <1>1, <1>2, <1>3, <1>4, <1>6, <1>7 DEF g

-----------------------------------------------------------------------------
(* Sheets, without what is worn and with it.                               *)

Bare == [set : BOOLEAN, bonuses : Nat, maxHP : Int, buffs : Running, form : Form \cup {Nil},
         speed : 0..2, hasteItems : Nat, dead : BOOLEAN, ghost : BOOLEAN]
Full == [set : BOOLEAN, bonuses : Nat, maxHP : Int, buffs : Running, form : Form \cup {Nil},
         speed : 0..2, hasteItems : Nat, dead : BOOLEAN, ghost : BOOLEAN, worn : SUBSET Piece]

LEMMA FullParts ==
    ASSUME NEW w \in Full
    PROVE  /\ w.set \in BOOLEAN /\ w.bonuses \in Nat /\ w.maxHP \in Int /\ w.buffs \in Running
           /\ w.form \in Form \cup {Nil} /\ w.speed \in 0..2 /\ w.hasteItems \in Nat
           /\ w.dead \in BOOLEAN /\ w.ghost \in BOOLEAN /\ w.worn \in SUBSET Piece
BY DEF Full

LEMMA BareParts ==
    ASSUME NEW w \in Bare
    PROVE  /\ w.set \in BOOLEAN /\ w.bonuses \in Nat /\ w.maxHP \in Int /\ w.buffs \in Running
           /\ w.form \in Form \cup {Nil} /\ w.speed \in 0..2 /\ w.hasteItems \in Nat
           /\ w.dead \in BOOLEAN /\ w.ghost \in BOOLEAN
BY DEF Bare

\* A sheet b together with what is worn, as Whole takes it.
Clothed(b, W) == [f \in DOMAIN b \cup {"worn"} |-> IF f = "worn" THEN W ELSE b[f]]

LEMMA ClothedIs ==
    ASSUME NEW b \in Bare, NEW W \in SUBSET Piece
    PROVE  LET w == Clothed(b, W)
           IN  /\ w \in Full /\ w.worn = W /\ w.set = b.set /\ w.bonuses = b.bonuses
               /\ w.maxHP = b.maxHP /\ w.buffs = b.buffs /\ w.form = b.form /\ w.speed = b.speed
               /\ w.hasteItems = b.hasteItems /\ w.dead = b.dead /\ w.ghost = b.ghost
<1> DEFINE w == Clothed(b, W)
<1>1. DOMAIN b = {"set", "bonuses", "maxHP", "buffs", "form", "speed", "hasteItems", "dead", "ghost"}
    BY DEF Bare
<1>2. /\ w.worn = W /\ w.set = b.set /\ w.bonuses = b.bonuses
      /\ w.maxHP = b.maxHP /\ w.buffs = b.buffs /\ w.form = b.form /\ w.speed = b.speed
      /\ w.hasteItems = b.hasteItems /\ w.dead = b.dead /\ w.ghost = b.ghost
    BY <1>1 DEF Clothed
<1>3. w \in Full
    BY <1>1, <1>2, BareParts DEF Clothed, Full
<1>. QED
    BY <1>2, <1>3

\* What an operation made of the sheet is the sheet afterwards.
LEMMA BecomeIs ==
    ASSUME NEW w \in Full, Become(w)
    PROVE  c' \in Bare /\ worn' = w.worn /\ Clothed(c', worn') = w
<1> DEFINE b == [f \in DOMAIN w \ {"worn"} |-> w[f]]
<1>1. DOMAIN w = {"set", "bonuses", "maxHP", "buffs", "form", "speed", "hasteItems", "dead", "ghost", "worn"}
    BY DEF Full
<1>2. c' = b /\ worn' = w.worn
    BY DEF Become
<1>3. b \in Bare
    BY <1>1, FullParts DEF Bare
<1>4. Clothed(b, w.worn) = w
  <2>1. w = [f \in DOMAIN w |-> w[f]]
      BY DEF Full
  <2>2. DOMAIN b \cup {"worn"} = DOMAIN w
      BY <1>1
  <2>. QED
      BY <1>1, <2>1, <2>2 DEF Clothed
<1>. QED
    BY <1>2, <1>3, <1>4

\* A sheet is not Nil.
LEMMA BareIsBody ==
    ASSUME NEW x \in Bare
    PROVE  x # Nil /\ \E D \in SUBSET Skill : x \in Bodies(D)
<1>1. x.buffs \in [DOMAIN x.buffs -> Buff] /\ DOMAIN x.buffs \in SUBSET Skill
    BY BareParts, RunningAre
<1>2. x \in Bodies(DOMAIN x.buffs)
    BY <1>1, BareParts DEF Bare, Bodies
<1>. QED
    BY <1>1, <1>2

-----------------------------------------------------------------------------
(* What a sheet must be, and what the operations do to it.                 *)

\* What is left of the statistic without what is worn and runs.
Net(w) == w.maxHP - w.bonuses - Deltas(w.buffs)

Dressed(w) == (w.set => SetPieces \subseteq w.worn) /\ w.bonuses = Gear(w.worn, w.set)
Counted(w) == w.hasteItems = Cardinality(w.worn \cap HasteItem)
Caused(w) ==
    /\ w.speed = 1 => w.hasteItems > 0 \/ \E s \in DOMAIN w.buffs : w.buffs[s].move = 1
    /\ w.speed = 2 => \E s \in DOMAIN w.buffs : w.buffs[s].move = 2
Shaped(w) == w.form # Nil /\ ~w.ghost => Unfit(w, w.form) = {}
Sound(w) == w \in Full /\ Dressed(w) /\ Counted(w) /\ Caused(w)

\* r came from w: the same player with the same statistic of his own.
From(r, w) == Net(r) = Net(w) /\ r.ghost = w.ghost /\ r.dead = w.dead

LEMMA GearIs ==
    ASSUME NEW W \in SUBSET Piece, NEW set \in BOOLEAN
    PROVE  Gear(W, set) \in Nat
<1>1. W \in FiniteSubsetsOf(Piece) /\ \A p \in Piece : Bonus[p] \in Nat
    BY FS_Subset DEF FiniteSubsetsOf
<1>2. SumFunctionOnSet(Bonus, W) \in Nat
    BY <1>1, SumNat
<1>. QED
    BY <1>2 DEF Gear

\* applyEquipStats.
LEMMA RecalcFits ==
    ASSUME NEW w \in Full, w.set => SetPieces \subseteq w.worn
    PROVE  LET r == Recalc(w)
           IN  /\ r \in Full /\ Dressed(r) /\ From(r, w)
               /\ r.worn = w.worn /\ r.set = w.set /\ r.buffs = w.buffs /\ r.form = w.form
               /\ r.speed = w.speed /\ r.hasteItems = w.hasteItems
<1> DEFINE neo == Gear(w.worn, w.set)
           r == [w EXCEPT !.maxHP = w.maxHP + neo - w.bonuses, !.bonuses = neo]
<1>1. neo \in Nat
    BY FullParts, GearIs
<1>2. Recalc(w) = r
    BY DEF Recalc, Full
<1> HIDE DEF neo
<1>3. r \in Full
  <2> DEFINE m == w.maxHP + neo - w.bonuses
  <2>1. m \in Int
      BY <1>1, FullParts
  <2> HIDE DEF m
  <2>2. [w EXCEPT !.maxHP = m, !.bonuses = neo] \in Full
      BY <1>1, <2>1, Zenon DEF Full
  <2>. QED
      BY <2>2 DEF m
<1>4. /\ r.worn = w.worn /\ r.set = w.set /\ r.buffs = w.buffs /\ r.form = w.form
      /\ r.speed = w.speed /\ r.hasteItems = w.hasteItems /\ r.ghost = w.ghost /\ r.dead = w.dead
      /\ r.maxHP = w.maxHP + neo - w.bonuses /\ r.bonuses = neo
    BY DEF Full
<1> HIDE DEF r
<1>5. Net(r) = Net(w)
    BY <1>1, <1>4, FullParts, RunningAre DEF Net
<1>. QED
    BY <1>2, <1>3, <1>4, <1>5 DEF Dressed, From, neo

\* A set that does not include movers of speed may end without anybody's noticing.
LEMMA CauseStays ==
    ASSUME NEW w \in Full, NEW f \in Running, Caused(w),
           \A s \in DOMAIN w.buffs : w.buffs[s].move = 0 \/ (s \in DOMAIN f /\ f[s] = w.buffs[s])
    PROVE  Caused([w EXCEPT !.buffs = f])
<1>1. /\ [w EXCEPT !.buffs = f].speed = w.speed /\ [w EXCEPT !.buffs = f].buffs = f
      /\ [w EXCEPT !.buffs = f].hasteItems = w.hasteItems
    BY DEF Full
<1>. QED
    BY <1>1 DEF Caused

\* removeBuffAndRevert.
LEMMA RevertFits ==
    ASSUME NEW w \in Full, NEW S
    PROVE  LET r == Revert(w, S)
           IN  /\ r \in Full /\ From(r, w) /\ r.buffs = Excluding(w.buffs, S)
               /\ r.worn = w.worn /\ r.set = w.set /\ r.form = w.form /\ r.bonuses = w.bonuses
               /\ r.speed = w.speed /\ r.hasteItems = w.hasteItems
<1> DEFINE d == Deltas([s \in S \cap DOMAIN w.buffs |-> w.buffs[s]])
           f == Excluding(w.buffs, S)
           r == [w EXCEPT !.maxHP = w.maxHP - d, !.buffs = f]
<1>1. d \in Int /\ f \in Running /\ Deltas(w.buffs) = d + Deltas(f) /\ Deltas(f) \in Int
    <2>1. w.buffs \in Running
        BY FullParts
    <2>2. d \in Int /\ f \in Running /\ Deltas(w.buffs) = d + Deltas(f)
        BY <2>1, EndsTake
    <2> HIDE DEF f
    <2>. QED
        BY <2>2, RunningAre
<1>2. Revert(w, S) = r
    BY DEF Revert, Full
<1> HIDE DEF d, f
<1>3. r \in Full
  <2> DEFINE m == w.maxHP - d
  <2>1. m \in Int
      BY <1>1, FullParts
  <2> HIDE DEF m
  <2>2. [w EXCEPT !.maxHP = m, !.buffs = f] \in Full
      BY <1>1, <2>1, Zenon DEF Full
  <2>. QED
      BY <2>2 DEF m
<1>4. /\ r.worn = w.worn /\ r.set = w.set /\ r.buffs = f /\ r.form = w.form
      /\ r.speed = w.speed /\ r.hasteItems = w.hasteItems /\ r.ghost = w.ghost /\ r.dead = w.dead
      /\ r.maxHP = w.maxHP - d /\ r.bonuses = w.bonuses
    BY DEF Full
<1> HIDE DEF r
<1>5. Net(r) = Net(w)
    BY <1>1, <1>4, FullParts DEF Net
<1>. QED
    BY <1>2, <1>3, <1>4, <1>5 DEF From, f

\* The shape is no part of the statistic.
LEMMA ShapeAddsNothing ==
    ASSUME NEW b \in Running
    PROVE  Excluding(b, {"shape"}) \in Running /\ Deltas(Excluding(b, {"shape"})) = Deltas(b)
<1> DEFINE A == {"shape"} \cap DOMAIN b
           g == [s \in A |-> b[s]]
           f == Excluding(b, {"shape"})
<1>1. f \in Running /\ Deltas(b) = Deltas(g) + Deltas(f)
    BY EndsTake
<1>2. Deltas(g) = SumFunctionOnSet(DeltaIn(b), A)
  <2>1. A \in SUBSET DOMAIN b
      OBVIOUS
  <2> HIDE DEF A
  <2>. QED
      BY <2>1, PartRuns
<1>3. \A s \in A : DeltaIn(b)[s] = 0
    BY RunningAre DEF DeltaIn
<1>4. IsFiniteSet(A)
    BY RunningAre, FS_Subset
<1>5. SumFunctionOnSet(DeltaIn(b), A) = 0
  <2> HIDE DEF A
  <2>. QED
      BY <1>3, <1>4, SumOfZeros
<1> HIDE DEF f, g
<1>6. Deltas(f) \in Int
    BY <1>1, RunningAre
<1>7. f \in Running /\ Deltas(f) = Deltas(b)
    BY <1>1, <1>2, <1>5, <1>6
<1>. QED
    BY <1>7 DEF f

\* UndoPoly.
LEMMA UndoPolyFits ==
    ASSUME NEW w \in Full
    PROVE  LET r == UndoPoly(w)
           IN  /\ r \in Full /\ From(r, w) /\ r.form = Nil
               /\ r.worn = w.worn /\ r.set = w.set /\ r.bonuses = w.bonuses
               /\ r.speed = w.speed /\ r.hasteItems = w.hasteItems
               /\ Caused(w) => Caused(r)
<1> DEFINE f == Excluding(w.buffs, {"shape"})
           r == [w EXCEPT !.form = Nil, !.buffs = f]
<1>0. w.buffs \in Running
    BY FullParts
<1>1. CASE w.form = Nil
    BY <1>1 DEF UndoPoly, From
<1>2. CASE w.form # Nil
  <2>1. f \in Running /\ Deltas(f) = Deltas(w.buffs)
      BY <1>0, ShapeAddsNothing
  <2>2. UndoPoly(w) = r
      BY <1>2 DEF UndoPoly, Full
  <2>3. Caused(w) => Caused([w EXCEPT !.buffs = f])
    <3>1. \A s \in DOMAIN w.buffs : w.buffs[s].move = 0 \/ (s \in DOMAIN f /\ f[s] = w.buffs[s])
      <4>1. MoveSpeed("shape") = 0
          BY DEF MoveSpeed
      <4>. QED
          BY <1>0, <4>1, RunningAre DEF Excluding
    <3> HIDE DEF f
    <3>. QED
        BY <2>1, <3>1, CauseStays
  <2> HIDE DEF f
  <2>4. r \in Full
      BY <2>1, Zenon DEF Full
  <2>5. /\ r.worn = w.worn /\ r.set = w.set /\ r.buffs = f /\ r.form = Nil
        /\ r.speed = w.speed /\ r.hasteItems = w.hasteItems /\ r.ghost = w.ghost /\ r.dead = w.dead
        /\ r.maxHP = w.maxHP /\ r.bonuses = w.bonuses
      BY DEF Full
  <2>6. LET q == [w EXCEPT !.buffs = f]
        IN  q.speed = r.speed /\ q.hasteItems = r.hasteItems /\ q.buffs = r.buffs
      BY DEF Full
  <2> HIDE DEF r
  <2>7. Caused(w) => Caused(r)
      BY <2>3, <2>6 DEF Caused
  <2>8. From(r, w)
      BY <2>1, <2>5 DEF From, Net
  <2>. QED
      BY <2>2, <2>4, <2>5, <2>7, <2>8
<1>. QED
    BY <1>1, <1>2

\* UnequipSlot.
LEMMA TakeOffFits ==
    ASSUME NEW w, Sound(w), NEW p \in w.worn
    PROVE  LET r == TakeOff(p, w)
           IN  /\ Sound(r) /\ From(r, w)
               /\ r.worn = w.worn \ {p} /\ r.form \in {w.form, Nil}
<1> DEFINE W == w.worn \ {p}
           breaks == w.set /\ ~(SetPieces \subseteq W)
           items == IF p \in HasteItem /\ w.hasteItems > 0 THEN w.hasteItems - 1 ELSE w.hasteItems
           speed == IF p \in HasteItem /\ items = 0 THEN 0 ELSE w.speed
           set == w.set /\ ~breaks
           off == [w EXCEPT !.worn = W]
           slowed == [off EXCEPT !.hasteItems = items, !.set = set, !.speed = speed]
<1>0. w \in Full /\ Counted(w) /\ Caused(w)
    BY DEF Sound
<1>1. W \in SUBSET Piece /\ items \in Nat /\ set \in BOOLEAN /\ speed \in 0..2
    BY <1>0, FullParts
<1>2. TakeOff(p, w) = IF breaks /\ SetForm # Nil THEN UndoPoly(Recalc(slowed)) ELSE Recalc(slowed)
    BY <1>0 DEF TakeOff, Full
<1>3. set => SetPieces \subseteq W
    OBVIOUS
<1>4. items = Cardinality(W \cap HasteItem)
  <2>1. IsFiniteSet(w.worn \cap HasteItem) /\ w.hasteItems = Cardinality(w.worn \cap HasteItem)
      BY <1>0, FullParts, FS_Subset DEF Counted
  <2>2. Cardinality((w.worn \cap HasteItem) \ {p})
          = IF p \in HasteItem THEN w.hasteItems - 1 ELSE w.hasteItems
    <3> DEFINE A == w.worn \cap HasteItem
    <3>1. IsFiniteSet(A) /\ w.hasteItems = Cardinality(A) /\ (p \in A <=> p \in HasteItem)
        BY <2>1
    <3> HIDE DEF A
    <3>2. Cardinality(A \ {p}) = IF p \in A THEN Cardinality(A) - 1 ELSE Cardinality(A)
        BY <3>1, FS_RemoveElement
    <3>3. Cardinality(A \ {p}) = IF p \in HasteItem THEN w.hasteItems - 1 ELSE w.hasteItems
        BY <3>1, <3>2
    <3>. QED
        BY <3>3 DEF A
  <2>3. (w.worn \cap HasteItem) \ {p} = W \cap HasteItem
      OBVIOUS
  <2>4. p \in HasteItem => w.hasteItems # 0
      BY <2>1, FS_EmptySet
  <2>5. w.hasteItems \in Nat
      BY <1>0, FullParts
  <2>. QED
      BY <2>2, <2>3, <2>4, <2>5
<1>5. Caused([hasteItems |-> items, speed |-> speed, buffs |-> w.buffs])
  <2>1. w.hasteItems > 0 /\ speed = 1 => items > 0
      BY <1>0, <1>1, FullParts
  <2>2. speed \in {0, w.speed}
      OBVIOUS
  <2> HIDE DEF items, speed
  <2>. QED
      BY <1>0, <1>1, <2>1, <2>2 DEF Caused
<1> HIDE DEF items, set, speed, W
<1>6. off \in Full
    BY <1>0, <1>1, Zenon DEF Full
<1>7. slowed \in Full
  <2> HIDE DEF off
  <2>. QED
      BY <1>1, <1>6, Zenon DEF Full
<1>8. /\ slowed.worn = W /\ slowed.set = set /\ slowed.buffs = w.buffs /\ slowed.form = w.form
      /\ slowed.speed = speed /\ slowed.hasteItems = items /\ slowed.ghost = w.ghost
      /\ slowed.dead = w.dead /\ slowed.maxHP = w.maxHP /\ slowed.bonuses = w.bonuses
    BY <1>0 DEF Full
<1> HIDE DEF slowed, off
<1>9. From(slowed, w)
    BY <1>8 DEF From, Net
<1> DEFINE q == Recalc(slowed)
<1>10. /\ q \in Full /\ Dressed(q) /\ From(q, slowed)
       /\ q.worn = W /\ q.set = set /\ q.form = w.form
       /\ q.speed = speed /\ q.hasteItems = items /\ q.buffs = w.buffs
    BY <1>3, <1>7, <1>8, RecalcFits
<1> HIDE DEF q
<1>11. Sound(q) /\ From(q, w)
    BY <1>4, <1>5, <1>9, <1>10 DEF Sound, Counted, Caused, From
<1> DEFINE u == UndoPoly(q)
<1>12. /\ u \in Full /\ From(u, q) /\ u.form = Nil
       /\ u.worn = W /\ u.set = q.set /\ u.bonuses = q.bonuses
       /\ u.hasteItems = q.hasteItems /\ Caused(u)
    BY <1>10, <1>11, UndoPolyFits DEF Sound
<1> HIDE DEF u
<1>13. Sound(u) /\ From(u, w)
    BY <1>10, <1>11, <1>12 DEF Sound, Dressed, Counted, From
<1>14. TakeOff(p, w) \in {q, u}
    BY <1>2 DEF q, u
<1>. QED
    BY <1>10, <1>11, <1>12, <1>13, <1>14 DEF W

\* What may come of w when the pieces s are taken off.
Undressed(w, s) ==
    {r \in Full : Sound(r) /\ From(r, w) /\ r.worn = w.worn \ s /\ r.form \in {w.form, Nil}}

LEMMA TakeOffAllFits ==
    ASSUME NEW w, Sound(w), NEW S
    PROVE  TakeOffAll(w, S) \in Undressed(w, S)
<1> DEFINE T == S \cap w.worn
           choose == [s \in SUBSET T |-> One(s)]
           Q == [s \in SUBSET T |-> Undressed(w, s)]
           f == [s \in SUBSET T |-> [v \in Q[s \ {choose[s]}] |-> TakeOff(choose[s], v)]]
           Off(k) == k = [s \in SUBSET T |->
                            IF s = {} THEN w ELSE TakeOff(CHOOSE x \in s : TRUE,
                                                          k[s \ {CHOOSE x \in s : TRUE}])]
           Down(k) == k = [s \in SUBSET T |-> IF s = {} THEN w ELSE TakeOff(One(s), k[s \ {One(s)}])]
           h == CHOOSE k : Off(k)
<1>0. w \in Full
    BY DEF Sound
<1>1. IsFiniteSet(T)
    BY <1>0, FullParts, FS_Subset
<1>2. TakeOffAll(w, S) = h[T]
    BY DEF TakeOffAll, FoldSet, MapThenFoldSet
<1>3. w \in Q[{}]
    BY <1>0 DEF Undressed, From
<1>4. ASSUME NEW s \in SUBSET T, s # {}
      PROVE  /\ choose[s] \in s /\ choose[s] = One(s)
             /\ \A v \in Q[s \ {choose[s]}] : f[s][v] \in Q[s] /\ f[s][v] = TakeOff(choose[s], v)
    <2> DEFINE p == choose[s]
               R == s \ {p}
    <2>1. p \in s /\ R \in SUBSET T /\ p = One(s)
        BY <1>4, OneIsIn
    <2>2. ASSUME NEW v \in Q[R]
          PROVE  TakeOff(p, v) \in Q[s]
        <3>1. Sound(v) /\ From(v, w) /\ v.worn = w.worn \ R /\ v.form \in {w.form, Nil}
            BY <2>1 DEF Undressed
        <3>2. p \in v.worn
            BY <2>1, <3>1
        <3>3. v.worn \ {p} = w.worn \ s
            BY <2>1, <3>1
        <3> DEFINE r == TakeOff(p, v)
        <3>4. Sound(r) /\ From(r, v) /\ r.worn = v.worn \ {p} /\ r.form \in {v.form, Nil}
            <4> HIDE DEF p
            <4>. QED
                BY <3>1, <3>2, TakeOffFits
        <3> HIDE DEF r, p
        <3>5. r \in Undressed(w, s)
            BY <3>1, <3>3, <3>4 DEF Undressed, From, Sound
        <3>. QED
            BY <3>5 DEF r
    <2>3. \A v \in Q[R] : f[s][v] = TakeOff(p, v)
        OBVIOUS
    <2>. QED
        BY <2>1, <2>2, <2>3
<1> HIDE DEF T, choose, Q, f
<1>a. Leads(f, choose, Q, T)
    BY <1>4 DEF Leads
<1>5. PICK k : FoldsUp(k, w, f, choose, T) /\ \A s \in SUBSET T : k[s] \in Q[s]
    BY <1>1, <1>3, <1>a, FoldFits
<1>b. \A g : Off(g) <=> Down(g)
    BY DEF One
<1>6. Down(k)
    <2>1. k = [s \in SUBSET T |-> IF s = {} THEN w ELSE f[s][k[s \ {choose[s]}]]]
        BY <1>5 DEF FoldsUp
    <2>2. ASSUME NEW s \in SUBSET T, s # {}
          PROVE  f[s][k[s \ {choose[s]}]] = TakeOff(One(s), k[s \ {One(s)}])
        <3>1. s \ {choose[s]} \in SUBSET T
            OBVIOUS
        <3>2. k[s \ {choose[s]}] \in Q[s \ {choose[s]}]
            BY <1>5, <3>1
        <3>. QED
            BY <1>4, <2>2, <3>2
    <2>. QED
        BY <2>1, <2>2
<1>7. Down(h)
    <2> HIDE DEF Off, Down
    <2>. QED
        BY <1>b, <1>6
<1>8. h[{}] = w /\ \A s \in SUBSET T : s # {} => h[s] = TakeOff(One(s), h[s \ {One(s)}])
    <2> HIDE DEF h
    <2>1. {} \in SUBSET T
        OBVIOUS
    <2>. QED
        BY <1>7, <2>1
<1> HIDE DEF h, Off, Down
<1>9. KeepsTo(h, f, choose, Q, T)
    BY <1>4, <1>8 DEF KeepsTo
<1>c. h[{}] = w
    BY <1>8
<1>d. \A s \in SUBSET T : h[s] \in Q[s]
    BY <1>1, <1>3, <1>a, <1>9, <1>c, FoldKeeps
<1>10. h[T] \in Q[T]
    BY <1>d
<1>11. Q[T] = Undressed(w, S)
    BY DEF Q, T, Undressed
<1>. QED
    BY <1>2, <1>10, <1>11

LEMMA ShapeFits ==
    ASSUME NEW w \in Full
    PROVE  LET r == [w EXCEPT !.buffs = With(w.buffs, "shape", Still)]
           IN  /\ r \in Full /\ From(r, w) /\ r.form = w.form
               /\ r.worn = w.worn /\ r.set = w.set /\ r.bonuses = w.bonuses
               /\ r.speed = w.speed /\ r.hasteItems = w.hasteItems
               /\ Caused(w) => Caused(r)
<1> DEFINE g == Excluding(w.buffs, {"shape"})
           f == With(w.buffs, "shape", Still)
           r == [w EXCEPT !.buffs = f]
<1>0. w.buffs \in Running
    BY FullParts
<1>1. g \in Running /\ Deltas(g) = Deltas(w.buffs) /\ "shape" \notin DOMAIN g
    BY <1>0, ShapeAddsNothing DEF Excluding
<1>2. With(g, "shape", Still) = f
    BY <1>0 DEF With, Excluding
<1>3. f \in Running /\ Deltas(f) = Deltas(w.buffs)
  <2>1. "shape" \in Skill /\ Fitting("shape", Still) /\ Added(Still) = 0 /\ Deltas(g) \in Int
      BY <1>1, RunningAre DEF Skill, Still, Buff, Fitting, Added
  <2> HIDE DEF g, f
  <2>2. With(g, "shape", Still) \in Running
        /\ Deltas(With(g, "shape", Still)) = Deltas(g) + Added(Still)
      BY <1>1, <2>1, BuffAdds
  <2>. QED
      BY <1>1, <1>2, <2>1, <2>2
<1>4. Caused(w) => Caused(r)
  <2>1. \A s \in DOMAIN w.buffs : w.buffs[s].move = 0 \/ (s \in DOMAIN f /\ f[s] = w.buffs[s])
    <3>1. MoveSpeed("shape") = 0
        BY DEF MoveSpeed
    <3>. QED
        BY <1>0, <3>1, RunningAre DEF With
  <2> HIDE DEF f
  <2>. QED
      BY <1>3, <2>1, CauseStays
<1> HIDE DEF f
<1>5. r \in Full
    BY <1>3, Zenon DEF Full
<1>6. /\ r.worn = w.worn /\ r.set = w.set /\ r.buffs = f /\ r.form = w.form
      /\ r.speed = w.speed /\ r.hasteItems = w.hasteItems /\ r.ghost = w.ghost /\ r.dead = w.dead
      /\ r.maxHP = w.maxHP /\ r.bonuses = w.bonuses
    BY DEF Full
<1> HIDE DEF r
<1>7. From(r, w)
    BY <1>3, <1>6 DEF From, Net
<1>8. /\ r \in Full /\ From(r, w) /\ r.form = w.form
      /\ r.worn = w.worn /\ r.set = w.set /\ r.bonuses = w.bonuses
      /\ r.speed = w.speed /\ r.hasteItems = w.hasteItems
      /\ Caused(w) => Caused(r)
    BY <1>4, <1>5, <1>6, <1>7
<1>. QED
    BY <1>8 DEF r, f

\* applyPoly.
LEMMA ApplyPolyFits ==
    ASSUME NEW w, Sound(w), NEW f \in Form, NEW timed \in BOOLEAN
    PROVE  LET r == ApplyPoly(w, f, timed)
           IN  Sound(r) /\ Shaped(r) /\ From(r, w)
<1> DEFINE u == UndoPoly(w)
           shaped == [u EXCEPT !.form = f]
           d == TakeOffAll(shaped, Unfit(shaped, f))
           t == [d EXCEPT !.buffs = With(d.buffs, "shape", Still)]
<1>0. w \in Full
    BY DEF Sound
<1>1. /\ u \in Full /\ From(u, w)
      /\ u.worn = w.worn /\ u.set = w.set /\ u.bonuses = w.bonuses
      /\ u.hasteItems = w.hasteItems /\ Caused(u)
    BY <1>0, UndoPolyFits DEF Sound
<1> HIDE DEF u
<1>2. shaped \in Full
    BY <1>1, Zenon DEF Full
<1>3. /\ shaped.worn = u.worn /\ shaped.set = u.set /\ shaped.buffs = u.buffs /\ shaped.form = f
      /\ shaped.speed = u.speed /\ shaped.hasteItems = u.hasteItems /\ shaped.ghost = u.ghost
      /\ shaped.dead = u.dead /\ shaped.maxHP = u.maxHP /\ shaped.bonuses = u.bonuses
    BY <1>1 DEF Full
<1> HIDE DEF shaped
<1>4. Sound(shaped) /\ From(shaped, w)
    BY <1>1, <1>2, <1>3 DEF Sound, Dressed, Counted, Caused, From, Net
<1>5. d \in Undressed(shaped, Unfit(shaped, f))
    BY <1>4, TakeOffAllFits
<1> HIDE DEF d
<1>6. /\ d \in Full /\ Sound(d) /\ From(d, w) /\ d.worn = shaped.worn \ Unfit(shaped, f)
      /\ d.form \in {f, Nil}
    BY <1>3, <1>4, <1>5 DEF Undressed, From
<1>7. Shaped(d)
    BY <1>6 DEF Shaped, Unfit
<1>8. /\ t \in Full /\ From(t, d) /\ t.form = d.form
      /\ t.worn = d.worn /\ t.set = d.set /\ t.bonuses = d.bonuses
      /\ t.speed = d.speed /\ t.hasteItems = d.hasteItems /\ Caused(t)
    BY <1>6, ShapeFits DEF Sound
<1>9. ApplyPoly(w, f, timed) = IF timed THEN t ELSE d
    BY <1>6 DEF ApplyPoly, u, shaped, d, Full
<1> HIDE DEF t
<1>10. Sound(t) /\ Shaped(t) /\ From(t, w)
    BY <1>6, <1>7, <1>8 DEF Sound, Dressed, Counted, Shaped, Unfit, From
<1>. QED
    BY <1>6, <1>7, <1>9, <1>10

\* EquipWeapon, EquipArmor.
LEMMA PutOnFits ==
    ASSUME NEW w, Sound(w), Shaped(w), NEW p \in Piece, p \notin w.worn,
           w.form = Nil \/ p \in Fits[w.form]
    PROVE  LET r == PutOn(p, w)
           IN  Sound(r) /\ Shaped(r) /\ From(r, w)
<1> DEFINE b == TakeOffAll(w, Rivals(p))
           W == b.worn \cup {p}
           completes == p \in SetPieces /\ SetPieces \subseteq W /\ ~b.set
           set == b.set \/ completes
           on == [b EXCEPT !.worn = W]
           neo == [on EXCEPT !.set = set]
           d == Recalc(neo)
           shapes == completes /\ SetForm # Nil /\ ~w.dead
           s == IF shapes THEN ApplyPoly(d, SetForm, FALSE) ELSE d
           v == Revert(s, {"haste", "potion", "slow"})
           n == v.hasteItems + 1
           h == [v EXCEPT !.hasteItems = n, !.speed = 1]
<1>1. b \in Undressed(w, Rivals(p))
    BY TakeOffAllFits
<1> HIDE DEF b
<1>2. /\ b \in Full /\ Sound(b) /\ From(b, w) /\ b.worn = w.worn \ Rivals(p)
      /\ b.form \in {w.form, Nil}
    BY <1>1 DEF Undressed
<1>3. W \in SUBSET Piece /\ set \in BOOLEAN /\ (set => SetPieces \subseteq W)
    BY <1>2, FullParts DEF Sound, Dressed
<1>4. PutOn(p, w) = IF p \in HasteItem THEN h ELSE s
  <2>1. /\ PutOn(p, w) =
             LET o == [b EXCEPT !.worn = b.worn \cup {p}]
                 full == p \in SetPieces /\ SetPieces \subseteq o.worn /\ ~o.set
                 dr == Recalc([o EXCEPT !.set = o.set \/ full])
                 sh == full /\ SetForm # Nil /\ ~w.dead
                 x == IF sh THEN ApplyPoly(dr, SetForm, FALSE) ELSE dr
                 y == Revert(x, {"haste", "potion", "slow"})
             IN  IF p \in HasteItem THEN [y EXCEPT !.hasteItems = y.hasteItems + 1, !.speed = 1] ELSE x
      BY DEF PutOn, b
  <2>2. on.worn = W /\ on.set = b.set
      BY <1>2 DEF Full
  <2>. QED
      BY <2>1, <2>2
<1> HIDE DEF W, set
<1>5. on \in Full
    BY <1>2, <1>3, Zenon DEF Full
<1>6. neo \in Full
  <2> HIDE DEF on
  <2>. QED
      BY <1>3, <1>5, Zenon DEF Full
<1>7. /\ neo.worn = W /\ neo.set = set /\ neo.buffs = b.buffs /\ neo.form = b.form
      /\ neo.speed = b.speed /\ neo.hasteItems = b.hasteItems /\ neo.ghost = b.ghost
      /\ neo.dead = b.dead /\ neo.maxHP = b.maxHP /\ neo.bonuses = b.bonuses
    BY <1>2 DEF Full
<1> HIDE DEF neo, on
<1>8. From(neo, b) /\ Caused(neo)
    BY <1>2, <1>7 DEF From, Net, Sound, Caused
<1>9. /\ d \in Full /\ Dressed(d) /\ From(d, neo)
      /\ d.worn = W /\ d.set = set /\ d.buffs = b.buffs /\ d.form = b.form
      /\ d.speed = b.speed /\ d.hasteItems = b.hasteItems
    BY <1>3, <1>6, <1>7, RecalcFits
<1> HIDE DEF d
<1>10. From(d, w) /\ Caused(d)
    BY <1>2, <1>7, <1>8, <1>9 DEF From, Caused
<1>11. Shaped(d)
  <2>1. d.worn \subseteq w.worn \cup {p} /\ d.form \in {w.form, Nil} /\ d.ghost = w.ghost
      BY <1>2, <1>9, <1>10 DEF W, From
  <2>. QED
      BY <2>1 DEF Shaped, Unfit
<1>12. /\ IsFiniteSet(b.worn \cap HasteItem) /\ b.hasteItems = Cardinality(b.worn \cap HasteItem)
       /\ p \notin b.worn
    BY <1>2, FullParts, FS_Subset DEF Sound, Counted
<1>13. CASE p \notin HasteItem
  <2>1. W \cap HasteItem = b.worn \cap HasteItem
      BY <1>13 DEF W
  <2>2. Sound(d)
      BY <1>9, <1>10, <1>12, <2>1 DEF Sound, Counted
  <2>3. shapes => /\ Sound(ApplyPoly(d, SetForm, FALSE)) /\ Shaped(ApplyPoly(d, SetForm, FALSE))
                  /\ From(ApplyPoly(d, SetForm, FALSE), d)
      BY <2>2, ApplyPolyFits
  <2>4. Sound(s) /\ Shaped(s) /\ From(s, w)
      BY <1>10, <1>11, <2>2, <2>3 DEF From
  <2>. QED
      BY <1>4, <1>13, <2>4
<1>14. CASE p \in HasteItem
  <2>1. s = d
      BY <1>14
  <2> HIDE DEF s
  <2>2. /\ v \in Full /\ From(v, d) /\ v.worn = W /\ v.set = d.set /\ v.form = d.form
        /\ v.bonuses = d.bonuses /\ v.hasteItems = b.hasteItems
      BY <1>9, <2>1, RevertFits
  <2> HIDE DEF v
  <2>3. n \in Nat /\ n > 0
      BY <2>2, FullParts
  <2>4. n = Cardinality(W \cap HasteItem)
    <3> DEFINE A == b.worn \cap HasteItem
    <3>1. IsFiniteSet(A) /\ b.hasteItems = Cardinality(A) /\ p \notin A /\ W \cap HasteItem = A \cup {p}
        BY <1>12, <1>14 DEF W
    <3> HIDE DEF A
    <3>2. Cardinality(A \cup {p}) = Cardinality(A) + 1
        BY <3>1, FS_AddElement
    <3>. QED
        BY <2>2, <3>1, <3>2
  <2> HIDE DEF n
  <2>5. h \in Full
      BY <2>2, <2>3, 1 \in 0..2, Zenon DEF Full
  <2>6. /\ h.worn = v.worn /\ h.set = v.set /\ h.buffs = v.buffs /\ h.form = v.form
        /\ h.speed = 1 /\ h.hasteItems = n /\ h.ghost = v.ghost
        /\ h.dead = v.dead /\ h.maxHP = v.maxHP /\ h.bonuses = v.bonuses
      BY <2>2 DEF Full
  <2> HIDE DEF h
  <2>7. From(h, w) /\ Dressed(h) /\ Counted(h) /\ Caused(h) /\ Shaped(h)
    <3>1. From(h, w)
        BY <1>10, <2>2, <2>6 DEF From, Net
    <3>2. Dressed(h)
        BY <1>9, <2>2, <2>6 DEF Dressed
    <3>3. Counted(h) /\ Caused(h)
        BY <2>2, <2>3, <2>4, <2>6 DEF Counted, Caused
    <3>4. Shaped(h)
        BY <1>9, <1>11, <2>2, <2>6 DEF Shaped, Unfit, From
    <3>. QED
        BY <3>1, <3>2, <3>3, <3>4
  <2>. QED
      BY <1>4, <1>14, <2>5, <2>7 DEF Sound
<1>. QED
    BY <1>13, <1>14

-----------------------------------------------------------------------------
(* Buffs that begin and end.                                               *)

\* removeBuffAndRevert of the buffs that run out.
LEMMA EndedFits ==
    ASSUME NEW w, Sound(w), NEW S \in SUBSET DOMAIN w.buffs
    PROVE  LET r == Ended(w, S)
           IN  Sound(r) /\ From(r, w) /\ r.worn = w.worn /\ r.form \in {w.form, Nil}
<1> DEFINE moved == \E s \in S : w.buffs[s].move # 0
           e == Revert(w, S)
           v == IF moved THEN 0 ELSE e.speed
           d == [e EXCEPT !.speed = v]
           u == UndoPoly(d)
<1>0. w \in Full /\ Dressed(w) /\ Counted(w) /\ Caused(w) /\ w.buffs \in Running
    BY FullParts DEF Sound
<1>1. /\ e \in Full /\ From(e, w) /\ e.buffs = Excluding(w.buffs, S)
      /\ e.worn = w.worn /\ e.set = w.set /\ e.form = w.form /\ e.bonuses = w.bonuses
      /\ e.speed = w.speed /\ e.hasteItems = w.hasteItems
    BY <1>0, RevertFits
<1>2. Ended(w, S) = IF "shape" \in S THEN u ELSE d
    BY DEF Ended
<1>3. /\ DOMAIN Excluding(w.buffs, S) = DOMAIN w.buffs \ S
      /\ \A s \in DOMAIN w.buffs \ S : Excluding(w.buffs, S)[s] = w.buffs[s]
    BY <1>0, EndsTake
<1> HIDE DEF e
<1>4. v \in 0..2 /\ v \in {0, w.speed}
    BY <1>1, FullParts
<1>5. Caused([hasteItems |-> w.hasteItems, speed |-> v, buffs |-> e.buffs])
  <2>1. CASE moved
      BY <2>1 DEF Caused
  <2>2. CASE ~moved
    <3>1. v = w.speed /\ \A s \in DOMAIN w.buffs :
                w.buffs[s].move # 0 => s \in DOMAIN e.buffs /\ e.buffs[s] = w.buffs[s]
        BY <1>1, <1>3, <2>2
    <3> HIDE DEF v
    <3>. QED
        BY <1>0, <3>1 DEF Caused
  <2>. QED
      BY <2>1, <2>2
<1> HIDE DEF v
<1>6. d \in Full
    BY <1>1, <1>4, Zenon DEF Full
<1>7. /\ d.worn = w.worn /\ d.set = w.set /\ d.buffs = e.buffs /\ d.form = w.form
      /\ d.speed = v /\ d.hasteItems = w.hasteItems /\ d.ghost = e.ghost
      /\ d.dead = e.dead /\ d.maxHP = e.maxHP /\ d.bonuses = w.bonuses
    BY <1>1 DEF Full
<1> HIDE DEF d
<1>8. Sound(d) /\ From(d, w)
  <2>1. From(d, w)
      BY <1>1, <1>7 DEF From, Net
  <2>2. Caused(d)
      BY <1>5, <1>7 DEF Caused
  <2>. QED
      BY <1>0, <1>6, <1>7, <2>1, <2>2 DEF Sound, Dressed, Counted
<1>9. /\ u \in Full /\ From(u, d) /\ u.form = Nil
      /\ u.worn = d.worn /\ u.set = d.set /\ u.bonuses = d.bonuses
      /\ u.hasteItems = d.hasteItems /\ Caused(u)
    BY <1>8, UndoPolyFits DEF Sound
<1> HIDE DEF u
<1>10. Sound(u) /\ From(u, w)
    BY <1>8, <1>9 DEF Sound, Dressed, Counted, From
<1>. QED
    BY <1>2, <1>7, <1>8, <1>9, <1>10

LEMMA DeltaIs ==
    ASSUME NEW w \in Full, NEW s \in Skill
    PROVE  DeltaOf(s, w) \in Int /\ (s = "shape" => DeltaOf(s, w) = 0)
<1>1. SpiritDelta(w) \in Int
  <2>1. w.maxHP \in Int /\ w.bonuses \in Int /\ Deltas(w.buffs) \in Int
      BY FullParts, RunningAre
  <2> DEFINE base == w.maxHP - w.bonuses - Deltas(w.buffs) - (IF doll = "off" THEN 0 ELSE DollBonus)
  <2>2. base \in Int /\ SpiritDelta(w) = IF base < 0 THEN 0 ELSE base \div 5
      BY <2>1 DEF SpiritDelta
  <2> HIDE DEF base
  <2>. QED
      BY <2>2
<1>. QED
    BY <1>1 DEF DeltaOf

\* applyBuffEffect.
LEMMA ApplyBuffFits ==
    ASSUME NEW w, Sound(w), NEW s \in Skill \ {"shape", "potion"}
    PROVE  LET r == ApplyBuff(s, w)
           IN  Sound(r) /\ From(r, w) /\ r.worn = w.worn /\ r.form = w.form
<1> DEFINE a == Revert(w, Exclusions(s))
           delta == DeltaOf(s, a)
           move == MoveSpeed(s)
           cancels == move # 0 /\ a.speed = 3 - move
           quick == {t \in DOMAIN a.buffs : cancels /\ a.buffs[t].move = a.speed}
           q == Revert(a, quick)
           v == IF move = 0 THEN q.speed ELSE IF cancels THEN 0 ELSE move
           m == q.maxHP + delta
           raised == [q EXCEPT !.maxHP = m, !.speed = v]
           t == Revert(raised, {s})
           entry == [delta |-> delta, move |-> IF cancels THEN 0 ELSE move]
           f == With(t.buffs, s, entry)
           r == [t EXCEPT !.buffs = f]
<1>0. w \in Full /\ Dressed(w) /\ Counted(w) /\ Caused(w) /\ w.buffs \in Running
    BY FullParts DEF Sound
<1>1. /\ a \in Full /\ From(a, w) /\ a.buffs = Excluding(w.buffs, Exclusions(s))
      /\ a.worn = w.worn /\ a.set = w.set /\ a.form = w.form /\ a.bonuses = w.bonuses
      /\ a.speed = w.speed /\ a.hasteItems = w.hasteItems
    BY <1>0, RevertFits
<1>2. ApplyBuff(s, w) = r
    BY DEF ApplyBuff
<1> HIDE DEF a
<1>3. delta \in Int /\ (s = "shape" => delta = 0) /\ move \in 0..2
    BY <1>1, DeltaIs, MoveIs
<1>4. /\ q \in Full /\ From(q, a) /\ q.buffs = Excluding(a.buffs, quick)
      /\ q.worn = a.worn /\ q.set = a.set /\ q.form = a.form /\ q.bonuses = a.bonuses
      /\ q.speed = a.speed /\ q.hasteItems = a.hasteItems
  <2> HIDE DEF quick
  <2>. QED
      BY <1>1, RevertFits
<1> HIDE DEF delta, q
<1>5. v \in 0..2 /\ m \in Int
    BY <1>3, <1>4, FullParts
<1> HIDE DEF v, m
<1>6. raised \in Full
    BY <1>4, <1>5, Zenon DEF Full
<1>7. /\ raised.worn = q.worn /\ raised.set = q.set /\ raised.buffs = q.buffs /\ raised.form = q.form
      /\ raised.speed = v /\ raised.hasteItems = q.hasteItems /\ raised.ghost = q.ghost
      /\ raised.dead = q.dead /\ raised.maxHP = m /\ raised.bonuses = q.bonuses
    BY <1>4 DEF Full
<1> HIDE DEF raised
<1>8. /\ t \in Full /\ From(t, raised) /\ t.buffs = Excluding(raised.buffs, {s})
      /\ t.worn = raised.worn /\ t.set = raised.set /\ t.form = raised.form /\ t.bonuses = raised.bonuses
      /\ t.speed = raised.speed /\ t.hasteItems = raised.hasteItems
    BY <1>6, RevertFits
<1> HIDE DEF t
<1>9. /\ t.buffs \in Running /\ s \notin DOMAIN t.buffs /\ s \in Skill
      /\ \A k \in DOMAIN w.buffs \ (Exclusions(s) \cup quick \cup {s}) :
            k \in DOMAIN t.buffs /\ t.buffs[k] = w.buffs[k]
  <2>1. a.buffs \in Running /\ q.buffs \in Running /\ raised.buffs \in Running /\ t.buffs \in Running
      BY <1>1, <1>4, <1>6, <1>8, FullParts
  <2>2. /\ DOMAIN a.buffs = DOMAIN w.buffs \ Exclusions(s)
        /\ \A k \in DOMAIN a.buffs : a.buffs[k] = w.buffs[k]
      BY <1>1 DEF Excluding
  <2>3. /\ DOMAIN q.buffs = DOMAIN a.buffs \ quick
        /\ \A k \in DOMAIN q.buffs : q.buffs[k] = a.buffs[k]
    <3> HIDE DEF quick
    <3>. QED
        BY <1>4 DEF Excluding
  <2>4. /\ DOMAIN t.buffs = DOMAIN q.buffs \ {s}
        /\ \A k \in DOMAIN t.buffs : t.buffs[k] = q.buffs[k]
      BY <1>7, <1>8 DEF Excluding
  <2> HIDE DEF quick
  <2>. QED
      BY <2>1, <2>2, <2>3, <2>4
<1>10. Fitting(s, entry) /\ Added(entry) = delta /\ entry.move = IF cancels THEN 0 ELSE move
    BY <1>3 DEF Fitting, Added, Buff
<1> HIDE DEF entry
<1>11. /\ f \in Running /\ Deltas(f) = Deltas(t.buffs) + Added(entry)
       /\ s \in DOMAIN f /\ f[s] = entry
       /\ \A k \in DOMAIN t.buffs : k \in DOMAIN f /\ f[k] = t.buffs[k]
    BY <1>9, <1>10, BuffAdds
<1> HIDE DEF f
<1>12. r \in Full
    BY <1>8, <1>11, Zenon DEF Full
<1>13. /\ r.worn = t.worn /\ r.set = t.set /\ r.buffs = f /\ r.form = t.form
       /\ r.speed = t.speed /\ r.hasteItems = t.hasteItems /\ r.ghost = t.ghost
       /\ r.dead = t.dead /\ r.maxHP = t.maxHP /\ r.bonuses = t.bonuses
    BY <1>8 DEF Full
<1> HIDE DEF r
<1>14. From(r, w)
  <2>1. r.ghost = w.ghost /\ r.dead = w.dead
      BY <1>1, <1>4, <1>7, <1>8, <1>13 DEF From
  <2>2. /\ m = q.maxHP + delta /\ delta \in Int /\ q.maxHP \in Int /\ q.bonuses \in Int
        /\ t.maxHP \in Int /\ t.bonuses \in Int /\ Deltas(q.buffs) \in Int /\ Deltas(t.buffs) \in Int
      BY <1>3, <1>4, <1>8, FullParts, RunningAre DEF m
  <2>3. Net(raised) = Net(q) + delta
      BY <1>7, <2>2 DEF Net
  <2>4. Net(r) = Net(t) - delta
      BY <1>10, <1>11, <1>13, <2>2 DEF Net
  <2>5. Net(t) = Net(raised) /\ Net(q) = Net(w)
      BY <1>1, <1>4, <1>8 DEF From
  <2>6. Net(q) \in Int
      BY <2>2 DEF Net
  <2>. QED
      BY <2>1, <2>2, <2>3, <2>4, <2>5, <2>6 DEF From
<1>15. Caused(r)
  <2>1. r.speed = v /\ r.hasteItems = w.hasteItems /\ r.buffs = f
      BY <1>1, <1>4, <1>7, <1>8, <1>13
  <2>2. CASE move = 0
    <3>1. Exclusions(s) = {} /\ quick = {}
        BY <2>2 DEF MoveSpeed, Exclusions
    <3>2. v = w.speed
        BY <1>1, <1>4, <2>2 DEF v
    <3>3. \A k \in DOMAIN w.buffs : k = s => w.buffs[k].move = 0
        BY <1>0, <2>2, RunningAre
    <3>4. \A k \in DOMAIN w.buffs : w.buffs[k].move # 0 => k \in DOMAIN f /\ f[k] = w.buffs[k]
        BY <1>9, <1>11, <3>1, <3>3
    <3>. QED
        BY <1>0, <2>1, <3>2, <3>4 DEF Caused
  <2>3. CASE move # 0 /\ cancels
      BY <2>1, <2>3 DEF Caused, v
  <2>4. CASE move # 0 /\ ~cancels
    <3>1. v = move /\ f[s].move = move /\ s \in DOMAIN f
        BY <1>10, <1>11, <2>4 DEF v
    <3>. QED
        BY <2>1, <3>1 DEF Caused
  <2>. QED
      BY <2>2, <2>3, <2>4
<1>16. Sound(r) /\ r.worn = w.worn /\ r.form = w.form
    BY <1>0, <1>1, <1>4, <1>7, <1>8, <1>12, <1>13, <1>15 DEF Sound, Dressed, Counted
<1>. QED
    BY <1>2, <1>14, <1>16

-----------------------------------------------------------------------------
(* The inductive invariant: a character in the world has a sound sheet and, apart from what *)
(* is worn and runs, what was loaded, what his doll adds and less what strays took with them; *)
(* there is never less than the base value, as a stray takes what was saved with it.  Of one   *)
(* that is not there, the rows fit what is worn, unless they are outdated.                  *)

Stored == [buffs : Running, form : Form \cup {Nil}]
SheetTypes ==
    /\ worn \in SUBSET Piece /\ doll \in {"off", "out", "stray"} /\ outdated \in BOOLEAN
    /\ saved \in Nat /\ loaded \in Nat /\ robbed \in Nat
    /\ c # Nil => c \in Bare
    /\ rows \in Stored

Lent == IF doll = "out" THEN DollBonus ELSE 0
Present ==
    /\ Sound(Clothed(c, worn)) /\ Shaped(Clothed(c, worn))
    /\ Net(Clothed(c, worn)) = loaded + Lent - robbed
    /\ loaded - robbed >= Base
    /\ doll = "stray" => robbed = 0 /\ loaded >= Base + DollBonus
Absent ==
    /\ robbed = 0 /\ doll # "out" /\ saved >= Base
    /\ doll = "stray" => saved >= Base + DollBonus
    /\ ~outdated /\ rows.form # Nil => worn \ (Fits[rows.form] \cup Cursed) = {}

SheetInv == SheetTypes /\ (c # Nil => Present) /\ (c = Nil => Absent)

LEMMA NoRowsAre == NoRows \in Stored /\ NoRows.form = Nil
<1> DEFINE f == [s \in {} |-> Nil]
<1>1. DOMAIN f = {} /\ f \in [{} -> Buff] /\ {} \in SUBSET Skill
    OBVIOUS
<1>2. f \in UNION {[D -> Buff] : D \in SUBSET Skill}
    <2> HIDE DEF f
    <2>. QED
        BY <1>1
<1>3. f \in Running
    <2> HIDE DEF f
    <2>. QED
        BY <1>1, <1>2 DEF Running
<1>4. NoRows = [buffs |-> f, form |-> Nil]
    BY DEF NoRows
<1> HIDE DEF f
<1>. QED
    BY <1>3, <1>4 DEF Stored

LEMMA Numbers == DollBonus \in Nat /\ Base \in Nat /\ SetBonus \in Nat
BY DEF SheetAssumption

LEMMA WholeIs == Whole(c) = Clothed(c, worn)
BY DEF Whole, Clothed

\* A step that makes a sound sheet of a sound one, and nothing of its own value.
LEMMA StepFits ==
    ASSUME SheetInv, c # Nil, NEW r, Sound(r), Shaped(r), Net(r) = Net(Clothed(c, worn)), Become(r),
           UNCHANGED <<doll, saved, rows, outdated, loaded, robbed>>
    PROVE  SheetInv'
<1>1. c' \in Bare /\ worn' = r.worn /\ Clothed(c', worn') = r /\ r.worn \in SUBSET Piece
    BY BecomeIs, FullParts DEF Sound
<1>2. c' # Nil
    BY <1>1, BareIsBody
<1>3. SheetTypes'
    BY <1>1 DEF SheetInv, SheetTypes
<1>4. Present'
    BY <1>1 DEF SheetInv, Present, Lent
<1>. QED
    BY <1>2, <1>3, <1>4 DEF SheetInv

\* The body of the character in the world.
LEMMA BodyIs ==
    ASSUME SheetInv, c # Nil
    PROVE  LET w == Whole(c)
           IN  /\ w = Clothed(c, worn) /\ Sound(w) /\ Shaped(w) /\ w \in Full
               /\ w.worn = worn /\ w.set = c.set /\ w.bonuses = c.bonuses
               /\ w.maxHP = c.maxHP /\ w.buffs = c.buffs /\ w.form = c.form /\ w.speed = c.speed
               /\ w.hasteItems = c.hasteItems /\ w.dead = c.dead /\ w.ghost = c.ghost
<1>1. c \in Bare /\ worn \in SUBSET Piece /\ Present
    BY DEF SheetInv, SheetTypes
<1>. QED
    BY <1>1, WholeIs, ClothedIs DEF Present

LEMMA WearKeeps ==
    ASSUME SheetInv, NEW p \in Piece, Wear(p)
    PROVE  SheetInv'
<1> DEFINE w == Whole(c)
<1>1. /\ w = Clothed(c, worn) /\ Sound(w) /\ Shaped(w) /\ w.worn = worn /\ w.form = c.form
    BY BodyIs DEF Wear
<1> HIDE DEF w
<1>2. CASE p \in worn
  <2>1. Sound(TakeOff(p, w)) /\ From(TakeOff(p, w), w) /\ TakeOff(p, w).worn = worn \ {p}
        /\ TakeOff(p, w).form \in {w.form, Nil}
      BY <1>1, <1>2, TakeOffFits
  <2>2. Become(TakeOff(p, w)) /\ c # Nil /\ UNCHANGED <<doll, saved, rows, outdated, loaded, robbed>>
      BY <1>2 DEF Wear, w
  <2>3. Shaped(TakeOff(p, w))
      BY <1>1, <2>1 DEF Shaped, Unfit, From
  <2>. QED
      BY <1>1, <2>1, <2>2, <2>3, StepFits DEF From
<1>3. CASE p \notin worn
  <2>1. /\ Become(PutOn(p, w)) /\ c # Nil /\ UNCHANGED <<doll, saved, rows, outdated, loaded, robbed>>
        /\ w.form = Nil \/ p \in Fits[w.form]
      BY <1>1, <1>3 DEF Wear, w
  <2>2. Sound(PutOn(p, w)) /\ Shaped(PutOn(p, w)) /\ From(PutOn(p, w), w)
      BY <1>1, <1>3, <2>1, PutOnFits
  <2>. QED
      BY <1>1, <2>1, <2>2, StepFits DEF From
<1>. QED
    BY <1>2, <1>3

\* The sheet with another speed, if it has a cause, or dead or not.
LEMMA SpeedFits ==
    ASSUME NEW w \in Full, Dressed(w), Counted(w), NEW v \in 0..2,
           v # 0 => Caused([speed |-> v, hasteItems |-> w.hasteItems, buffs |-> w.buffs])
    PROVE  LET r == [w EXCEPT !.speed = v]
           IN  Sound(r) /\ From(r, w) /\ r.worn = w.worn /\ r.form = w.form
<1> DEFINE r == [w EXCEPT !.speed = v]
<1>1. r \in Full
    BY Zenon DEF Full
<1>2. /\ r.worn = w.worn /\ r.set = w.set /\ r.buffs = w.buffs /\ r.form = w.form
      /\ r.speed = v /\ r.hasteItems = w.hasteItems /\ r.ghost = w.ghost
      /\ r.dead = w.dead /\ r.maxHP = w.maxHP /\ r.bonuses = w.bonuses
    BY DEF Full
<1> HIDE DEF r
<1>3. Caused(r)
    BY <1>2 DEF Caused
<1>4. Sound(r) /\ From(r, w)
    BY <1>1, <1>2, <1>3 DEF Sound, Dressed, Counted, From, Net
<1>. QED
    BY <1>2, <1>4 DEF r

LEMMA ApplyKeeps ==
    ASSUME SheetInv, c # Nil, NEW s \in Skill \ {"shape", "potion"}, Become(ApplyBuff(s, Whole(c))),
           UNCHANGED <<doll, saved, rows, outdated, loaded, robbed>>
    PROVE  SheetInv'
<1> DEFINE w == Whole(c)
           r == ApplyBuff(s, w)
<1>1. w = Clothed(c, worn) /\ Sound(w) /\ Shaped(w)
    BY BodyIs
<1> HIDE DEF w
<1>2. Sound(r) /\ From(r, w) /\ r.worn = w.worn /\ r.form = w.form
    BY <1>1, ApplyBuffFits
<1>3. Become(r)
    BY DEF w
<1> HIDE DEF r
<1>4. Shaped(r)
    BY <1>1, <1>2 DEF Shaped, Unfit, From
<1>. QED
    BY <1>1, <1>2, <1>3, <1>4, StepFits DEF From

LEMMA EnchantKeeps ==
    ASSUME SheetInv, NEW s \in Skill, Enchant(s)
    PROVE  SheetInv'
<1>1. s \in Skill \ {"shape", "potion"} /\ c # Nil
    BY DEF Enchant, Alive
<1>. QED
    BY <1>1, ApplyKeeps DEF Enchant

LEMMA SlowedKeeps ==
    ASSUME SheetInv, SlowedByNpc
    PROVE  SheetInv'
<1>1. "slow" \in Skill \ {"shape", "potion"} /\ c # Nil
    BY DEF SlowedByNpc, Alive, Skill
<1>. QED
    BY <1>1, ApplyKeeps DEF SlowedByNpc

LEMMA QuickenKeeps ==
    ASSUME SheetInv, NEW s \in Skill, Quicken(s)
    PROVE  SheetInv'
<1> DEFINE w == Whole(c)
           e == Revert(w, Opposites(s))
           r == [e EXCEPT !.speed = 0]
<1>1. /\ s \in Skill \ {"shape", "potion"} /\ c # Nil
      /\ UNCHANGED <<doll, saved, rows, outdated, loaded, robbed>>
      /\ Become(r) \/ Become(ApplyBuff(s, w))
    BY DEF Quicken, Alive
<1>2. w = Clothed(c, worn) /\ Sound(w) /\ Shaped(w)
    BY <1>1, BodyIs
<1>3. ASSUME Become(r)
      PROVE  SheetInv'
  <2> HIDE DEF w
  <2>1. /\ e \in Full /\ From(e, w) /\ e.worn = w.worn /\ e.set = w.set /\ e.form = w.form
        /\ e.bonuses = w.bonuses /\ e.hasteItems = w.hasteItems
      BY <1>2, RevertFits DEF Sound
  <2> HIDE DEF e
  <2>2. Dressed(e) /\ Counted(e) /\ 0 \in 0..2
      BY <1>2, <2>1 DEF Sound, Dressed, Counted
  <2>3. Sound(r) /\ From(r, e) /\ r.worn = e.worn /\ r.form = e.form
      BY <2>1, <2>2, SpeedFits
  <2> HIDE DEF r
  <2>4. Shaped(r) /\ Net(r) = Net(w)
      BY <1>2, <2>1, <2>3 DEF Shaped, Unfit, From
  <2>. QED
      BY <1>1, <1>2, <1>3, <2>3, <2>4, StepFits
<1>4. ASSUME Become(ApplyBuff(s, w))
      PROVE  SheetInv'
    BY <1>1, <1>4, ApplyKeeps
<1>. QED
    BY <1>1, <1>3, <1>4

LEMMA DrinkKeeps ==
    ASSUME SheetInv, Drink
    PROVE  SheetInv'
<1> DEFINE w == Whole(c)
           e == Revert(w, {"haste", "potion"})
           entry == [delta |-> 0, move |-> 1]
           f == With(e.buffs, "potion", entry)
           q == [e EXCEPT !.buffs = f]
           r == [e EXCEPT !.speed = 1, !.buffs = f]
<1>1. /\ c # Nil /\ Become(r) /\ UNCHANGED <<doll, saved, rows, outdated, loaded, robbed>>
    BY DEF Drink, Alive
<1>2. w = Clothed(c, worn) /\ Sound(w) /\ Shaped(w)
    BY <1>1, BodyIs
<1> HIDE DEF w
<1>3. /\ e \in Full /\ From(e, w) /\ e.buffs = Excluding(w.buffs, {"haste", "potion"})
      /\ e.worn = w.worn /\ e.set = w.set /\ e.form = w.form
      /\ e.bonuses = w.bonuses /\ e.hasteItems = w.hasteItems
    BY <1>2, RevertFits DEF Sound
<1> HIDE DEF e
<1>4. e.buffs \in Running /\ "potion" \notin DOMAIN e.buffs /\ "potion" \in Skill
    BY <1>3, FullParts DEF Excluding, Skill
<1>5. Fitting("potion", entry) /\ Added(entry) = 0 /\ entry.move = 1
    BY DEF Fitting, Added, Buff, MoveSpeed
<1> HIDE DEF entry
<1>6. f \in Running /\ Deltas(f) = Deltas(e.buffs) + Added(entry)
      /\ "potion" \in DOMAIN f /\ f["potion"] = entry
    BY <1>4, <1>5, BuffAdds
<1>7. Deltas(e.buffs) \in Int
    BY <1>4, RunningAre
<1> HIDE DEF f
<1>8. r \in Full
  <2>1. 1 \in 0..2
      OBVIOUS
  <2>. QED
      BY <1>3, <1>6, <2>1, Zenon DEF Full
<1>9. /\ r.worn = e.worn /\ r.set = e.set /\ r.buffs = f /\ r.form = e.form
      /\ r.speed = 1 /\ r.hasteItems = e.hasteItems /\ r.ghost = e.ghost
      /\ r.dead = e.dead /\ r.maxHP = e.maxHP /\ r.bonuses = e.bonuses
    BY <1>3 DEF Full
<1> HIDE DEF r
<1>10. Sound(r)
  <2>1. Caused(r)
      BY <1>5, <1>6, <1>9 DEF Caused
  <2>. QED
      BY <1>2, <1>3, <1>8, <1>9, <2>1 DEF Sound, Dressed, Counted
<1>11. Net(r) = Net(w) /\ Shaped(r)
  <2>1. Net(r) = Net(e)
      BY <1>5, <1>6, <1>7, <1>9 DEF Net
  <2>. QED
      BY <1>2, <1>3, <1>9, <2>1 DEF From, Shaped, Unfit
<1>. QED
    BY <1>1, <1>2, <1>10, <1>11, StepFits

LEMMA PolymorphKeeps ==
    ASSUME SheetInv, NEW f \in Form, Polymorph(f)
    PROVE  SheetInv'
<1> DEFINE w == Whole(c)
           r == ApplyPoly(w, f, TRUE)
<1>1. /\ c # Nil /\ Become(r) /\ UNCHANGED <<doll, saved, rows, outdated, loaded, robbed>>
    BY DEF Polymorph, Alive
<1>2. w = Clothed(c, worn) /\ Sound(w)
    BY <1>1, BodyIs
<1> HIDE DEF w
<1>3. Sound(r) /\ Shaped(r) /\ From(r, w)
    BY <1>2, ApplyPolyFits
<1> HIDE DEF r
<1>. QED
    BY <1>1, <1>2, <1>3, StepFits DEF From

LEMMA EndPolymorphKeeps ==
    ASSUME SheetInv, EndPolymorph
    PROVE  SheetInv'
<1> DEFINE w == Whole(c)
           r == UndoPoly(w)
<1>1. /\ c # Nil /\ Become(r) /\ UNCHANGED <<doll, saved, rows, outdated, loaded, robbed>>
    BY DEF EndPolymorph
<1>2. w = Clothed(c, worn) /\ Sound(w)
    BY <1>1, BodyIs
<1> HIDE DEF w
<1>3. /\ r \in Full /\ From(r, w) /\ r.form = Nil /\ r.worn = w.worn /\ r.set = w.set
      /\ r.bonuses = w.bonuses /\ r.hasteItems = w.hasteItems /\ Caused(r)
    BY <1>2, UndoPolyFits DEF Sound
<1> HIDE DEF r
<1>4. Sound(r) /\ Shaped(r)
    BY <1>2, <1>3 DEF Sound, Dressed, Counted, Shaped
<1>. QED
    BY <1>1, <1>2, <1>3, <1>4, StepFits DEF From

LEMMA ExpireKeeps ==
    ASSUME SheetInv, NEW s \in Skill, Expire(s)
    PROVE  SheetInv'
<1> DEFINE w == Whole(c)
           r == Ended(w, {s})
<1>1. /\ c # Nil /\ Become(r) /\ UNCHANGED <<doll, saved, rows, outdated, loaded, robbed>>
      /\ s \in DOMAIN c.buffs
    BY DEF Expire
<1>2. w = Clothed(c, worn) /\ Sound(w) /\ Shaped(w) /\ w.buffs = c.buffs
    BY <1>1, BodyIs
<1> HIDE DEF w
<1>3. {s} \in SUBSET DOMAIN w.buffs
    BY <1>1, <1>2
<1>4. Sound(r) /\ From(r, w) /\ r.worn = w.worn /\ r.form \in {w.form, Nil}
    BY <1>2, <1>3, EndedFits
<1> HIDE DEF r
<1>5. Shaped(r)
    BY <1>2, <1>4 DEF Shaped, Unfit, From
<1>. QED
    BY <1>1, <1>2, <1>4, <1>5, StepFits DEF From

LEMMA CancellationKeeps ==
    ASSUME SheetInv, Cancellation
    PROVE  SheetInv'
<1> DEFINE w == Whole(c)
           S == DOMAIN c.buffs \ NonCancellable
           e == Ended(w, S)
           v == IF c.hasteItems > 0 THEN 0 ELSE e.speed
           r == [e EXCEPT !.speed = v]
<1>1. /\ c # Nil /\ Become(r) /\ UNCHANGED <<doll, saved, rows, outdated, loaded, robbed>>
    BY DEF Cancellation, Alive
<1>2. w = Clothed(c, worn) /\ Sound(w) /\ Shaped(w) /\ w.buffs = c.buffs
    BY <1>1, BodyIs
<1> HIDE DEF w
<1>3. S \in SUBSET DOMAIN w.buffs
    BY <1>2
<1> HIDE DEF S
<1>4. Sound(e) /\ From(e, w) /\ e.worn = w.worn /\ e.form \in {w.form, Nil}
    BY <1>2, <1>3, EndedFits
<1> HIDE DEF e
<1>5. /\ e \in Full /\ Dressed(e) /\ Counted(e) /\ Caused(e) /\ v \in 0..2 /\ v \in {0, e.speed}
    BY <1>4, FullParts DEF Sound
<1> HIDE DEF v
<1>6. v # 0 => Caused([speed |-> v, hasteItems |-> e.hasteItems, buffs |-> e.buffs])
    BY <1>5 DEF Caused
<1>7. Sound(r) /\ From(r, e) /\ r.worn = e.worn /\ r.form = e.form
    BY <1>5, <1>6, SpeedFits
<1> HIDE DEF r
<1>8. Shaped(r) /\ Net(r) = Net(w)
    BY <1>2, <1>4, <1>7 DEF Shaped, Unfit, From
<1>. QED
    BY <1>1, <1>2, <1>7, <1>8, StepFits

LEMMA DeadFits ==
    ASSUME NEW w, Sound(w), NEW e \in BOOLEAN
    PROVE  LET r == [w EXCEPT !.dead = e]
           IN  Sound(r) /\ Net(r) = Net(w) /\ r.worn = w.worn /\ r.form = w.form /\ r.ghost = w.ghost
<1> DEFINE r == [w EXCEPT !.dead = e]
<1>0. w \in Full
    BY DEF Sound
<1>1. r \in Full
    BY <1>0, Zenon DEF Full
<1>2. /\ r.worn = w.worn /\ r.set = w.set /\ r.buffs = w.buffs /\ r.form = w.form
      /\ r.speed = w.speed /\ r.hasteItems = w.hasteItems /\ r.ghost = w.ghost
      /\ r.maxHP = w.maxHP /\ r.bonuses = w.bonuses
    BY <1>0 DEF Full
<1> HIDE DEF r
<1>3. Sound(r) /\ Net(r) = Net(w)
    BY <1>1, <1>2 DEF Sound, Dressed, Counted, Caused, Net
<1>. QED
    BY <1>2, <1>3 DEF r

LEMMA FallKeeps ==
    ASSUME SheetInv, Fall
    PROVE  SheetInv'
<1> DEFINE w == Whole(c)
           S == DOMAIN c.buffs
           e == Ended(w, S)
           r == [e EXCEPT !.dead = TRUE]
<1>1. /\ c # Nil /\ Become(r) /\ UNCHANGED <<doll, saved, rows, outdated, loaded, robbed>>
    BY DEF Fall, Alive
<1>2. w = Clothed(c, worn) /\ Sound(w) /\ Shaped(w) /\ w.buffs = c.buffs
    BY <1>1, BodyIs
<1> HIDE DEF w
<1>3. S \in SUBSET DOMAIN w.buffs
    BY <1>2
<1> HIDE DEF S
<1>4. Sound(e) /\ From(e, w) /\ e.worn = w.worn /\ e.form \in {w.form, Nil}
    BY <1>2, <1>3, EndedFits
<1> HIDE DEF e
<1>5. Sound(r) /\ Net(r) = Net(e) /\ r.worn = e.worn /\ r.form = e.form /\ r.ghost = e.ghost
    BY <1>4, DeadFits
<1> HIDE DEF r
<1>6. Shaped(r) /\ Net(r) = Net(w)
    BY <1>2, <1>4, <1>5 DEF Shaped, Unfit, From
<1>. QED
    BY <1>1, <1>2, <1>5, <1>6, StepFits

\* What changes in the sheet alone changes in the sheet with what is worn.
LEMMA ReviveKeeps ==
    ASSUME SheetInv, Revive
    PROVE  SheetInv'
<1> DEFINE w == Clothed(c, worn)
           b == [c EXCEPT !.dead = FALSE]
           r == [w EXCEPT !.dead = FALSE]
<1>1. c \in Bare /\ worn \in SUBSET Piece /\ c # Nil /\ Present
    BY DEF Revive, SheetInv, SheetTypes
<1>2. c' = b /\ worn' = worn /\ UNCHANGED <<doll, saved, rows, outdated, loaded, robbed>>
    BY DEF Revive
<1>3. b \in Bare
    BY <1>1, Zenon DEF Bare
<1>4. Clothed(b, worn) = r
    BY <1>1 DEF Bare, Clothed
<1>5. Sound(w) /\ Shaped(w)
    BY <1>1 DEF Present
<1> HIDE DEF w, b
<1>6. Sound(r) /\ Net(r) = Net(w) /\ r.worn = w.worn /\ r.form = w.form /\ r.ghost = w.ghost
    BY <1>5, DeadFits
<1> HIDE DEF r
<1>7. Shaped(r)
    BY <1>5, <1>6 DEF Shaped, Unfit
<1>8. Clothed(c', worn') = r /\ c' \in Bare /\ c' # Nil
    BY <1>2, <1>3, <1>4, BareIsBody
<1>9. SheetTypes'
    BY <1>2, <1>8 DEF SheetInv, SheetTypes
<1>10. Present'
    BY <1>1, <1>2, <1>6, <1>7, <1>8 DEF Present, Lent, w
<1>. QED
    BY <1>8, <1>9, <1>10 DEF SheetInv

-----------------------------------------------------------------------------
(* The doll.                                                               *)

LEMMA GainFits ==
    ASSUME NEW b \in Bare, NEW W \in SUBSET Piece, NEW k \in Int,
           Sound(Clothed(b, W)), Shaped(Clothed(b, W))
    PROVE  LET d == [b EXCEPT !.maxHP = b.maxHP + k]
           IN  /\ d \in Bare /\ Sound(Clothed(d, W)) /\ Shaped(Clothed(d, W))
               /\ Net(Clothed(d, W)) = Net(Clothed(b, W)) + k
<1> DEFINE m == b.maxHP + k
           d == [b EXCEPT !.maxHP = m]
           w == Clothed(b, W)
           r == Clothed(d, W)
<1>1. m \in Int
    BY BareParts
<1>2. /\ w \in Full /\ w.worn = W /\ w.set = b.set /\ w.bonuses = b.bonuses
      /\ w.maxHP = b.maxHP /\ w.buffs = b.buffs /\ w.form = b.form /\ w.speed = b.speed
      /\ w.hasteItems = b.hasteItems /\ w.dead = b.dead /\ w.ghost = b.ghost
    BY ClothedIs
<1> HIDE DEF m
<1>3. d \in Bare
    BY <1>1, Zenon DEF Bare
<1>4. /\ d.set = b.set /\ d.bonuses = b.bonuses
      /\ d.maxHP = m /\ d.buffs = b.buffs /\ d.form = b.form /\ d.speed = b.speed
      /\ d.hasteItems = b.hasteItems /\ d.dead = b.dead /\ d.ghost = b.ghost
    BY DEF Bare
<1> HIDE DEF d
<1>5. /\ r \in Full /\ r.worn = W /\ r.set = d.set /\ r.bonuses = d.bonuses
      /\ r.maxHP = d.maxHP /\ r.buffs = d.buffs /\ r.form = d.form /\ r.speed = d.speed
      /\ r.hasteItems = d.hasteItems /\ r.dead = d.dead /\ r.ghost = d.ghost
    BY <1>3, ClothedIs
<1>6. Sound(w) /\ Shaped(w)
    OBVIOUS
<1> HIDE DEF r, w
<1>7. Net(r) = Net(w) + k
  <2>1. b.maxHP \in Int /\ b.bonuses \in Int /\ Deltas(b.buffs) \in Int
      BY BareParts, RunningAre
  <2>. QED
      BY <1>2, <1>4, <1>5, <2>1 DEF Net, m
<1>8. Sound(r) /\ Shaped(r)
    BY <1>2, <1>4, <1>5, <1>6 DEF Sound, Dressed, Counted, Caused, Shaped, Unfit
<1>. QED
    BY <1>3, <1>7, <1>8 DEF r, w, d, m

LEMMA SummonKeeps ==
    ASSUME SheetInv, Summon
    PROVE  SheetInv'
<1> DEFINE b == [c EXCEPT !.maxHP = c.maxHP + DollBonus]
<1>1. c \in Bare /\ worn \in SUBSET Piece /\ c # Nil /\ Present /\ doll = "off"
    BY DEF Summon, SheetInv, SheetTypes
<1>2. c' = b /\ doll' = "out" /\ UNCHANGED <<worn, saved, rows, outdated, loaded, robbed>>
    BY DEF Summon
<1>3. /\ b \in Bare /\ Sound(Clothed(b, worn)) /\ Shaped(Clothed(b, worn))
      /\ Net(Clothed(b, worn)) = Net(Clothed(c, worn)) + DollBonus
    BY <1>1, Numbers, GainFits DEF Present
<1> HIDE DEF b
<1>4. c' # Nil
    BY <1>2, <1>3, BareIsBody
<1>5. SheetTypes'
    BY <1>2, <1>3 DEF SheetInv, SheetTypes
<1>6. Present'
  <2>1. loaded \in Nat /\ robbed \in Nat
      BY DEF SheetInv, SheetTypes
  <2>. QED
      BY <1>1, <1>2, <1>3, <2>1, Numbers DEF Present, Lent
<1>. QED
    BY <1>4, <1>5, <1>6 DEF SheetInv

\* A doll of this session takes what it added; a stray what the session never gave, but which
\* was saved with it.
LEMMA DollGoneKeeps ==
    ASSUME SheetInv, c # Nil, doll # "off", DollGone
    PROVE  SheetInv'
<1> DEFINE b == [c EXCEPT !.maxHP = c.maxHP + (-DollBonus)]
<1>1. /\ c \in Bare /\ worn \in SUBSET Piece /\ Present /\ doll \in {"out", "stray"}
      /\ loaded \in Nat /\ robbed \in Nat
    BY DEF SheetInv, SheetTypes
<1>2. c.maxHP \in Int
    BY <1>1, BareParts
<1>3. /\ c' = [c EXCEPT !.maxHP = c.maxHP - DollBonus] /\ doll' = "off"
      /\ robbed' = IF doll = "stray" THEN robbed + DollBonus ELSE robbed
      /\ UNCHANGED <<worn, saved, rows, outdated, loaded>>
    BY DEF DollGone
<1>4. c.maxHP - DollBonus = c.maxHP + (-DollBonus) /\ -DollBonus \in Int
    BY <1>2, Numbers
<1>5. c' = b
    BY <1>3, <1>4
<1>6. /\ b \in Bare /\ Sound(Clothed(b, worn)) /\ Shaped(Clothed(b, worn))
      /\ Net(Clothed(b, worn)) = Net(Clothed(c, worn)) + (-DollBonus)
  <2> DEFINE k == -DollBonus
  <2>1. k \in Int
      BY <1>4
  <2> HIDE DEF k
  <2>2. LET d == [c EXCEPT !.maxHP = c.maxHP + k]
        IN  /\ d \in Bare /\ Sound(Clothed(d, worn)) /\ Shaped(Clothed(d, worn))
            /\ Net(Clothed(d, worn)) = Net(Clothed(c, worn)) + k
      BY <1>1, <2>1, GainFits DEF Present
  <2>. QED
      BY <2>2 DEF k
<1> HIDE DEF b
<1>7. c' # Nil
    BY <1>5, <1>6, BareIsBody
<1>8. SheetTypes'
    BY <1>1, <1>3, <1>5, <1>6, Numbers DEF SheetInv, SheetTypes
<1>9. Present'
  <2>1. CASE doll = "out"
      BY <1>1, <1>3, <1>5, <1>6, <2>1, Numbers DEF Present, Lent
  <2>2. CASE doll = "stray"
      BY <1>1, <1>3, <1>5, <1>6, <2>2, Numbers DEF Present, Lent
  <2>. QED
      BY <1>1, <2>1, <2>2
<1>. QED
    BY <1>7, <1>8, <1>9 DEF SheetInv

LEMMA TickStrayKeeps ==
    ASSUME SheetInv, TickStray
    PROVE  SheetInv'
BY DEF SheetInv, SheetTypes, Absent, TickStray

-----------------------------------------------------------------------------
(* Saving, leaving and entering.                                           *)

\* What is saved is at least the base value, and the form that is kept with the buffs fits.
LEMMA SaveFits ==
    ASSUME SheetInv, c # Nil, SaveAll
    PROVE  /\ saved' = loaded + Lent - robbed /\ saved' \in Nat /\ saved' >= Base
           /\ doll # "off" => saved' >= Base + DollBonus
           /\ rows' \in Stored /\ outdated' \in BOOLEAN
           /\ ~outdated' /\ rows'.form # Nil => worn \ (Fits[rows'.form] \cup Cursed) = {}
<1>1. /\ c \in Bare /\ worn \in SUBSET Piece /\ Present /\ doll \in {"off", "out", "stray"}
      /\ loaded \in Nat /\ robbed \in Nat /\ rows \in Stored /\ c.buffs \in Running
    BY BareParts DEF SheetInv, SheetTypes
<1>2. /\ Clothed(c, worn).worn = worn /\ Clothed(c, worn).form = c.form
      /\ Clothed(c, worn).ghost = c.ghost
      /\ Clothed(c, worn).maxHP = c.maxHP /\ Clothed(c, worn).buffs = c.buffs
      /\ Clothed(c, worn).bonuses = c.bonuses
    BY <1>1, ClothedIs
<1>3. saved' = loaded + Lent - robbed
    BY <1>1, <1>2 DEF SaveAll, BaseNow, Present, Net
<1>4. saved' \in Nat /\ saved' >= Base /\ (doll # "off" => saved' >= Base + DollBonus)
    BY <1>1, <1>3, Numbers DEF Present, Lent
<1>5. PICK kept \in SUBSET DOMAIN c.buffs :
         IF kept = {}
         THEN rows' = rows /\ outdated' = (rows # NoRows)
         ELSE /\ rows' = [buffs |-> [s \in kept |-> c.buffs[s]],
                          form |-> IF "shape" \in kept THEN c.form ELSE Nil]
              /\ outdated' = c.ghost
    BY DEF SaveAll
<1>6. CASE kept = {}
  <2>1. /\ rows' = rows /\ outdated' \in BOOLEAN /\ (~outdated' => rows' = NoRows)
      BY <1>5, <1>6
  <2>2. rows' \in Stored /\ (~outdated' => rows'.form = Nil)
      BY <1>1, <2>1, NoRowsAre
  <2>. QED
      BY <1>3, <1>4, <2>1, <2>2
<1>7. CASE kept # {}
  <2> DEFINE f == [s \in kept |-> c.buffs[s]]
             o == IF "shape" \in kept THEN c.form ELSE Nil
  <2>1. f \in Running /\ o \in Form \cup {Nil} /\ o \in {c.form, Nil}
      BY <1>1, PartRuns, BareParts
  <2>2. rows' = [buffs |-> f, form |-> o] /\ outdated' = c.ghost /\ c.ghost \in BOOLEAN
      BY <1>1, <1>5, <1>7, BareParts
  <2> HIDE DEF f, o
  <2>3. rows' \in Stored /\ rows'.form = o
      BY <2>1, <2>2 DEF Stored
  <2>4. ~c.ghost /\ c.form # Nil => worn \ (Fits[c.form] \cup Cursed) = {}
      BY <1>1, <1>2 DEF Present, Shaped, Unfit
  <2>. QED
      BY <1>3, <1>4, <2>1, <2>2, <2>3, <2>4
<1>. QED
    BY <1>3, <1>4, <1>6, <1>7

LEMMA SheetSaveKeeps ==
    ASSUME SheetInv, SheetSave
    PROVE  SheetInv'
<1>1. /\ c # Nil /\ SaveAll /\ UNCHANGED <<worn, c, doll, loaded, robbed>>
    BY DEF SheetSave
<1>2. saved' \in Nat /\ rows' \in Stored /\ outdated' \in BOOLEAN
    BY <1>1, SaveFits
<1>3. SheetTypes'
    BY <1>1, <1>2 DEF SheetInv, SheetTypes
<1>4. Present'
    BY <1>1 DEF SheetInv, Present, Lent
<1>. QED
    BY <1>1, <1>3, <1>4 DEF SheetInv

LEMMA LeavesFits ==
    ASSUME SheetInv, c # Nil, SaveAll, c' = Nil, loaded' = 0, robbed' = 0, UNCHANGED worn,
           doll' = "off" \/ (doll # "off" /\ doll' = "stray")
    PROVE  SheetInv'
<1>1. /\ saved' \in Nat /\ saved' >= Base
      /\ doll # "off" => saved' >= Base + DollBonus
      /\ rows' \in Stored /\ outdated' \in BOOLEAN
      /\ ~outdated' /\ rows'.form # Nil => worn \ (Fits[rows'.form] \cup Cursed) = {}
    BY SaveFits
<1>2. SheetTypes'
    BY <1>1 DEF SheetInv, SheetTypes
<1>3. Absent'
    BY <1>1 DEF Absent
<1>. QED
    BY <1>2, <1>3 DEF SheetInv

LEMMA SheetEnterKeeps ==
    ASSUME SheetInv, SheetEnter
    PROVE  SheetInv'
<1> DEFINE hasted == worn \cap HasteItem # {}
           set == SetPieces \subseteq worn
           back == Excluding(rows.buffs, Skipped(hasted))
           moves == {back[s].move : s \in DOMAIN back} \ {0}
           gear == Gear(worn, set)
           o == IF "shape" \in DOMAIN back THEN rows.form ELSE Nil
           n == Cardinality(worn \cap HasteItem)
           m == saved + gear + Deltas(back)
           B(v) == [set |-> set, bonuses |-> gear, maxHP |-> m, buffs |-> back, form |-> o,
                    speed |-> v, hasteItems |-> n, dead |-> FALSE, ghost |-> outdated]
<1>1. /\ c = Nil /\ loaded' = saved /\ rows' = NoRows
      /\ UNCHANGED <<worn, doll, saved, outdated, robbed>>
    BY DEF SheetEnter
<1>2. PICK v \in IF moves # {} THEN moves ELSE {IF hasted THEN 1 ELSE 0} : c' = B(v)
    BY DEF SheetEnter
<1>3. /\ worn \in SUBSET Piece /\ doll \in {"off", "out", "stray"} /\ outdated \in BOOLEAN
      /\ saved \in Nat /\ robbed \in Nat /\ rows.buffs \in Running /\ rows.form \in Form \cup {Nil}
      /\ Absent
    BY <1>1 DEF SheetInv, SheetTypes, Stored
<1>4. /\ back \in Running /\ Deltas(back) \in Int
      /\ \A s \in DOMAIN back : back[s].move \in 0..2
  <2>1. back \in Running
      BY <1>3, EndsTake
  <2> HIDE DEF back
  <2>. QED
      BY <2>1, RunningAre
<1>5. n \in Nat /\ (hasted => n > 0)
  <2> DEFINE A == worn \cap HasteItem
  <2>1. IsFiniteSet(A)
      BY <1>3, FS_Subset
  <2> HIDE DEF A
  <2>2. Cardinality(A) \in Nat /\ (A # {} => Cardinality(A) # 0)
      BY <2>1, FS_CardinalityType, FS_EmptySet
  <2>. QED
      BY <2>2 DEF A
<1>6. gear \in Nat /\ o \in Form \cup {Nil} /\ o \in {rows.form, Nil}
    BY <1>3, GearIs
<1>7. v \in 0..2 /\ Caused([speed |-> v, hasteItems |-> n, buffs |-> back])
  <2> HIDE DEF back
  <2>1. CASE moves # {}
      BY <1>2, <1>4, <2>1 DEF Caused
  <2>2. CASE moves = {}
      BY <1>2, <1>5, <2>2 DEF Caused
  <2>. QED
      BY <2>1, <2>2
<1>8. m \in Int /\ m = saved + gear + Deltas(back)
    BY <1>3, <1>4, <1>6
<1>9. (set => SetPieces \subseteq worn) /\ gear = Gear(worn, set) /\ set \in BOOLEAN
    OBVIOUS
<1> HIDE DEF hasted, set, back, moves, gear, o, n, m
<1>10. B(v) \in Bare
    BY <1>3, <1>4, <1>5, <1>6, <1>7, <1>8, <1>9 DEF Bare
<1>11. /\ B(v).set = set /\ B(v).bonuses = gear /\ B(v).maxHP = m /\ B(v).buffs = back
       /\ B(v).form = o /\ B(v).speed = v /\ B(v).hasteItems = n /\ B(v).ghost = outdated
    OBVIOUS
<1> DEFINE b == B(v)
           w == Clothed(b, worn)
<1> HIDE DEF B, b
<1>12. /\ w \in Full /\ w.worn = worn /\ w.set = set /\ w.bonuses = gear
       /\ w.maxHP = m /\ w.buffs = back /\ w.form = o /\ w.speed = v
       /\ w.hasteItems = n /\ w.ghost = outdated
    BY <1>3, <1>10, <1>11, ClothedIs DEF b
<1> HIDE DEF w
<1>13. Sound(w)
  <2>1. Counted(w)
      BY <1>12 DEF Counted, n
  <2>. QED
      BY <1>7, <1>9, <1>12, <2>1 DEF Sound, Dressed, Caused
<1>14. Shaped(w)
    BY <1>3, <1>6, <1>12 DEF Shaped, Unfit, Absent
<1>15. Net(w) = saved
    BY <1>3, <1>4, <1>6, <1>8, <1>12 DEF Net
<1>16. c' = b /\ c' \in Bare /\ c' # Nil /\ Clothed(c', worn') = w
    BY <1>1, <1>2, <1>10, BareIsBody DEF b, w
<1>17. rows' \in Stored
    BY <1>1, NoRowsAre
<1>18. SheetTypes'
    BY <1>1, <1>3, <1>16, <1>17 DEF SheetTypes
<1>19. Present'
    BY <1>1, <1>3, <1>13, <1>14, <1>15, <1>16, Numbers DEF Present, Absent, Lent
<1>. QED
    BY <1>16, <1>18, <1>19 DEF SheetInv

-----------------------------------------------------------------------------
LEMMA SheetStarts == SheetInit => SheetInv
<1> SUFFICES ASSUME SheetInit PROVE SheetInv
    OBVIOUS
<1>1. /\ worn = {} /\ c = Nil /\ doll = "off" /\ saved = Base /\ rows = NoRows /\ outdated = FALSE
      /\ loaded = 0 /\ robbed = 0
    BY DEF SheetInit
<1>2. SheetTypes
    BY <1>1, NoRowsAre, Numbers DEF SheetTypes
<1>3. Absent
    BY <1>1, NoRowsAre, Numbers DEF Absent
<1>. QED
    BY <1>1, <1>2, <1>3 DEF SheetInv

LEMMA SheetSteps == SheetInv /\ [SheetNext]_sheetVars => SheetInv'
<1> SUFFICES ASSUME SheetInv, [SheetNext]_sheetVars PROVE SheetInv'
    OBVIOUS
<1>1. CASE UNCHANGED sheetVars
    BY <1>1 DEF sheetVars, SheetInv, SheetTypes, Present, Absent, Lent
<1>2. ASSUME NEW p \in Piece, Wear(p) PROVE SheetInv'
    BY <1>2, WearKeeps
<1>3. ASSUME NEW s \in Skill, Enchant(s) \/ Quicken(s) \/ Expire(s) PROVE SheetInv'
    BY <1>3, EnchantKeeps, QuickenKeeps, ExpireKeeps
<1>4. ASSUME NEW f \in Form, Polymorph(f) PROVE SheetInv'
    BY <1>4, PolymorphKeeps
<1>5. CASE SlowedByNpc \/ Drink \/ EndPolymorph \/ Cancellation \/ Fall \/ Revive
    BY <1>5, SlowedKeeps, DrinkKeeps, EndPolymorphKeeps, CancellationKeeps, FallKeeps, ReviveKeeps
<1>6. CASE Summon \/ Dismiss \/ TickDoll \/ TickStray
    BY <1>6, SummonKeeps, DollGoneKeeps, TickStrayKeeps DEF Dismiss, TickDoll
<1>7. CASE SheetSave
    BY <1>7, SheetSaveKeeps
<1>8. CASE SheetDisconnect
    BY <1>8, LeavesFits DEF SheetDisconnect
<1>9. CASE SheetChange
    BY <1>9, LeavesFits DEF SheetChange
<1>10. CASE SheetEnter
    BY <1>10, SheetEnterKeeps
<1>. QED
    BY <1>1, <1>2, <1>3, <1>4, <1>5, <1>6, <1>7, <1>8, <1>9, <1>10 DEF SheetNext

LEMMA SheetShows == SheetInv => SheetAgrees
<1> SUFFICES ASSUME SheetInv PROVE SheetAgrees
    OBVIOUS
<1>1. SheetTypeOK
  <2>1. c = Nil \/ \E D \in SUBSET Skill : c \in Bodies(D)
      BY BareIsBody DEF SheetInv, SheetTypes
  <2>2. \E D \in SUBSET Skill : rows \in [buffs : [D -> Buff], form : Form \cup {Nil}]
    <3>1. rows \in Stored /\ rows.buffs \in Running
        BY DEF SheetInv, SheetTypes, Stored
    <3>2. DOMAIN rows.buffs \in SUBSET Skill /\ rows.buffs \in [DOMAIN rows.buffs -> Buff]
        BY <3>1, RunningAre
    <3>3. rows \in [buffs : [DOMAIN rows.buffs -> Buff], form : Form \cup {Nil}]
        BY <3>1, <3>2 DEF Stored
    <3>. QED
        BY <3>2, <3>3
  <2>. QED
      BY <2>1, <2>2 DEF SheetInv, SheetTypes, SheetTypeOK
<1>2. ASSUME c # Nil
      PROVE  /\ Present /\ Sound(Whole(c)) /\ Shaped(Whole(c))
             /\ Net(Whole(c)) = loaded + Lent - robbed /\ Whole(c).worn = worn
             /\ Whole(c).set = c.set /\ Whole(c).bonuses = c.bonuses
             /\ Whole(c).maxHP = c.maxHP /\ Whole(c).buffs = c.buffs /\ Whole(c).form = c.form
             /\ Whole(c).speed = c.speed /\ Whole(c).hasteItems = c.hasteItems
             /\ Whole(c).ghost = c.ghost
             /\ loaded \in Nat /\ robbed \in Nat /\ c \in Bare
  <2>1. Present /\ loaded \in Nat /\ robbed \in Nat /\ c \in Bare
      BY <1>2 DEF SheetInv, SheetTypes
  <2>. QED
      BY <1>2, <2>1, BodyIs DEF Present
<1>3. SheetAdds
  <2> SUFFICES ASSUME c # Nil
               PROVE  /\ c.set => SetPieces \subseteq worn
                      /\ c.bonuses = Gear(worn, c.set)
                      /\ c.maxHP = loaded + Gear(worn, c.set) + Deltas(c.buffs)
                                     + (IF doll = "out" THEN DollBonus ELSE 0) - robbed
      BY DEF SheetAdds
  <2>1. (c.set => SetPieces \subseteq worn) /\ c.bonuses = Gear(worn, c.set)
      BY <1>2 DEF Sound, Dressed
  <2>2. c.maxHP - c.bonuses - Deltas(c.buffs) = loaded + Lent - robbed
      BY <1>2 DEF Net
  <2>3. c.maxHP \in Int /\ c.bonuses \in Int /\ Deltas(c.buffs) \in Int /\ loaded \in Int /\ robbed \in Int
      BY <1>2, BareParts, RunningAre
  <2>4. Lent \in Int /\ Lent = IF doll = "out" THEN DollBonus ELSE 0
      BY Numbers DEF Lent
  <2>5. c.maxHP = loaded + c.bonuses + Deltas(c.buffs) + Lent - robbed
      BY <2>2, <2>3, <2>4
  <2>. QED
      BY <2>1, <2>4, <2>5
<1>4. FormFits
    BY <1>2 DEF FormFits, Shaped
<1>5. SpeedHasACause
    BY <1>2 DEF SpeedHasACause, Sound, Counted, Caused
<1>. QED
    BY <1>1, <1>3, <1>4, <1>5 DEF SheetAgrees

\* However a player dresses, is enchanted, slowed, polymorphed, cancelled, killed and saved, and
\* over any number of logins: the statistic is what was loaded and what is worn, runs and
\* follows, each counted once; no form is kept with a piece it cannot wear; and speed has a
\* cause (system/equip.go, skill_buff.go, polymorph.go, doll.go).
THEOREM SheetAlwaysAgrees == SheetSpec => []SheetAgrees
<1>1. SheetSpec => []SheetInv
    BY SheetStarts, SheetSteps, PTL DEF SheetSpec
<1>. QED
    BY <1>1, SheetShows, PTL

=============================================================================
