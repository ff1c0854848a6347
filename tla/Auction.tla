------------------------------- MODULE Auction -------------------------------
(***************************************************************************)
(* Auctions of clan houses: AuctionSystem (internal/system/auction_sys.go),*)
(* its table (internal/persist/auction_repo.go), the dialogs that lead to a*)
(* bid (internal/handler/auction.go) or a sale (internal/handler/house.go),*)
(* on top of Clan.                                                         *)
(*                                                                         *)
(* Bids are written when they are made, purses when their owner leaves.    *)
(* addAdena pays into the slot of adena there is, and players are taken to *)
(* have one.  A refund to somebody who is not in the world is an UPDATE of *)
(* a column characters.adena, which no migration creates: it always fails, *)
(* and the error is only logged.  A house belongs to a clan in memory      *)
(* alone.                                                                  *)
(***************************************************************************)
EXTENDS Clan

CONSTANTS
    FirstPurse, \* adena every character begins with
    FirstPrice, \* of a house that has no owner
    MaxPrice    \* bound: the highest bid or asking price

ASSUME AuctionAssumption == FirstPurse \in Nat /\ MaxPrice \in Nat /\ FirstPrice \in 0..MaxPrice

VARIABLES
    board,      \* AuctionSystem.entries
    dbBoard,    \* the rows of auction_board
    overdue,    \* houses whose deadline has passed
    form,       \* PendingAuctionHouseID, of those online
    purse,      \* adena of those online
    dbPurse     \* adena in character_items

auctionVars == <<board, dbBoard, overdue, form, purse, dbPurse>>
saleVars == <<clanVars, auctionVars>>

-----------------------------------------------------------------------------
Without(h, f) == Restrict(f, DOMAIN f \ {h})
With(h, e, f) == [g \in DOMAIN f \cup {h} |-> IF g = h THEN e ELSE f[g]]

\* addAdena if p is in the world; else RefundOfflineGold, in vain.
Refunded(p, n) == [q \in Char |-> IF q = p /\ p \in online THEN purse[q] + n ELSE purse[q]]

\* IsAlreadyBidding
Bidding(p) == \E h \in DOMAIN board : board[h].bidder = p

\* Fault: the other auctions are not looked at.
ApplyAgain(p, h) ==
    /\ Leads(p) /\ h \in DOMAIN board
    /\ ClanOf(p).house = None
    /\ form' = [form EXCEPT ![p] = h]
    /\ UNCHANGED <<clanVars, board, dbBoard, overdue, purse, dbPurse>>

\* The form for a bid.
Apply(p, h) ==
    /\ Leads(p) /\ h \in DOMAIN board
    /\ ClanOf(p).house = None
    /\ ~Bidding(p)
    /\ form' = [form EXCEPT ![p] = h]
    /\ UNCHANGED <<clanVars, board, dbBoard, overdue, purse, dbPurse>>

MinBid(e) == IF e.bidder = None THEN e.price ELSE e.price + 1

\* PlaceBid.  Nothing that Apply asked is asked again; the previous bidder is paid
\* before the bid is written.
PlaceBid(p, n) ==
    LET h == form[p] IN
    /\ p \in online /\ h # None
    /\ form' = [form EXCEPT ![p] = None]
    /\ IF h \in DOMAIN board /\ n >= MinBid(board[h]) /\ purse[p] >= n
       THEN LET paid == IF board[h].bidder = None THEN purse
                        ELSE Refunded(board[h].bidder, board[h].price)
                e == [price |-> n, bidder |-> p, seller |-> board[h].seller]
            IN  \/ /\ dbBoard' = With(h, e, dbBoard)
                   /\ purse' = [paid EXCEPT ![p] = @ - n]
                   /\ board' = With(h, e, board)
                \/ purse' = paid /\ UNCHANGED <<board, dbBoard>>   \* UpdateBid failed
       ELSE UNCHANGED <<board, dbBoard, purse>>
    /\ UNCHANGED <<clanVars, overdue, dbPurse>>

\* HandleSellHouseAmount, after handleHouseSell; CreateSale.
SellHouse(p, n) ==
    /\ Leads(p) /\ ClanOf(p).house \in House \ DOMAIN board
    /\ LET h == ClanOf(p).house
           e == [price |-> n, bidder |-> None, seller |-> p]
       IN  /\ dbBoard' = With(h, e, dbBoard)
           /\ board' = With(h, e, board)
    /\ UNCHANGED <<clanVars, overdue, form, purse, dbPurse>>

DeadlinePasses(h) ==
    /\ h \in DOMAIN board
    /\ overdue' = overdue \cup {h}
    /\ UNCHANGED <<clanVars, board, dbBoard, form, purse, dbPurse>>

-----------------------------------------------------------------------------
(* Settlement *)

Due(h) == h \in overdue \cap DOMAIN board

\* The winner's clan, if he is in the world and in one, now has the house; the
\* seller's, likewise, has none.
HousesAfter(h, buyer, seller) ==
    LET given == [c \in DOMAIN clans |->
                    IF InClan(buyer) /\ c = me[buyer].clan THEN [clans[c] EXCEPT !.house = h] ELSE clans[c]]
    IN  [c \in DOMAIN clans |->
            IF seller # None /\ InClan(seller) /\ c = me[seller].clan
            THEN [given[c] EXCEPT !.house = None] ELSE given[c]]

\* Fault: an entry that is settled goes from memory whether or not the row is gone.
ForgetEntry(h) ==
    /\ board' = Without(h, board) /\ overdue' = overdue \ {h}
    /\ dbBoard' \in {Without(h, dbBoard), dbBoard}

\* DeleteAuction; if it fails, the entry stays, and will be settled once more.
RemoveEntry(h) ==
    \/ /\ dbBoard' = Without(h, dbBoard)
       /\ board' = Without(h, board) /\ overdue' = overdue \ {h}
    \/ UNCHANGED <<board, dbBoard, overdue>>

SettleSold(h) ==
    LET e == board[h] IN
    /\ Due(h) /\ e.bidder # None
    /\ clans' = HousesAfter(h, e.bidder, e.seller)
    /\ purse' = IF e.seller = None THEN purse ELSE Refunded(e.seller, (e.price * 9) \div 10)
    /\ RemoveEntry(h)
    /\ UNCHANGED <<online, me, playerClan, asked, tables, form, dbPurse>>

SettleCancelled(h) ==
    /\ Due(h) /\ board[h].bidder = None /\ board[h].seller # None
    /\ RemoveEntry(h)
    /\ UNCHANGED <<clanVars, form, purse, dbPurse>>

ExtendDeadline(h) ==
    /\ Due(h) /\ board[h].bidder = None /\ board[h].seller = None
    /\ overdue' = overdue \ {h}
    /\ UNCHANGED <<clanVars, board, dbBoard, form, purse, dbPurse>>

-----------------------------------------------------------------------------
(* What comes and goes with players and the server *)

\* With each character goes his purse, and the form he has before him.
Purses ==
    /\ purse' = [p \in Char |-> IF p \in online' \ online THEN dbPurse[p]
                                ELSE IF p \in online' THEN purse[p] ELSE None]
    /\ dbPurse' = [p \in Char |-> IF p \in online \ online' THEN purse[p] ELSE dbPurse[p]]
    /\ form' = [p \in Char |-> IF p \in online' THEN form[p] ELSE None]
    /\ UNCHANGED <<board, dbBoard, overdue>>

AsClan == ClanStep /\ Purses

AuctionRestart ==
    /\ Restart
    /\ board' = dbBoard
    /\ form' = [p \in Char |-> None] /\ purse' = [p \in Char |-> None]
    /\ UNCHANGED <<dbBoard, overdue, dbPurse>>

-----------------------------------------------------------------------------
AuctionInit ==
    /\ board = [h \in House |-> [price |-> FirstPrice, bidder |-> None, seller |-> None]]
    /\ dbBoard = board /\ overdue = {}
    /\ form = [p \in Char |-> None]
    /\ purse = [p \in Char |-> None] /\ dbPurse = [p \in Char |-> FirstPurse]

AuctionStep ==
    \/ \E p \in Char :
          \/ \E h \in House : Apply(p, h)
          \/ \E n \in 1..MaxPrice : PlaceBid(p, n) \/ SellHouse(p, n)
    \/ \E h \in House : DeadlinePasses(h) \/ SettleSold(h) \/ SettleCancelled(h) \/ ExtendDeadline(h)

AuctionNext == AsClan \/ AuctionStep \/ AuctionRestart

AuctionSpec == ClanInit /\ AuctionInit /\ [][AuctionNext]_saleVars

-----------------------------------------------------------------------------
(* Properties *)

Entry == [price : 0..MaxPrice, bidder : Char \cup {None}, seller : Char \cup {None}]

AuctionTypeOK ==
    /\ DOMAIN board \subseteq House /\ \A h \in DOMAIN board : board[h] \in Entry
    /\ overdue \subseteq House
    /\ form \in [Char -> House \cup {None}]
    /\ \A p \in Char : IF p \in online THEN purse[p] \in Nat ELSE purse[p] = None
    /\ dbPurse \in [Char -> Nat]

\* PlaceBid, CreateSale, settle* (auction_sys.go:92-340): whatever statement fails
\* and whenever the server stops, memory and table hold the same auctions and bids,
\* and nobody's gold stands in two of them ("523 你已經出價了另一間血盟小屋").
BidsAreRecorded ==
    /\ board = dbBoard
    /\ \A g, h \in DOMAIN board : board[g].bidder = board[h].bidder => g = h \/ board[g].bidder = None

\* Of the auctions: types, and that bids are recorded as they stand.
AuctionsAgree == AuctionTypeOK /\ BidsAreRecorded

Wealth(p) == IF p \in online THEN purse[p] ELSE dbPurse[p]

\* auction_sys.go:118 "退還前一位競標者的金幣" (give the previous bidder his gold
\* back): who is outbid has as much more as he had bid.
OutbidIsRefunded ==
    [][\A h \in House \cap DOMAIN board \cap DOMAIN board' :
          LET p == board[h].bidder IN
          p # None /\ board'[h].bidder \notin {p, None} => Wealth(p)' = Wealth(p) + board[h].price]_saleVars
=============================================================================
