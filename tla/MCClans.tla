------------------------------- MODULE MCClans -------------------------------
(* Model checking of Clan, Siege and Auction.  A behaviour is about one of the
   three: clans alone, with three characters, or two princes, their clans and a
   castle, or two princes, their clans and the houses on auction. *)
EXTENDS Siege, Auction, TLC

CONSTANTS p1, p2, p3, Red, Blue, Kent, Orc, h1, h2
CONSTANT MaxPurse

VARIABLE topic

MCChar == {p1, p2, p3}
MCPrince == {p1, p2}
MCHouse == {h1, h2}
MCCastle == {Kent, Orc}
Symmetry == Permutations({p1, p2}) \cup Permutations({Red, Blue}) \cup Permutations({h1, h2})
              \cup Permutations({Kent, Orc})

MCInit == ClanInit /\ SiegeInit /\ AuctionInit /\ topic \in {"clan", "siege", "auction"}

MCNext ==
    /\ topic' = topic
    /\ \/ topic = "clan" /\ (ClanStep \/ Restart) /\ Purses /\ UNCHANGED siegeVars
       \/ topic = "siege" /\ SiegeNext /\ Purses
       \/ topic = "auction" /\ AuctionNext /\ UNCHANGED siegeVars

MCSpec == MCInit /\ [][MCNext]_<<warVars, auctionVars, topic>>

\* The common member stays at home when castles or houses are at stake; auctions are
\* between clans nobody joins, and nobody is deleted meanwhile; nobody has more than
\* MaxPurse, though refunds for bids that fail make gold without end; nothing is looked
\* at beyond a transfer of a castle that was not fully written.
Focus ==
    /\ topic # "clan" => p3 \notin online /\ deleted = {}
    /\ topic = "auction" => \A p \in Char : asked[p] = None
    /\ topic = "auction" => \A c \in DOMAIN clans : ~clans[c].emblem
    /\ \A p \in online : purse[p] \in {None} \cup 0..MaxPurse
    /\ ~torn
=============================================================================
