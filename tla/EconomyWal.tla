----------------------------- MODULE EconomyWal -----------------------------
(***************************************************************************)
(* What survives when the server stops: inventories in memory, their rows  *)
(* in the character_items table, and the economic write-ahead log that is  *)
(* to bridge the gap between a trade and the next save                     *)
(* (internal/persist/wal.go, item_repo.go, internal/system/persistence.go, *)
(* executeTrade, the private shop, the saves made on leaving the world).   *)
(*                                                                         *)
(* An inventory and a set of rows are the same thing here: a count of each *)
(* good, a non-stackable object counting 1, so that a row inserted twice   *)
(* is seen as 2.  When a trade may open or execute is the matter of module *)
(* Trade; here it may at any time.  The game loop saves the players one by *)
(* one, and the process may die between two of these transactions.         *)
(***************************************************************************)
EXTENDS Naturals, FiniteSetsExt, SequencesExt

CONSTANTS
    Player,     \* characters
    Item,       \* non-stackable objects (WAL item_id is the ObjectID)
    Adena,      \* gold; other stacks are logged and replayed the same way
    StartGold,  \* 20000 in loadInventoryFromDB
    MaxCount,   \* bound: counts in the initial state and in requests
    MaxWal,     \* bound: unprocessed rows of economic_wal
    MaxMoney,   \* bound: adena ever handed out
    MaxMishaps  \* bound: failed writes and loads, crashes over unsaved work

ASSUME WalAssumption ==
    /\ Adena \notin Item
    /\ {StartGold, MaxCount, MaxWal, MaxMoney, MaxMishaps} \subseteq Nat
    /\ IsFiniteSet(Player) /\ IsFiniteSet(Item)

VARIABLES
    mode,       \* "running", "autosave", "shutdown", "stopped" or "crashed"
    todo,       \* players the savePlayers loop has still to visit
    online,     \* players in the world
    inv,        \* inv[p]: PlayerInfo.Inv
    window,     \* window[p]: TradeItems and TradeGold, taken out of inv[p]
    deals,      \* pairs of players with a trade window open
    dirty,      \* PlayerInfo.Dirty
    db,         \* db[p]: the character_items rows of p
    wal,        \* unprocessed rows of economic_wal
    minted,     \* history: adena the world has ever been given
    settled,    \* history: see Settle
    mishaps     \* history: writes and loads that failed, crashes over unsaved work

serverVars == <<mode, todo>>
gameVars == <<online, inv, window, deals, dirty>>
diskVars == <<db, wal>>
vars == <<serverVars, gameVars, diskVars, minted, settled, mishaps>>

-----------------------------------------------------------------------------
Goods == Item \cup {Adena}
Nothing == [g \in Goods |-> 0]
a ++ b == [g \in Goods |-> a[g] + b[g]]
a -- b == [g \in Goods |-> IF a[g] > b[g] THEN a[g] - b[g] ELSE 0]
Only(g, n) == [Nothing EXCEPT ![g] = n]

\* What p owns in memory, the trade window included.
Held(p) == inv[p] ++ window[p]

Entry(p, q, g, n) == [from |-> p, to |-> q, good |-> g, count |-> n]

\* buildTradeWALEntries: a row for each good p gives to q.
Gives(p, q) ==
    LET offered == SetToSeq({g \in Goods : window[p][g] > 0})
    IN  [k \in DOMAIN offered |-> Entry(p, q, offered[k], window[p][offered[k]])]

\* RecoverWAL, one row.  Of an object, whatever rows the giver has are handed
\* over; gold is taken as far as there is some, and always added in full.
ReplayEntry(rows, e) ==
    LET n == IF e.good \in Item THEN rows[e.from][e.good] ELSE e.count
    IN  [rows EXCEPT ![e.from] = @ -- Only(e.good, n),
                     ![e.to] = @ ++ Only(e.good, n)]

\* Fault: the rows are replayed last to first.
ReplayBackwards(rows, log) == FoldLeft(ReplayEntry, rows, Reverse(log))
Replay(rows, log) == FoldLeft(ReplayEntry, rows, log)

\* Memory and rows agree, and no replay is due.
InSync == wal = <<>> /\ \A p \in online : db[p] = inv[p] /\ window[p] = Nothing

\* settled holds while nothing but trading happened since memory and rows last agreed.
Settle(onlyTrading) == settled' = (InSync' \/ (settled /\ onlyTrading))

\* Something goes wrong that the code only logs, or cannot see.
Mishap == mishaps < MaxMishaps /\ mishaps' = mishaps + 1

-----------------------------------------------------------------------------
(* Trading.  A packet of p marks p dirty, and only p (InputSystem.Update). *)

OpenTrade(p, q) ==
    /\ mode = "running"
    /\ {p, q} \subseteq online /\ p # q
    /\ \A d \in deals : d \cap {p, q} = {}
    /\ deals' = deals \cup {{p, q}}
    /\ dirty' = [dirty EXCEPT ![p] = TRUE, ![q] = TRUE]
    /\ UNCHANGED <<serverVars, online, inv, window, diskVars, minted, mishaps>>
    /\ Settle(TRUE)

\* AddItem, addGoldToTrade: the goods leave the inventory at once.
Offer(p, g, n) ==
    /\ mode = "running"
    /\ \E d \in deals : p \in d
    /\ n \in 1..inv[p][g]
    /\ inv' = [inv EXCEPT ![p] = @ -- Only(g, n)]
    /\ window' = [window EXCEPT ![p] = @ ++ Only(g, n)]
    /\ dirty' = [dirty EXCEPT ![p] = TRUE]
    /\ UNCHANGED <<serverVars, online, deals, diskVars, minted, mishaps>>
    /\ Settle(TRUE)

Close(p, q) ==
    /\ {p, q} \in deals /\ p # q
    /\ deals' = deals \ {{p, q}}
    /\ window' = [window EXCEPT ![p] = Nothing, ![q] = Nothing]
    /\ UNCHANGED <<serverVars, online, minted, mishaps>>

\* Accept by p, the second to do so: executeTrade writes the log, then memory.
ExecuteTrade(p, q) ==
    /\ mode = "running"
    /\ Close(p, q)
    /\ LET entries == Gives(p, q) \o Gives(q, p)
       IN  /\ Len(wal) + Len(entries) <= MaxWal
           /\ wal' = wal \o entries
    /\ inv' = [inv EXCEPT ![p] = @ ++ window[q], ![q] = @ ++ window[p]]
    /\ dirty' = [dirty EXCEPT ![p] = TRUE]
    /\ UNCHANGED db
    /\ Settle(TRUE)

\* cancelTrade by p, also when WriteWAL fails: both get their offers back.
CancelTrade(p, q) ==
    /\ mode = "running"
    /\ Close(p, q)
    /\ inv' = [inv EXCEPT ![p] = Held(p), ![q] = Held(q)]
    /\ dirty' = [dirty EXCEPT ![p] = TRUE]
    /\ UNCHANGED diskVars
    /\ Settle(TRUE)

\* ExecuteBuy and ExecuteSell of the private shop: object i from p to q for a
\* price, logged first; both sides are marked dirty by the transfer itself.
PrivateShop(p, q, i, price) ==
    /\ mode = "running"
    /\ {p, q} \subseteq online /\ p # q
    /\ inv[p][i] > 0 /\ price \in 1..inv[q][Adena]
    /\ Len(wal) + 2 <= MaxWal
    /\ wal' = wal \o <<Entry(p, q, i, 1), Entry(q, p, Adena, price)>>
    /\ inv' = [inv EXCEPT ![p] = (@ -- Only(i, 1)) ++ Only(Adena, price),
                          ![q] = (@ -- Only(Adena, price)) ++ Only(i, 1)]
    /\ dirty' = [dirty EXCEPT ![p] = TRUE, ![q] = TRUE]
    /\ UNCHANGED <<serverVars, online, window, deals, db, minted, mishaps>>
    /\ Settle(TRUE)

\* Any packet by which p uses goods up.
UseUp(p, g) ==
    /\ mode = "running"
    /\ p \in online /\ inv[p][g] > 0
    /\ inv' = [inv EXCEPT ![p] = @ -- Only(g, 1)]
    /\ dirty' = [dirty EXCEPT ![p] = TRUE]
    /\ UNCHANGED <<serverVars, online, window, deals, diskVars, minted, mishaps>>
    /\ Settle(FALSE)

-----------------------------------------------------------------------------
(* Entering and leaving the world *)

\* Fault: the inventory is saved before the offer is back in it.
RowsWithoutOffer(p) == inv[p]
\* What SaveInventory writes for p, whose trade has been cancelled by then.
RowsOnLeaving(p) == Held(p)

\* Fault: the trade of who leaves stays open for the partner.
AllDeals(p) == deals
DealsWithout(p) == {d \in deals : p \notin d}

\* handleDisconnect and HandleChangeChar: an open trade is cancelled, then the
\* inventory is saved; when the write fails that is only logged.
LeaveWorld(p) ==
    /\ mode = "running" /\ p \in online
    /\ online' = online \ {p}
    /\ deals' = DealsWithout(p)
    /\ LET S == UNION (deals \ DealsWithout(p))
       IN  /\ inv' = [q \in Player |-> IF q = p THEN Nothing
                                       ELSE IF q \in S THEN Held(q) ELSE inv[q]]
           /\ window' = [q \in Player |-> IF q \in S \cup {p} THEN Nothing ELSE window[q]]
    /\ dirty' = [dirty EXCEPT ![p] = FALSE]
    /\ \/ db' = [db EXCEPT ![p] = RowsOnLeaving(p)] /\ UNCHANGED mishaps
       \/ UNCHANGED db /\ Mishap
    /\ UNCHANGED <<serverVars, wal, minted>>
    /\ Settle(FALSE)

\* loadInventoryFromDB: without rows, or when loading them fails, starting gold.
EnterWorld(p) ==
    /\ mode = "running" /\ p \notin online
    /\ online' = online \cup {p}
    /\ dirty' = [dirty EXCEPT ![p] = TRUE]
    /\ \/ /\ db[p] # Nothing
          /\ inv' = [inv EXCEPT ![p] = db[p]]
          /\ UNCHANGED <<minted, mishaps>>
       \/ /\ minted + StartGold <= MaxMoney
          /\ inv' = [inv EXCEPT ![p] = Only(Adena, StartGold)]
          /\ minted' = minted + StartGold
          /\ IF db[p] = Nothing THEN UNCHANGED mishaps ELSE Mishap
    /\ UNCHANGED <<serverVars, window, deals, diskVars>>
    /\ Settle(inv'[p] = db[p])

-----------------------------------------------------------------------------
(* Saving: savePlayers, a transaction for each player *)

\* PersistenceSystem.Update, every interval: the dirty players.
AutoSave ==
    /\ mode = "running"
    /\ mode' = "autosave"
    /\ todo' = {p \in online : dirty[p]}
    /\ UNCHANGED <<gameVars, diskVars, minted, settled, mishaps>>

\* SIGTERM: SaveAllPlayers, whatever the dirty flags.
Shutdown ==
    /\ mode = "running"
    /\ mode' = "shutdown"
    /\ todo' = online
    /\ UNCHANGED <<gameVars, diskVars, minted, settled, mishaps>>

\* SaveInventory replaces all rows of p; on an error p stays dirty.
SavePlayer(p) ==
    /\ mode \in {"autosave", "shutdown"} /\ p \in todo
    /\ todo' = todo \ {p}
    /\ \/ /\ db' = [db EXCEPT ![p] = inv[p]]
          /\ dirty' = [dirty EXCEPT ![p] = FALSE]
          /\ UNCHANGED mishaps
       \/ /\ Mishap
          /\ UNCHANGED <<db, dirty>>
    /\ UNCHANGED <<mode, online, inv, window, deals, wal, minted>>
    /\ Settle(FALSE)

\* Fault: the log is left as it is.
FinishUnmarked ==
    /\ mode \in {"autosave", "shutdown"} /\ todo = {}
    /\ mode' = IF mode = "autosave" THEN "running" ELSE "stopped"
    /\ UNCHANGED <<todo, gameVars, diskVars, minted, mishaps>>
    /\ Settle(TRUE)
\* After the loop MarkProcessed retires the whole log, whoever was saved.
FinishSave ==
    /\ mode \in {"autosave", "shutdown"} /\ todo = {}
    /\ mode' = IF mode = "autosave" THEN "running" ELSE "stopped"
    /\ \/ wal' = <<>> /\ UNCHANGED mishaps
       \/ /\ wal # <<>>
          /\ Mishap
          /\ UNCHANGED wal
    /\ UNCHANGED <<todo, gameVars, db, minted>>
    /\ Settle(wal' = wal)

-----------------------------------------------------------------------------
(* Crash and restart *)

\* The process dies, possibly between two players of a save.
Crash ==
    /\ mode \in {"running", "autosave", "shutdown"}
    /\ mode' = "crashed"
    /\ todo' = {}
    /\ IF settled THEN UNCHANGED mishaps ELSE Mishap
    /\ UNCHANGED <<gameVars, diskVars, minted, settled>>

\* The server starts: RecoverWAL, one transaction, then nobody is online.
RecoverWAL ==
    /\ mode \in {"crashed", "stopped"}
    /\ mode' = "running"
    /\ db' = Replay(db, wal)
    /\ wal' = <<>>
    /\ online' = {} /\ deals' = {}
    /\ inv' = [p \in Player |-> Nothing]
    /\ window' = [p \in Player |-> Nothing]
    /\ dirty' = [p \in Player |-> FALSE]
    /\ UNCHANGED <<todo, minted, mishaps>>
    /\ settled' = TRUE

-----------------------------------------------------------------------------
\* How much of g there is in inventories or rows.
TotalOf(image, g) == SumFunctionOnSet([p \in Player |-> image[p][g]], Player)

\* What is whose: memory for who is online, rows for the rest.
Owned == [p \in Player |-> IF p \in online THEN Held(p) ELSE db[p]]

RowsOf(g) == TotalOf(db, g)
InWorld(g) == TotalOf(Owned, g)

Init ==
    /\ mode = "running" /\ todo = {}
    /\ online = {} /\ deals = {}
    /\ inv = [p \in Player |-> Nothing]
    /\ window = [p \in Player |-> Nothing]
    /\ dirty = [p \in Player |-> FALSE]
    /\ db \in [Player -> [Goods -> 0..MaxCount]]
    /\ \A i \in Item : RowsOf(i) <= 1
    /\ RowsOf(Adena) <= MaxMoney
    /\ wal = <<>>
    /\ minted = RowsOf(Adena)
    /\ settled = TRUE
    /\ mishaps = 0

Next ==
    \/ \E p, q \in Player : \/ OpenTrade(p, q)
                            \/ ExecuteTrade(p, q)
                            \/ CancelTrade(p, q)
    \/ \E p \in Player, g \in Goods : UseUp(p, g) \/ \E n \in 1..inv[p][g] : Offer(p, g, n)
    \/ \E p, q \in Player, i \in Item : \E n \in 1..inv[q][Adena] : PrivateShop(p, q, i, n)
    \/ \E p \in Player : LeaveWorld(p) \/ EnterWorld(p) \/ SavePlayer(p)
    \/ AutoSave \/ Shutdown \/ FinishSave \/ Crash \/ RecoverWAL

Spec == Init /\ [][Next]_vars
-----------------------------------------------------------------------------
(* Properties *)

Images == [Player -> [Goods -> Nat]]
Entries == {e \in [from : Player, to : Player, good : Goods, count : Nat] : e.from # e.to}

\* The values of the flags, inventories, rows and log.
TypeOK ==
    /\ mode \in {"running", "autosave", "shutdown", "stopped", "crashed"}
    /\ todo \subseteq online /\ online \subseteq Player
    /\ {inv, window, db} \subseteq Images
    /\ \A d \in deals : d \subseteq online /\ Cardinality(d) = 2
    /\ dirty \in [Player -> BOOLEAN]
    /\ wal \in Seq(Entries)
    /\ {minted, mishaps} \subseteq Nat /\ settled \in BOOLEAN

\* If the server dies while trades are all that happened since memory and rows
\* agreed, RecoverWAL gives everybody exactly what they owned at that moment:
\* executed trades are redone, and what lies in a window is back with its owner.
\* (An object whose row an earlier failure doubled is handed over twice.)
RecoveryMatchesMemory ==
    mode = "running" /\ settled /\ (\A i \in Item : RowsOf(i) <= 1) =>
        \A p \in online : Replay(db, wal)[p] = Held(p)

\* As long as no write fails and no crash hits unsaved work, no object is in two
\* inventories or sets of rows and no gold appears, across logins, logouts,
\* autosaves, shutdowns and restarts.
NothingIsDuplicated ==
    mode = "running" /\ mishaps = 0 =>
        /\ \A i \in Item : InWorld(i) <= 1
        /\ InWorld(Adena) <= minted

\* Who leaves the world is saved with the goods of a cancelled trade or keeps the
\* old rows; the rows never show an inventory with the offer missing.
LeavingSavesAllOrNothing ==
    [][\A p \in online \ online' : mode = "running" => db'[p] \in {db[p], Held(p)}]_vars

\* After a graceful shutdown in which writes worked, the rows of every player are
\* the inventory in memory, also when the dirty flag had missed a change.
ShutdownSavesInventories ==
    mode = "stopped" /\ mishaps = 0 => \A p \in online : db[p] = inv[p]

\* Both saves that end a player's stay (input.go:386, persistence.go:52).
SavesAreWhole == LeavingSavesAllOrNothing /\ []ShutdownSavesInventories

\* "Called for graceful shutdown to ensure no data is lost": the rows hold all a
\* player owned.  The code saves inventories only; offers in a window are lost.
ShutdownLosesNothing ==
    mode = "stopped" /\ mishaps = 0 => \A p \in online : db[p] = Held(p)

\* "Set to true when any persisted state changes (..., inventory, ...)": a clean
\* player's rows are up to date.  The code marks only the player who sent a packet.
DirtyTracksChanges ==
    mode = "running" => \A p \in online : ~dirty[p] => db[p] = inv[p]

\* "Each entry is replayed idempotently": replaying the log over rows that hold
\* no more gold than there is does not make more.  The code adds the amount again
\* to a recipient whose rows were written after the trade.
RecoveryMintsNothing ==
    [][wal # <<>> /\ wal' = <<>> /\ RowsOf(Adena) <= minted
       => RowsOf(Adena)' <= minted]_vars
=============================================================================
