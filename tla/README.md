# Formal models of L1JGO-Whale

L1JGO-Whale is a Lineage 3.80C game server in Go. These TLA+ modules model the
parts of it in which several actors (players, connections, goroutines, monsters,
timers, the database, a crash) meet over shared state, TLC checks them on small
instances, and TLAPS proves the most important invariants for every instance.

## 1. The system

### How it runs

`cmd/l1jgo/main.go` recovers the economic log, loads data, and enters a `select`
loop in one goroutine, the *game loop*. Each tick (200 ms) it calls its systems in
phases: 0 Input, 1 PreUpdate, 2 Update, 3 PostUpdate, 4 Output, 5 Persist,
6 Cleanup; between ticks the Input phase alone runs every 2 ms; on SIGTERM it
saves all players and returns. A packet handler and a system's `Update` run to
their end in this goroutine, so game state needs no locks, and an interleaving
of two players is an interleaving of whole handlers. What makes the server hard:

* each connection has a reader and a writer goroutine, and the acceptor has one,
  and all of them, and the game loop, may close a session at any moment;
* the database is written by single statements and transactions that can fail
  one by one, and the process can die between any two of them;
* a client sends any packet at any time its session state allows, and answers
  dialogs that were opened long ago;
* one fact is kept in several places (a clan's member in five, a pet in four, a
  monster's place in three), each written by another operation, and there are two
  copies of what leaving the world does (`handleDisconnect`, `HandleChangeChar`);
* what one system adds (a statistic, a flag, a tile, a hatred), another takes
  away, later, in an order nobody chose.

### Components

| Component | State | Operations | Must hold |
|---|---|---|---|
| Connection (`net/session.go`, `server.go`, `session_store.go`, `system/output.go`) | closed flag, `closeOnce`, queues, outBuf, newConns | Start, readLoop, writeLoop, Send, FlushOutput, Close, AcceptLoop | order kept, nothing left out, one cleanup, goroutines end, the loop never waits |
| Session life cycle (`handler/auth.go`, `enterworld.go`, `changechar.go`) | SessionState, AccountName, `accounts.online` | login, enter world, change character, quit, disconnect | one login per account, one session per character, flags exact |
| Input system (`system/input.go`) | the store of sessions | accept, drain, dispatch, handleDisconnect | closed sessions are cleaned up after their last packets |
| Trade (`system/trade.go`) | partner, window, confirmation, what is offered | ask, answer, add item, add gold, accept, cancel | mutual pairing, goods conserved, no deal changed after it was confirmed |
| Inventory, ground (`world/inventory.go`, `system/item_ground.go`) | items, what is worn; objects on the ground | pick up, drop, destroy, expire, wield | one holder for each object |
| Economic log and saving (`persist/wal.go`, `item_repo.go`, `system/persistence.go`) | rows of `character_items`, `economic_wal`, dirty flags | WriteWAL, saves, MarkProcessed, RecoverWAL | what was traded survives a crash, once |
| Private shops, NPC shops (`system/private_shop.go`, `shop.go`) | lists of goods and prices, what a customer has seen | open, order, buy, sell, tax | price and goods change hands together, within int32 |
| Party, chat party (`system/party_sys.go`, `world/party.go`) | members and leader, each member's PartyID, invitations | invite, accept, leave, kick, change leader | members and PartyID agree, no party of one |
| Warehouse (`system/warehouse.go`) | rows, a cache for each player, the clan lock | open, deposit, withdraw | goods in one place, the lock is released |
| Clan (`system/clan_sys.go`, `world/clan.go`) | membership in three maps and two tables | found, ask, answer, leave, expel, rank, dissolve | the five records agree, one lord |
| Castle and war (`system/castle_sys.go`, `war_sys.go`) | owner, timetable, wars, tower and crown | declare, surrender, take the crown, end | owner and clan agree; wars are for castles at war |
| Auction (`system/auction_sys.go`, `handler/auction.go`, `house.go`) | bids in memory and table, houses | apply, bid, sell, settle | bids recorded as they stand |
| Instances (`quest_world*.go`, `hauntedhouse_sys.go`, `dragondoor_sys.go`, `maptimer_sys.go`) | members, rounds, timers | enter, leave, tick, end | they end, records agree, prizes are limited |
| Character sheet (`equip.go`, `skill_buff.go`, `polymorph.go`, `doll.go`) | a statistic and who added to it; form; speed | wear, cast, expire, transform, save, load | every bonus counted once |
| Monsters (`hate.go`, `combat.go`, `npc_respawn.go`) | hate, targets, groups | hit, kill, pay, lead, return | hatred is of this life, pay is bounded |
| Tiles (`world/state.go`, `data/mapdata.go`) | position, grid, one flag per tile | move, teleport, die, respawn, raise | the three agree |
| Companions (`pet_mgr.go`, `skill_summon.go`, `hierarch.go`, `pet_match.go`) | pets, collars, rows, creatures, the match | call, collect, evolve, summon, match | charisma is not exceeded, gear adds up |
| Event bus, runner, ECS (`internal/core`) | two event buffers, phases, entity pool | Emit, Tick, Create | subscribers only log; no entity is ever created |
| Lua, dialogs, data loaders, codec, cipher, tools, social features | - | - | - |

They interact through shared state (inventories, the world's maps, one
`PendingYesNoData` for all dialogs), through calls (leaving the world calls the
cleanup of each), and through the database. `PROJECT.json` lists the components
with their files and status and, under "hazards", the places where each can go
wrong that a test hardly reaches.

## 2. The modules and the code

An action is a handler, or a system's update of one thing, whole. Components that
share no state that matters to their properties are modules of their own; an MC
module may hold several of them as *topics*: a variable `topic` chosen in the first
state says which of them a behaviour is about, and the others stand still. Nothing is
composed thereby; it lets one run ask several modules their questions. Operators
commented `Fault:` are plausible slips of the code that no action uses: put in the place of the
operator after it, each breaks a property.

### Trade, and Holdings

`Trade` is the trade protocol between any number of players, with the other
operations on inventories that may come between its steps: `InitiateTrade`,
`HandleYesNo`, `AddItem`, `AddStack`, `AddGoldToTrade`, `Accept`, `Cancel`,
`HandleDisconnect`, `HandleChangeChar`, `EnterWorld`, `EquipWeapon`, and drop, destroy,
pick up and expiry for objects and stacks.

* A player's `TradePartnerID`, `TradeWindowOpen`, `TradeOk` are `partner`, `open`,
  `ok`; `TradeItems` and `TradeGold` are the record `offer`. As in the code, an
  offer is *taken out of* the inventory when it is made.
* Non-stackable objects are elements with an identity (`Item`), stackables are
  counts (`Stack`, adena among them). A slot exists while its count is positive;
  that is what `AddGoldToTrade` depends on.
* `dialogs` are the Yes/No windows clients still show. `HandleYesNo` acts on the
  partner the player has when the answer arrives, whoever opened the dialog.
* `ExecuteTrade` may find WriteWAL failing, and then cancels.
* Distance, facing, death and the arithmetic of weight are left to choice.

`Holdings` is the abstract economy: a step moves goods between two holders,
or loses some, or grants starting gold to somebody with nothing. `Trade` maps
onto it by counting what lies in a window as held by the player who put it there.

### EconomyWal

Inventories in memory, their rows, and the log between them. Here a trade may
open and close at any time (when it may is the matter of `Trade`), and the
operations are those that write or read the database: `ExecuteTrade` and
`PrivateShop` append to the log, `LeaveWorld` saves one player, `AutoSave`
and `Shutdown` start the loop of `savePlayers`, `SavePlayer` is one turn of that
loop, `FinishSave` is `MarkProcessed`, `Crash` may come at any of these points,
`RecoverWAL` is the next start. Writes and loads that fail, and crashes over work
nothing could have kept, are counted in `mishaps`, so that a property can say what
holds without them. `Replay` is the loop of `RecoverWAL` as a fold over the log.

### Shop

Private shops and the shops of NPCs. A private shop (`OpenShop`, `CloseShop`) is two lists
its owner made once, by object and by kind; what he carries changes behind them (`HandOver`,
`EquipWeapon`, `Relog`). A customer looks (`Browse` keeps the length of the list he saw,
`glanced`) and orders by position; a packet is a sequence of orders, and `ExecuteBuy` and
`ExecuteSell` fold them with `SellOne` and `BuyOne`, which may skip an order or end at it, as
the code's `continue`, `break` and `return` do. Sums are taken modulo a width (`MaxInt`), as
int32 in the code. `BuyFromNpc` and `SellToNpc` check before they take, pay, then deliver one by
one, and pay the castle its share.

The loops have names (`SellOne`, `BuyOne`, `Hand`, `TakeOne`, `PutEach`), and what a list keeps is `Among`. Beside what the code has, a shop records what its
owner's purse gained since it opened (`taken`), what the entries that have left the lists had brought (`cleared`), and whether he ordered something himself.
`burst` says that a count has wrapped.

### Connection

One session, the four goroutines at it and its two bounded channels. `pc` says
where each goroutine is. `Close` is sync.Once: the first caller runs
`EnterClose` (closed is set), `HangUp` (closeCh and the socket are closed) and
`LeaveClose`, the others wait for it. A packet is its number in the stream of its
direction. `Visit`, `Dispatch`, `DrainEnds`, `Flush...`, `Disconnect` are the
game loop at this session; `Broadcast` is a Send from anywhere else.

### Login

Many sessions, their states, and what outlives them: the world's player maps and
the `accounts.online` column. The game loop's visit is split where a session's
goroutine can act in between: it asks IsClosed (`Visit`), picks the next
packet and looks up the state (`Dispatch`), runs the handler (`Handle...`). A
closing session is "half" closed between `closed.Store(true)` and
`SetState(Disconnecting)`. `muddled` and `stale` are history variables for
account updates that were lost and for sessions that died with the server.

### Party

Parties and chat parties are one set of operators over a kind, as the code keeps
two managers with the same functions. `parties[k]` files a *bag* of members under
their leader, since `Members` is a slice that nothing keeps free of duplicates;
`Count` is the length of that slice. `playerParty[k]` is the manager's second map,
`partyID` the copy in PlayerInfo.
`LeaveParty` and `LeaveChat` differ as Leave and ChatLeave do. `HandleDisconnect`
is written out as the code writes it out, apart from them, while
`HandleChangeChar` calls Leave and forgets the chat party. `Answer` takes
the asker from `pending`, the one field all Yes/No dialogs share.

Two things the code permits make the records disagree, and no text says what
should happen: accepting an invitation while in a party (two players who
invite each other and both agree are enough), and a leader banishing himself.
Both are steps of the model. The history variable `muddled` marks the kind of party
they happened in, the properties are about the others, and the run goes no
further from such a state.

### Warehouse

Players' inventories, the rows of `character_items` and `warehouse_items`, the cache each
has of the warehouse he opened last, the clan warehouse's lock, and the counters that
number objects and rows. A packet holds several orders, each one a statement that may
fail; `work` is the packet the loop is at. `BeginDeposit`, `DepositOrder` (`StackOrder`,
`NewRowOrder`), `BeginWithdraw`, `WithdrawOrder`, `WithdrawFails` and `FinishWork` (with
`PayFee`) follow the loops and their `continue` and `return`. `LeaveClan`, `BanMember`,
`HandleDisconnect`, `HandleChangeChar`, `EnterWorld` release, or leak, the lock;
`AutoSave` and `Restart` decide what of memory survives.

Failures are part of what `GoodsConserved` balances, by three histories: `owed`, what the UPDATE of a
withdrawal took from a row before its DELETE failed (`warehouse_repo.go:105-107`); `unsaved`, what a player
put in and paid, less what he took out, since his inventory was saved; and `undone`, what of that a crash
or a failed save gave back to him. It says that inventories and rows with what is owed, the fees, and without what
was given back are what there was at first, that no more is handed out than is owed, and that an inventory
and its saved rows never differ but by `unsaved`. So a deposit that is followed by a crash doubles what was deposited
since the last save, and nothing else. `sound` is given up only when somebody works in the clan's warehouse without its
lock, which `HandleWarehouseOp` does not ask for: a list that is open stays open when the lock is given back. `leaked`, `fees` and `mishaps` are histories too. `TypeOK`
promises full slots while no DELETE has failed: one that failed leaves a row whose count is 0, and such a row can be handed out.

### Clan, Siege, Auction

`Clan` keeps membership where the code does: `clans` (ClanInfo.Members), `playerClan`, `me`
(PlayerInfo), `dbMembers` and `dbChar`. Officers are asked (`asked`, the shared dialog),
and act on whoever is named there. `Siege` extends it with castles and wars: `due` is
the weekly clock, `tower` and `crown` the way a castle is taken; a transfer is two
writes, either may fail (`torn`). `Auction` extends it with houses: a bid takes gold in
memory, and the table is written then; a settlement pays or refunds who is online.

### Dungeon, HauntedHouse, TimedMap, DragonDoor

Four systems that keep a clock. `Dungeon` has instances with rounds that spawn on
entering, on clearing or on a timer, and tags players and monsters with the ShowID.
`HauntedHouse` is a race with a lobby, places and prizes. `TimedMap` counts a player's daily time on
groups of maps, stops at death and when he leaves, and is reset at midnight.
`DragonDoor` calls keepers with a lifetime that open bridges. Who leaves by character change is not
reported to the first two, which is in the model.

Both `Dungeon` and `DragonDoor` raise the dead (`RaiseFallen`, `RaiseKeeper`: `skill_heal_resurrect.go:215`, from a spell
or from the scroll of `item_use.go:284`). Raising tells no list of it. A monster that fell in a fight was taken off its
instance's list by `OnNpcDeath`, and a keeper that fell off the list of those with a lifetime, so once raised it lives on
after the instance or the two hours. The histories `slain` and `dropped` hold who fell so: `InstancesAgree` and
`DragonTypeOK` say that whoever did not is listed where its end is looked for, living or dead, and that who did is never
listed again, so that no round waits for it and its bridge is open; `NothingStays` and `NoneStaysBehind`, which say that nobody is left behind, are
refuted (section 4).

### Tiles

Position, entity grid, AOI membership and the impassable flag of a tile, as players
come, walk and teleport, and monsters walk, die, decay, are tamed, respawn and are raised. Two tiles
of a map and one of another with the same coordinates suffice, as all the code does
to a tile it does to its coordinates. `left` marks tiles whose flag the code forgets by known
paths.

### Companions

A pet is a collar somebody holds (`holder`), a row (`row`), a pet in the world (`pets`)
and perhaps a fighter in the one match slot (`match`). `UsePetCollar`, `CollectPet`,
`PassCollar`, `DismissPet`, `TameNpc`, `EvolvePet`, `ResurrectPet`; `UsePetItem`, `GiveToPet`,
`CollectPetItems` for what it wears; `SummonMonster`, `ExecuteElementalSummon`,
`TameMonster`, `ReturnToNature`, `DismissSummon` and `UseHierarch` for creatures;
`EnterPetMatch`, `LeaveArena`; the ticks (`CompanionTick`); and `CompanionDisconnect`,
`CompanionChangeChar`, `CompanionEnter`.

### Sheet

One statistic, standing for maximum HP, to which equipment, an armour set, buffs and a
doll add, each by its own difference, with the form a character has taken and his speed:
`Wear`, `TakeOff`, `Enchant`, `Quicken`, `Drink`, `SlowedByNpc`, `Polymorph`, `EndPolymorph`,
`Expire`, `Cancellation`, `Fall`, `Revive`, and a doll's coming and going. `SaveAll`,
`SheetDisconnect` and `SheetChange` store the statistic and the buffs, `SheetEnter` loads
them. `robbed` and `loaded` are histories that say what the statistic should be made of.

### Monsters

`mob` holds each monster's hate list, target, group and life; `group` is MobGroupInfo. A hit adds hate to it and its kin,
death divides experience in int32 and settles the group, a GM's kill and a taming do not; a leader that returns spawns new
minions. `struck` is the history of who hit it in this life.

### How they compose

The modules share boundaries and, but for Siege and Auction on Clan, no variables:
`Connection` shows that a closed session is cleaned up once, `Login` what the cleanup
does to accounts and the world maps, `Trade` to an open trade, `Party` to a party,
`Companions` to pets, `Sheet` to what was borrowed, `EconomyWal` what it writes. Each takes the
others' part as an action that may happen at any time. `Trade` is shown to implement `Holdings`.

## 3. The runs

| Run | Instance | Shows |
|---|---|---|
| `trade_three` | 3 players, 1 object, 1 coin | trades are mutual, one owner for each object, no bait and switch, exchange exactly as offered |
| `trade_two` | topic trade: 2 players, a tradeable and a bound object, up to 4 coins, 2 entries in a window; topic sheet: a set of helm and mail, a two-handed axe that hastens, a cursed shield, 2 forms | a wielded weapon stays with who wields it, closing conserves, `Trade` implements `Holdings`; the statistic is the sum of what adds to it (`SheetAgrees`) |
| `wal_two` | topic wal: 2 players, 1 object, 1 coin, 3 log rows, 1 mishap; topic shop: a keeper and a customer, three kinds of goods | recovery restores what was owned and doubles nothing, saves are whole; shops are paid for what they sell, once (`ShopsAgree`), and goods only move (`PurchasesBalance`) |
| `wal_replay` | as `wal_two` | *violation*: replay is not idempotent for gold |
| `connection` | queues of 1, 2 packets per visit, 3 packets in, 2 out | order, one cleanup, and all the liveness (`NobodyIsStuck`) |
| `login` | topic login: 3 sessions, 2 accounts with a character each, newConns of 2, 2 lost updates, 1 restart; topic monsters: 2 hunters and a group of 2 | one login per account, flags exact, world maps consistent; monsters hate and lead the living, shares fit int32 (`HerdsAgree`) |
| `party` | 4 players, parties of 3, 2 dialogs | sizes, agreement of the three records of membership, no party of one; both ways out of the world settle a party alike |
| `warehouse` | 2 members of a clan, fee 1, 2 slots, 4 object numbers, 2 rows, 1 mishap | goods are conserved whichever statement fails and whenever the process dies, the cache a packet relies on is current, the lock is held by somebody who can release it |
| `warehouse_ids` | same, no mishap | *violation*: two objects get one number after a restart |
| `clans` | topics clan, siege, auction: 3 characters, 2 of them princes, 2 clans, 2 castles, 2 houses | the five records of membership agree, owner and clan of a castle agree, bids are recorded as they stand |
| `world` | topics dungeon, house, timed, dragon, tiles, companions | records of the systems with a clock agree, grid, flags and positions agree, pets and collars agree; everything ends (`EverythingEnds`) |
| `group_leader` | 1 hunter, a group of 2, up to 3 monsters | *violation*: a dead monster is made leader |

`PROJECT.json` names, for each property of a passing run, a slip of the code that breaks it.

### Why these bounds

*Trade.* A third player is what makes stale dialogs, stale partners and a change
of partner possible; a fourth adds none that a third does not, as every handler
looks at a player and a partner. One object and one coin can be offered, withdrawn,
dropped, picked up and traded back; two objects, four coins and a window of two
entries let the second run reach the limit on entries, partial counts and
an untradeable object.

*Sheet.* Two buffs at a time (`Bounded`), or one beside one that was stored, are enough to
replace, exclude, restore and cancel them. A statistic may be stored up to one above its base
(`MaxSaved`), which is one round of what saving leaves in it.

*EconomyWal.* Three rows hold a two-sided trade and a later one-sided one, so the
order of replay matters. With one mishap every failure is tried at every place.

*Shop.* A price of 50 and a width of 149 let two honest sums pass the limit of int32; a limit of
90 refuses some lists; three slots fill up; a list of two goods can change behind a customer. One
visit to an NPC shop, a purse that overflowed, and the last object number end what is looked at (`Sober`). Nobody
lists gold itself (`Requests`).

*Connection.* With queues of one place and three packets in, two out, every queue
is full, empty and overrun, a batch holds several packets, and the quota of a
visit is exhausted.

*Login.* Two sessions compete for an account while a third is refused by
newConns or logged in elsewhere; a session that a restart ended is followed by new
ones; two lost updates are one each way.

*Monsters.* `MaxInt` of 7 makes the product of experience and hate leave its width. Two hatreds at a time
(`Bounded`) are two hunters on one monster or one on both.

*Party.* Four players and parties of three: a party can be full with somebody
outside, lose a member and go on, or lose one and be dissolved; two dialogs let
invitations cross and overrun the last place, and different questions mix.
The code's limit of 8 is a parameter. Nothing is explored beyond a state in which
`muddled` is not empty (`Unmuddled`), and those states are checked too.

*Warehouse.* Three coins with one member and a sword with the other; two rows in the table and four
numbers for objects let a row be joined, divided, emptied and made again, and
one mishap, a failed statement or save or a crash that takes unsaved work, is tried at every place. `Reach` ends the run
where `sound` has become false, since from there on nothing is promised but the lock; after a mishap it follows
those states in which the clan is complete, and after lost work those with one player in the world at a time,
who still reaches both warehouses; and after a lock has leaked, those with at most one row ever written,
since a leaked lock shuts the clan's warehouse for the others. The model itself has two bounds more: the DELETE of a row fails once
(`WithdrawFails`), and an object a crash doubled does not come twice into one bag (`WithdrawOrder`).

*Clans.* Two princes found, war, ally and bid; the third character asks, is asked and is ranked, and stays
at home when castles or houses are at stake. Two names suffice to take a name again
after a clan is dissolved. `Focus` also stops at a purse above `MaxPurse`, since refunds of bids
that fail make gold without end, and at a transfer of a castle of which only one half was written.

*World.* In each topic two members of a kind meet a limit of one or two, and clocks run a few
ticks. One monster returns, since fairness for one is enough for the one awaited. `Focus` looks at
fallen monsters: of those of a round the first may be raised, when at most two fell and one instance runs; and at
companions in three ways, each with all that can happen to it: two players, two collars and the arena; what one
player's pets wear, with a third collar for one that evolves; and the creatures beside a pet.

Symmetry is used over players, sessions, clans and houses, only in runs whose properties are
invariants and action properties. Deadlock is not checked in `connection`, `login`, `world`
and `group_leader`: a session ends for good, a dead monster may stay away, clocks run out, and when all
bounds are used up nothing is left to happen. In the other runs a deadlock would be an error.

### Fairness

`Connection`:

* Acceptor, writer and the game loop while it is at the session are weakly fair:
  the Go runtime runs every goroutine that can go on.
* The reader must act only on a packet it holds, or when its socket is closed and
  the read fails. Nothing makes a client send, and no read deadline exists
  (`read_timeout` is configured and never applied).
* `AcceptSession`, `Visit` and `Output` are strongly fair. The game loop is not always
  ready for them, since it is busy with other sessions and systems in between, but
  each Update takes all that is in newConns and then ranges over the whole store,
  and OutputSystem does so in each tick, so each comes up infinitely often.
* `Broadcast`, closing from outside and failing writes have no fairness.

`MCWorld`: the updates of the systems (`Ticks`) are weakly fair, and nothing else is: the game
loop calls each system in each tick, forever, and that a visit to a session never stops it is
`NobodyIsStuck` of `Connection`. What players do is never assumed.

The other runs need no fairness, as their properties are invariants and properties of steps.

## 4. What disagrees with its documentation

Three runs must find a violation; `PROJECT.json` quotes the line each contradicts:

1. `wal.go:80` replays idempotently: gold is added to the recipient again when
   both had been saved after the trade and the log was not yet retired.
2. `main.go:478` initialises the object counter to avoid collisions: it looks at
   `character_items` alone, and objects in a warehouse keep their number.
3. `combat.go:829` makes the first living member the new leader: members that died by
   other ways than `handleNpcDeath` are still in the list.

Others are stated beside their modules as definitions that no run uses, because TLC refutes
them; each names its line. Whoever changes the code there can check them again.

* `Trade`: `GoldChangeKeepsWealth` (`trade.go:188`, gold offered is lost when all adena had been). `EconomyWal`:
  `ShutdownLosesNothing` (open windows), `DirtyTracksChanges` (a partner's inventory). `Login`:
  `LoginRefusedOnlyWhileOnline` (after a restart), `LastPacketsFindThePlayer` (`input.go:104`).
* `Shop`: `WornIsHeld` (`privateshop.go:151`), `PaidIsDelivered` (`shop.go:186`). `Sheet`: `SavedIsBase`
  (`persistence.go:71`), `NoBuffReturns`, `CursedStaysOn` (`equip.go:32`).
* `Clan`: `OnlyApplicantsJoin` (`attr.go:69`). `Siege`: `LordsAreOwners` (`castle_sys.go:753`), `WarsRecur`
  (`castle_sys.go:366`). `Auction`: `OutbidIsRefunded` (`auction_sys.go:118`).
* `Dungeon`: `OneDungeonEach` (`quest_dungeon.go:29`), `NothingStays` (`quest_world_spawn.go:13`),
  `RoundsGoOn` (`quest_world.go:534`). `HauntedHouse`: `NobodyIsStranded`. `TimedMap`: `StaysAreCounted`,
  `LimitIsKept`. `DragonDoor`: `KeepersAreLimited` (`dragondoor.go:30`), `NoneStaysBehind` (`dragondoor_sys.go:10`: a keeper
  that was raised is not taken away).
* `Tiles`: `PlayersAreOnTheGrid` (`state.go:714`, `1175`), `LivingAreSeen`. `Monsters`: `AllIsPaid`.
  `Companions`: `OnePetPerCollar`, `PetsHaveRows`, `ArmourCounts`.

## 5. The proofs

TLAPS checks each proof below to its leaves, for every value of the constants that the named
assumptions of the modules admit. Those assumptions are all there is taken for
granted, and TLC evaluates them in the runs. They say that constants have their types, that limits are
natural numbers (at least 1 for queues, 2 for parties), that players, objects and pieces are finitely many where they are
counted, and that special values such as `NoPlayer` are not players. Some say more, because the proofs need it and the code has it:
a taming or a spell adds at most 12 to charisma (`pet_mgr.go:656`, `skill_summon.go:397`, `499`); no piece of a set is a haste
item (`armor_set_list.yaml`; the one haste item that is worn is a shield); a stay on a map is no longer than what may be recorded of it; rounds
are numbered; the tiles a monster may return to are on one map; gold, the other stackable and the object that does not stack are three kinds, nobody
begins with an empty slot or with two stacks of one kind, no object begins with two owners, and NPCs sell no gold.

### TradeProofs

* `TypeCorrect`: `Spec => []TypeOK`. Not only typing: it contains that no count
  becomes negative, which rests on `CountOf` and `GoldTaken` never exceeding what
  is there (`CountOfType`, `GoldType`).
* `TradesArePaired`: `Spec => []PairedTrades`. Inductive together with `TypeOK`. The
  central lemma is `ClearPairs`: clearing p and its partner leaves everybody else's
  partner alone, *because* partners are mutual.
* `ObjectsHaveOneOwner`: `Spec => []OneOwner`, inductive relative to the two
  above: restoring an offer is safe as no object is held twice, and delivering it
  is since the two players are each other's partner.
* `ConfirmedDealsStand`: `Spec => NoBaitAndSwitch`, an action property. It needs
  `PairedTrades`: the player whose confirmation is withdrawn is the partner of whoever
  changes the offer.

The second part of the module is about the economy. Every step of `Trade`, seen from what players and the ground hold, has one of four effects
(`EveryStepHasAnEffect`): somebody *loses* (answers to a stale dialog, destroying, expiry), a
player exchanges goods *with the ground*, a player who confirms what his partner has
confirmed *delivers*, or a newcomer with nothing is *granted* the starting gold. Each
case uses `PairedTrades` and `OneOwner`. From it follow

* `TradeImplementsHoldings`: `Spec => ImplementsHoldings`. Initial states map to initial
  states, and each effect to a step of `Holdings` or to none;
* `ExchangesAreAsOffered`: goods reach another player only when both confirm, and
  then they are what the two windows held (`ExchangeIsAsOffered`);
* `ClosingTradesConserves`: cancelling, leaving and walking away return what was offered, for
  both sides (`ClosingConserves`);
* `WieldedIsAlwaysHeld`: a wielded weapon is in the inventory (`WieldedIsHeld`): inductive with the types, as
  `AddItem` and every other way out of the inventory either refuse it or take it off.

The third part is about the character's sheet. `SheetAlwaysAgrees` states `SheetAgrees`, for any pieces, sets, forms,
bonuses and speeds. `SheetInv` adds to it

* `Sound`: the bonuses kept are those of what is worn (`Gear`), the set is whole if it counts, haste items are counted, and speed has a cause; and
  `Shaped`: the form fits what is worn, unless the character came back with rows an earlier save had left;
* that the statistic less what is worn and runs (`Net`) is what was loaded, what the doll of this session adds, and less what strays
  took. A doll left out at a logout takes its bonus away in the next session, although it was saved with it: so the invariant says, here and of the row of
  who is away (`Absent`), that a stray doll's bonus *is* in what was saved, and nothing falls below the base value;
* of who is away, that the form stored fits what is worn, unless `outdated`.

`TakeOffAll` is a fold over the pieces a form cannot wear; it takes them off in any order (`FoldFits`), and each piece it takes off may break the
set, which may end the form that asked for it. `ApplyBuffFits`, `TakeOffFits`, `PutOnFits` and their like are one lemma for each operation of the
code, and the step of each action is put together from them.

### EconomyWalProofs

For all finite sets of players and objects, first rows in which no object is twice, and all bounds:
`RecoveryGivesWhatWasOwned` (`RecoveryMatchesMemory`), `NoDuplication` (`NothingIsDuplicated`),
`LastSavesAreWhole` (`SavesAreWhole`) and `WalTypeCorrect`. `Owned` is what is whose: memory
for who is in the world, rows for the rest. `WInv` adds to the types

* `LogTells`: while `settled`, if no object has two rows, replaying the log over the rows gives `Owned`, of
  everybody and in every mode, and no object is in the world twice. The two need each other. Of an object
  `RecoverWAL` hands over whatever rows the giver has, so the replay of a trade ends at what the trade did
  only if there is one; and that the replayed rows are what is owned is why, after a crash, there still is one;
* `Unhurt`: without mishaps nothing is duplicated, and whatever stopped the server left a state that
  is safe to start from: after a crash trading is all that was unsaved, after a shutdown the log is empty and
  the rows of who was saved so far are his inventory;
* `Idle` and `Outside`: nobody waits to be saved but during a save, and who is out of the world offers nothing.

`Replay` is a fold, which the library defines by `CHOOSE`. `Upwards` is induction on the numbers for a *set* of
them, by a smallest set of numbers that reaches a counterexample; with it `FoldsExist` shows that the chosen function
exists, and `ReplayTraces` turns a replay into a sequence of rows, one entry after the other. From it follow
`ReplayConcat` (a longer log goes on where the shorter ended), which reduces a trade to its own entries, and
`GivesMove` (the entries of one side, in whatever order `SetToSeq` lists them, move exactly what was offered).
`TypeOK` says that no entry has one player on both sides, so that the two assignments of
`ReplayEntry` never meet.

The second half is about `Shop`: `ShopsAlwaysAgree` (`ShopsAgree`) and `PurchasesAlwaysBalance` (`PurchasesBalance`), for any traders, first stocks,
prices, weights, wares and limits, and for lists and packets of any length up to `MaxList`, whatever that is. `ShopInv` says

* of what is carried (`Kept`): numbers are no higher than the counter and no two things have one, whoever has them; each kind that stacks is in one slot, and until
  a count has wrapped no slot is empty. Without the single slot `Take` and `Put` would not change the sum by what was moved;
* that some set of numbers, of things which are not gold, contains all that lists name. It is why an order cannot sell the gold that is about
  to pay for it: gold is found by its kind, the goods by a number, and were they one slot, the sum would be wrong. A number is not given again, so that this
  outlives the goods. It rests on a bound of the model: nobody asks a price for gold (`Requests`), and nothing is claimed of a shop whose owner does;
* of each list: an entry has sold between nothing and all of what was listed;
* of the books (`Account`): what the purse gained is what was cleared and what the entries left on the lists have brought. Only the shop's own owner as its
  customer, and wrapped counts, are excepted.

A packet is a fold over a sequence. The library defines it by `CHOOSE` over sets of places; `LoopStays` shows once that whatever each turn keeps, the
loop keeps, and each loop is then a lemma about one turn: `SellOne`, `BuyOne`, `Hand`, `TakeOne`, `PutEach`. Removing entries from a list is a fold too:
`LeftNext` is the turn of `Among`, and from it follows that the entries removed and those that stay weigh together what the list weighed.

### WorldProofs: logins

For every set of sessions, accounts and characters and every number of lost updates
and restarts: `NoDoubleLogin`, `OnlineIsLoggedIn`, `OnePlayerPerCharacter`,
`InWorldHasPlayer` and `TypeOK` are invariants. None is inductive alone. `IInv` adds

* `StagesOK`: which account, state and player a session can have at each stage of its
  life (one that is not stored plays nobody; one still in its handshake has no account);
* `VisitOK`: a handler that has begun is for a packet whose state the session had,
  and still has unless a goroutine has closed it since;
* `StaleOK`: accounts with a lost SetOnline(false) are the ones still marked online.

The argument: `HandleLogin` runs only if `accounts.online` is false, which by
`OnlineIsLoggedIn` means no stored session has the account; that makes the new
login the only one, and so the session that enters the world with a character of
the account the only one to play it.

### WorldProofs: the systems of the game loop

For any maps, tiles, dungeons, races, players, pets, equipment, charisma and limits: `WorldIsWhereItIs` (`TilesAgree`),
`CountdownAlwaysAgrees`, `PrizesAreAlwaysLimited`, `KeepersAreFollowed`, `InstancesAlwaysAgree`, `CompanionsAlwaysAgree`
(`CompanionsAgree`). `SystemsAlwaysAgree` puts them together for `World`, in which the systems take turns: a step of one leaves the invariants of
the others alone. Each has an inductive invariant of its own:

* `TilesInv`: the grid and the flags tile by tile. It adds where a monster returns to (`HomesOK`): a tile of its spawn list, on the
  map it is on, which is what lets it come back without changing maps;
* `TimedInv`: whoever has a clock has time left to record, and what remains is the limit less what was used.
  Without the second half a tick would make the countdown right by chance;
* `HouseInv`: `prizes` counts `prizeOf`; in a race there is a prize only for a goal, and who got one runs no more, which is why
  nobody gets two;
* `DragonInv`: a keeper that has not arrived has steps to take, so that its counter never goes below zero, and none stands and is a corpse at once.
  `DragonTypeOK` is about every keeper in the world, raised ones too: it is followed, or it fell (`dropped`) and its bridge is open;
* `DungeonInv`: monsters are numbered by instance, round and place, and an instance has only monsters of rounds it has spawned
  (`ListsOK`). So what an instance takes away when it ends is its own, and a kill is looked up in the one instance that may list the monster,
  also the second kill of one that was raised, which no instance lists;
* `CompanionsInv`: charisma is asked for when a companion comes and never again. So what is counted is not the pets there are but those it was asked for (`paid`; one
  that a taming made a pet was not), together with the prices of the creatures, and the bound holds with the bonus asked *then*, one of three.
  The two places of a match belong to its players, whoever's pet stands there (`Follows`); what a pet wears it carries (`Fitted`), and nobody else does
  (`BagsOK`), so that taking off a piece gives back just what it added.

`HerdsAlwaysAgree` (`HerdsAgree`) is about `Monsters`. `MonstersInv` says that whoever has a group, *dead or alive*, is among its members
(`FoundOK`): a monster that is raised keeps the group it died with, so that dead ones count. Of hatred it says that the
living hate only those who struck them or their kin in this life (`KnownOK`). Shares fit since hate lists are finite functions with a bounded
sum, and the division is by that sum.

### ConnectionProofs

For queues of every size, every rate and any number of packets: `PacketsStayInOrder`
(`PacketsInOrder`, which contains the types) and `SessionsAreCleanedUpOnce`
(`CleanedUpOnce`). The invariant `CInv` adds to the types

* `Control`: where each goroutine is tells how far the session has got. A goroutine inside
  `Close` counts as being where it will return to (`Whereabouts`). In particular the loop is
  at a session only while it is stored, at the last drain only when it is closed, and the
  count of cleanups is 1 exactly when it is gone;
* `InputKept`: what is handled, then what is queued, then what the reader holds, are
  consecutive numbers;
* `OutputKept`: the same of what is written, the writer's batch, `OutQueue` and `outBuf`, as
  long as the writer lives. A writer that gave up leaves a gap and writes no more, which is
  why the clause is conditional; and while nobody has begun to close, nothing was dropped.

The proof has one lemma for each part of the invariant and in it one step per action; lemmas on
sequences (`AppendFacts`, `TailFacts` and their like) number a queue again after a packet entered or left it.

### PartyProofs

For every finite set of players, every maximum size above 1 and every number of dialogs: `PartiesAlwaysAgree` (`PartiesAgree`)
and `DeparturesSettleParties` (`DepartureSettlesParty`, a property of steps). `PInv` consists of

* `Fits`: a party is filed under a player and has at most `MaxPartySize` members, counted
  with repetitions. It holds always, `muddled` or not;
* `Tidy` and `Enough`, of a kind that is not muddled: the bag of each party is the *set* of
  the players the manager maps to its leader, the leader among them; everybody mapped is mapped to a party
  there is; and a party has two members, but for a chat party its founder may be alone in;
* `IdsAgree`: the copy in PlayerInfo is the manager's, and who is not in the world is in no party.

`TidyMembers` turns the bag into a set once and for all, so that every operation is a lemma about
sets and `Cardinality`; `Count` is a sum over a bag and is reached through `Sums`.

### WarehouseProofs

For every finite set of players, every first inventory whose objects have numbers of their own,
and every fee, limit and number of failing statements and crashes:
`WarehouseTypeCorrect` (`TypeOK`), `WarehouseGoodsAreConserved` (`GoodsConserved`),
`WarehouseCacheIsCurrent` (`CacheIsCurrent`) and `WarehouseLockIsReleased`
(`LockIsReleased`). Two invariants are proved one on the other.

`Frame` holds whatever fails: the types; `AtWork`, that the packet in work is of a player
who looks at the store it is for; `RowIds`, that no two rows have one number; and the lock.
`Sane` holds while `sound` does, and `WInv == Frame /\ (sound => Sane)` is inductive:

* `Bags`: gold is in one slot of a bag. Without it `Put` and `Take` would not change the amount by what was moved;
* `Stored`: rows are finitely many; something is owed of a row at most once, of its good, and never less than nothing (`Debts`); before
  a DELETE has failed nothing is empty (`Full`);
* `Caches`: the list a packet works from is what the table holds, but that it may show goods that are owed of a row (`Shows`). This
  is what makes the row that `WithdrawOrder` changes the one that hands out, and what keeps it from handing out more than the row and
  its debt. It says more than `CacheIsCurrent`: a member who left the clan while he held the lock still looks at rows there are;
* `RowIds`, again, lets an UPDATE by number touch one row only;
* `Solvent`: goods are handed out before the fee is taken, at the end of the packet. The check made
  when the packet began still counts then, as withdrawing never takes gold;
* `Ledger`: an inventory and its saved rows differ by `unsaved`. This is why a crash, which puts the one in the place of the other,
  moves just that into `undone`;
* `Balance`: the sum over all bags, rows, debts and fees, less what was undone, is what there was.

Steps that leave goods where they are go by the lemmas `Quiet` and `ListsStay`. Those that move some share
`MoveCaches`, about the one row and the one entry an order is about, and `MoveSane`, about the one inventory; `WithdrawOut` divides
withdrawals into those that leave some of the row, take all of it, and take what is owed as well.

### ClanProofs

About `Siege` and `Auction`, each of which contains all of `Clan`: for every set of characters, names,
castles and houses, and any number of clans. `MembershipAgrees` and `MembershipSurvivesSales` state
`ClansAgree` of the two, `CastlesAndWarsAgree` states `SiegesAgree`, `BidsAgree` states `AuctionsAgree`.

`CInv`, of the clans, is inductive as it stands, and implies `ClansAgree` (`CInvAgrees`). Each of its parts is
needed by another:

* `Files`: the manager and the table hold the same clans, each under the serial it was created with, so a new
  one overwrites none;
* `Filed`: the manager's map, PlayerInfo and the row of the character say one thing. It asks more than
  `ClansAgree` does: the row is right *while its owner plays*, with his rank. That is what makes a login after a save
  that has not come yet harmless, and an expulsion of somebody who is away well aimed;
* `Rows`: `clan_members` is the map, with ranks. A restart reads that table alone (`RestartKeeps`);
* `OneLeader`: names are unique, and rank 10 is the leader's alone. Rank 10 cannot be granted, and whoever is
  promoted or banned is somebody else than the leader.

`Enlisted` and `Removed` do for joining, promotion, leaving and expulsion what is common to them.
`SiegeInv` adds `SiegesAgree`. What a clan operation may do to castles is one lemma, `ClanStepTitles`: names and castles stay,
and a clan that goes has none. With unique names the clan a war names is the clan that owns the
castle, so an attacker is somebody else; and the claims a restart finds are one for each castle.
Once a transfer was torn nothing but types is claimed of castles, as the model has it.
`AuctionInv` adds `AuctionsAgree` and `FormsAreNew`: who has the form for a bid before him has no bid. Only
opening the form asks whether he has, and `PlaceBid` relies on it.

### Sums

The library defines sums over finite sets by a fold and has no theorem about it. `SumAdd` proves
that adding an element adds its value, by choosing a smallest set for which it fails, since
the library's induction theorems cannot be instantiated by the provers at hand. All the sums of
`Party`, `Warehouse`, `EconomyWal`, `Shop`, `Companions`, `Monsters` and `Sheet` rest on it. `FoldKeeps` and `FoldFits` do the same for a fold over a set: what each
step keeps, the fold keeps, in whatever order the elements are chosen.

### What is only model-checked

* Liveness: `NobodyIsStuck`, `EverythingEnds`. The prover has no ENABLED and no fairness.
* The three violations of section 4, which are disproved and not proved.
* `SavedIsBase`, `NoBuffReturns` and the other definitions named in section 4, which the code does not keep.

## 6. The plan

Done: the models of sections 2 and 3, and the proofs of section 5: every safety property of a passing run is a theorem. Next would be
wider models of what is only partly there: item use, NPC actions, GM commands, NPC AI.

## 7. Not modelled, and why

The ECS pool never holds an entity, and the event bus has subscribers that only log. Damage
formulas, AI choices, dialogs and quests are Lua scripts and tables without a protocol of their
own; where they decide, the models choose freely. Data loaders, configuration, the command line tools and the
test bot hold no state of the running server. Codec and cipher are byte-level; what they need of the rest,
that packets are neither lost nor moved, is a property of `Connection`. Social features (chat,
letters, friends, marriage, rankings, boards) keep one record each. The tables of item
effects, ailments, the cash shop and the matching of clans are left out, and so are weight and capacity
outside `Shop` and `Warehouse`. Movement appears in `Tiles` and as a cause of cancelled trades; who
sees whom is geometry.
