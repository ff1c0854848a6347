------------------------------ MODULE Warehouse ------------------------------
(***************************************************************************)
(* Warehouses: WarehouseSystem (internal/system/warehouse.go), its rows    *)
(* (internal/persist/warehouse_repo.go), the cache each player has of the  *)
(* warehouse opened last, the lock of the clan warehouse with all that     *)
(* sets and releases it, and the numbers of objects.                       *)
(*                                                                         *)
(* A row is written the moment goods move; the inventory they come from is *)
(* saved later.  One packet moves several goods, one DB statement each; it *)
(* runs to its end in the game loop, but the process can die between two   *)
(* statements.  Three stores stand for the keys of rows: the player's own  *)
(* (his account's or his character's), the clan's, and that of the empty   *)
(* clan name, which is what a player without a clan has.  The elf          *)
(* warehouse differs from the own one in the good the fee is paid in.      *)
(***************************************************************************)
EXTENDS Integers, FiniteSets, FiniteSetsExt, Functions

CONSTANTS
    Player,     \* characters, of different accounts; members of one clan or of none
    Leader,     \* LeaderID of the clan
    NoPlayer,   \* CharID 0
    Gold,       \* adena; other stackable goods behave alike
    Arms,       \* kinds of goods that do not stack
    Fee,        \* WarehousePersonalFee
    MaxSlots,   \* MaxInventorySize
    FirstBag,   \* FirstBag[p]: the inventory p has in the first state
    FirstObj,   \* objects are numbered up to this in the first state
    MaxObj,     \* bound: objects ever numbered
    MaxRow,     \* bound: warehouse rows ever inserted
    MaxMishaps  \* bound: statements that fail, and crashes that take unsaved work

\* The keys of the clan's rows, and of those a player without a clan would have.
Clan == "clan"
Nameless == "nameless"

Good == {Gold} \cup Arms
Object == [obj : 1..MaxObj, good : Good, n : Nat \ {0}]

\* What there is of good g in a set of objects or rows, and in all the sets of f.
Amount(g, S) == SumFunctionOnSet([x \in S |-> x.n], {x \in S : x.good = g})
AmountOfAll(g, f) == SumFunction([p \in DOMAIN f |-> Amount(g, f[p])])
Supply == [g \in Good |-> AmountOfAll(g, FirstBag)]

ASSUME WarehouseAssumption ==
    /\ IsFiniteSet(Player) /\ Leader \in Player /\ NoPlayer \notin Player
    /\ Clan \notin Player \cup {NoPlayer} /\ Nameless \notin Player \cup {NoPlayer}
    /\ Gold \notin Arms
    /\ Fee \in Nat /\ MaxSlots \in Nat /\ MaxRow \in Nat /\ MaxMishaps \in Nat
    /\ MaxObj \in Nat /\ FirstObj \in 0..MaxObj
    /\ FirstBag \in [Player -> SUBSET Object]
    /\ \A p \in Player : IsFiniteSet(FirstBag[p])
    /\ \A p \in Player : \A x \in FirstBag[p] :
          /\ x.obj <= FirstObj /\ (x.good \in Arms => x.n = 1)
          /\ \A q \in Player : \A y \in FirstBag[q] :
                /\ x.obj = y.obj => p = q /\ x = y
                /\ p = q /\ x.good = Gold /\ y.good = Gold => x = y

VARIABLES
    online,     \* players in the world
    inv,        \* PlayerInfo.Inv, of those who are online
    saved,      \* the rows of character_items
    rows,       \* the rows of warehouse_items
    cache,      \* PlayerInfo.WarehouseType and WarehouseItems
    member,     \* players whose ClanID is the clan's
    lock,       \* ClanInfo.WarehouseUsingCharID
    nextObj,    \* itemObjIDCounter
    nextRow,    \* the serial of warehouse_items
    work,       \* the packet the game loop is at
    sound,      \* history: every move in the clan's warehouse was made under the lock
    leaked,     \* history: members who lost their place while they held the lock
    fees,       \* history: gold paid in fees
    mishaps,    \* history: statements that failed, crashes that took unsaved work
    owed,       \* history: for each row whose DELETE failed, what was taken from it
                \* and has not been handed out
    unsaved,    \* history: what each player put into warehouses and paid, less what
                \* he took out, since his inventory was saved
    undone      \* history: of that, what a crash or a failed save gave him back

mind == <<online, inv, cache, member, lock, work>>
disk == <<saved, rows, nextRow>>
ledger == <<owed, unsaved, undone>>
history == <<sound, leaked, fees, mishaps, ledger>>
vars == <<mind, disk, nextObj, history>>

-----------------------------------------------------------------------------
Store == Player \cup {Clan, Nameless}
Closed == [store |-> NoPlayer, list |-> {}]
Idle == [who |-> NoPlayer, store |-> NoPlayer, out |-> FALSE, moved |-> FALSE]

RowsOf(s) == {r \in rows : r.store = s}
Mishap == mishaps < MaxMishaps /\ mishaps' = mishaps + 1

\* AddItemWithID: gold joins the slot there is; id is the number of a new slot.
Put(bag, id, g, n) ==
    LET same == {x \in bag : g = Gold /\ x.good = g}
    IN  IF same = {} THEN bag \cup {[obj |-> id, good |-> g, n |-> n]}
        ELSE (bag \ same) \cup {[x EXCEPT !.n = @ + n] : x \in same}

\* How many of x an order is about: one at least, all at most.  What does not stack
\* is single; nothing is left in what was handed out of an empty row.
Part(x) == {n \in 0..x.n : n = x.n \/ (x.good = Gold /\ n > 0)}

\* RemoveItem
Take(bag, x, n) ==
    IF x.good = Gold /\ x.n > n THEN (bag \ {x}) \cup {[x EXCEPT !.n = @ - n]}
    ELSE bag \ {x}

\* The player's ClanName is the key under which he deposits for his clan.
KeyOf(p, s) == IF s = Clan /\ p \notin member THEN Nameless ELSE s

\* p gives n of g to a warehouse, or to its keeper.
Give(p, g, n) == [unsaved EXCEPT ![p][g] = @ + n]
Nothing == [g \in Good |-> 0]

\* p is at work in the clan's warehouse, under its lock or not.
StillSound(p, s) == sound' = (sound /\ (s = Clan => lock = p))

-----------------------------------------------------------------------------
(* Opening, and the lock *)

Ready(p) == work = Idle /\ p \in online

\* loadWarehouseCache; a failed SELECT leaves everything as it is.
Load(p, s) == [cache EXCEPT ![p] = [store |-> s, list |-> RowsOf(KeyOf(p, s))]]

OpenWarehouse(p) ==
    /\ Ready(p)
    /\ cache' = Load(p, p)
    /\ UNCHANGED <<online, inv, member, lock, work, disk, nextObj, history>>

\* Fault: a list that is there already is not read again.
OpenClanFromCache(p) ==
    /\ Ready(p)
    /\ p \in member
    /\ lock \in {NoPlayer, p}
    /\ cache' = IF cache[p].store = Clan THEN cache ELSE Load(p, Clan)
    /\ lock' = p /\ leaked' = leaked \ {p}
    /\ UNCHANGED <<online, inv, member, work, disk, nextObj, sound, fees, mishaps, ledger>>

OpenClanWarehouse(p) ==
    /\ Ready(p)
    /\ p \in member
    /\ lock \in {NoPlayer, p}
    /\ cache' = Load(p, Clan)
    /\ lock' = p /\ leaked' = leaked \ {p}
    /\ UNCHANGED <<online, inv, member, work, disk, nextObj, sound, fees, mishaps, ledger>>

Release(p) == lock' = IF p \in member /\ lock = p THEN NoPlayer ELSE lock

\* count = 0 in the answer for the clan's list, or a teleport.
ReleaseClanWarehouse(p) ==
    /\ Ready(p)
    /\ Release(p)
    /\ UNCHANGED <<online, inv, cache, member, work, disk, nextObj, history>>

-----------------------------------------------------------------------------
(* Deposits *)

BeginDeposit(p, s) ==
    /\ Ready(p)
    /\ work' = [who |-> p, store |-> s, out |-> FALSE, moved |-> FALSE]
    /\ cache' = IF cache[p].store = s THEN cache ELSE Load(p, s)
    /\ UNCHANGED <<online, inv, member, lock, disk, nextObj, history>>

Depositing(p) == work.who = p /\ ~work.out

\* Fault: the goods stay in the inventory as well.
StackAndKeep(p, x, n, e) ==
    /\ Depositing(p)
    /\ x.good = Gold /\ e.good = Gold
    /\ rows' = {IF r.row = e.row THEN [r EXCEPT !.n = @ + n] ELSE r : r \in rows}
    /\ cache' = [cache EXCEPT ![p].list = (@ \ {e}) \cup {[e EXCEPT !.n = @ + n]}]
    /\ unsaved' = Give(p, Gold, n)
    /\ StillSound(p, work.store)
    /\ UNCHANGED <<online, inv, member, lock, work, saved, nextRow, nextObj, leaked, fees, mishaps,
                   owed, undone>>

\* AddToStack on the cached row e: the UPDATE of a row that is gone is no error.
StackOrder(p, x, n, e) ==
    /\ Depositing(p)
    /\ x.good = Gold /\ e.good = Gold
    /\ rows' = {IF r.row = e.row THEN [r EXCEPT !.n = @ + n] ELSE r : r \in rows}
    /\ cache' = [cache EXCEPT ![p].list = (@ \ {e}) \cup {[e EXCEPT !.n = @ + n]}]
    /\ inv' = [inv EXCEPT ![p] = Take(@, x, n)]
    /\ unsaved' = Give(p, Gold, n)
    /\ StillSound(p, work.store)
    /\ UNCHANGED <<online, member, lock, work, saved, nextRow, nextObj, leaked, fees, mishaps,
                   owed, undone>>

\* Fault: the part keeps the number of the stack.
SameNumber(x, n) == x.obj

\* Part of a stack goes into the warehouse under a number of its own.
RowNumber(x, n) == IF n < x.n THEN nextObj + 1 ELSE x.obj

\* A new row: nothing to stack on, or every AddToStack failed.
NewRowOrder(p, x, n) ==
    /\ Depositing(p)
    /\ IF x.good = Gold /\ \E e \in cache[p].list : e.good = Gold
       THEN Mishap ELSE UNCHANGED mishaps
    /\ nextRow < MaxRow
    /\ nextRow' = nextRow + 1
    /\ RowNumber(x, n) <= MaxObj
    /\ nextObj' = IF n < x.n THEN nextObj + 1 ELSE nextObj
    /\ LET r == [row |-> nextRow', store |-> KeyOf(p, work.store),
                 obj |-> RowNumber(x, n), good |-> x.good, n |-> n]
       IN  /\ rows' = rows \cup {r}
           /\ cache' = [cache EXCEPT ![p].list = @ \cup {r}]
    /\ inv' = [inv EXCEPT ![p] = Take(@, x, n)]
    /\ unsaved' = Give(p, x.good, n)
    /\ StillSound(p, work.store)
    /\ UNCHANGED <<online, member, lock, work, saved, leaked, fees, owed, undone>>

\* One order of the packet; what is equipped or sealed is skipped.
DepositOrder(p) ==
    \E x \in inv[p] : \E n \in Part(x) :
        \/ \E e \in cache[p].list : StackOrder(p, x, n, e)
        \/ NewRowOrder(p, x, n)

-----------------------------------------------------------------------------
(* Withdrawals *)

CanPay(p) == Amount(Gold, inv[p]) >= Fee

BeginWithdraw(p, s) ==
    /\ Ready(p)
    /\ cache[p].store = s
    /\ CanPay(p)
    /\ work' = [who |-> p, store |-> s, out |-> TRUE, moved |-> FALSE]
    /\ UNCHANGED <<online, inv, cache, member, lock, disk, nextObj, history>>

Withdrawing(p, e) ==
    /\ work.who = p /\ work.out
    /\ Cardinality(inv[p]) < MaxSlots
    /\ \E r \in rows : r.row = e.row        \* else the UPDATE finds nothing: an error

\* What WarehouseRepo.Withdraw leaves of the row: none once nothing is in it.
WithdrawRow(e, n) ==
    LET left == {[r EXCEPT !.n = @ - n] : r \in {q \in rows : q.row = e.row}}
    IN  {r \in rows : r.row # e.row} \cup {r \in left : r.n > 0}

\* A row whose DELETE failed holds less than the list that was read before shows: what
\* is handed out beyond it is of what is owed.
Repaid(r, n) ==
    IF n <= r.n THEN owed
    ELSE {IF o.row = r.row THEN [o EXCEPT !.n = @ - (n - r.n)] ELSE o : o \in owed}

\* Bound: an object that a crash doubled does not come twice into one bag.
WithdrawOrder(p, e, n) ==
    /\ Withdrawing(p, e)
    /\ e.good \in Arms => \A x \in inv[p] : x.obj # e.obj
    /\ rows' = WithdrawRow(e, n)
    /\ LET gone == n >= e.n \/ \A r \in WithdrawRow(e, n) : r.row # e.row
       IN  cache' = [cache EXCEPT ![p].list =
                        (@ \ {e}) \cup (IF gone THEN {} ELSE {[e EXCEPT !.n = @ - n]})]
    /\ LET fresh == e.good = Gold /\ \A x \in inv[p] : x.good # Gold
       IN  /\ nextObj' = IF fresh THEN nextObj + 1 ELSE nextObj
           /\ nextObj' <= MaxObj
           /\ inv' = [inv EXCEPT ![p] = Put(@, IF fresh THEN nextObj' ELSE e.obj, e.good, n)]
    /\ work' = [work EXCEPT !.moved = TRUE]
    /\ \E r \in rows : r.row = e.row /\ owed' = Repaid(r, n)
    /\ unsaved' = Give(p, e.good, -n)
    /\ StillSound(p, work.store)
    /\ UNCHANGED <<online, member, lock, saved, nextRow, leaked, fees, mishaps, undone>>

\* The UPDATE has emptied the row and the DELETE fails: the goods are not handed out,
\* and the list still shows them.  Bound: that happens to a row once.
WithdrawFails(p, e, n) ==
    /\ Withdrawing(p, e)
    /\ \E r \in rows : r.row = e.row /\ r.n <= n
    /\ \A o \in owed : o.row # e.row
    /\ Mishap
    /\ rows' = {IF r.row = e.row THEN [r EXCEPT !.n = @ - n] ELSE r : r \in rows}
    /\ owed' = owed \cup {[e EXCEPT !.n = n]}
    /\ StillSound(p, work.store)
    /\ UNCHANGED <<mind, saved, nextRow, nextObj, leaked, fees, unsaved, undone>>

\* Fault: an adena slot with nothing left in it stays.
PayFromSlot(p) ==
    IF work.out /\ work.moved
    THEN /\ inv' = [inv EXCEPT ![p] =
                       {x \in @ : x.good # Gold} \cup {[x EXCEPT !.n = @ - Fee] : x \in {y \in @ : y.good = Gold}}]
         /\ fees' = fees + Fee
         /\ unsaved' = Give(p, Gold, Fee)
    ELSE UNCHANGED <<inv, fees, unsaved>>

\* The fee, once for a packet that moved something; the adena slot goes when empty.
PayFee(p) ==
    IF work.out /\ work.moved
    THEN /\ inv' = [inv EXCEPT ![p] =
                       {x \in @ : x.good # Gold}
                         \cup {[x EXCEPT !.n = @ - Fee] : x \in {y \in @ : y.good = Gold /\ y.n > Fee}}]
         /\ fees' = fees + Fee
         /\ unsaved' = Give(p, Gold, Fee)
    ELSE UNCHANGED <<inv, fees, unsaved>>

FinishWork ==
    /\ work # Idle
    /\ PayFee(work.who)
    /\ IF work.store = Clan THEN Release(work.who) ELSE UNCHANGED lock
    /\ work' = Idle
    /\ UNCHANGED <<online, cache, member, disk, nextObj, sound, leaked, mishaps, owed, undone>>

-----------------------------------------------------------------------------
(* Leaving the clan, coming and going, saving, stopping.  The leader cannot ban
   himself, and leaves only by dissolving the clan; joining, which touches nothing
   of the warehouse, is in Clan. *)

\* Fault: leaving forgets the lock.
LeaveClanLocked(p) ==
    /\ Ready(p) /\ p \in member \ {Leader}
    /\ member' = member \ {p}
    /\ UNCHANGED <<online, inv, cache, lock, work, disk, nextObj, history>>

\* The lock is released even when the DB then refuses to remove the member.
LeaveClan(p) ==
    /\ Ready(p) /\ p \in member \ {Leader}
    /\ Release(p)
    /\ \/ member' = member \ {p} /\ UNCHANGED mishaps
       \/ member' = member /\ Mishap
    /\ UNCHANGED <<online, inv, cache, work, disk, nextObj, sound, leaked, fees, ledger>>

\* BanMember has no such line.
BanMember(p) ==
    /\ Ready(Leader) /\ p \in member \ {Leader}
    /\ member' = member \ {p}
    /\ leaked' = IF lock = p THEN leaked \cup {p} ELSE leaked
    /\ UNCHANGED <<online, inv, cache, lock, work, disk, nextObj, sound, fees, mishaps, ledger>>

\* Out of the world, with the save done or failed.
Vanish(p) ==
    /\ online' = online \ {p}
    /\ inv' = [inv EXCEPT ![p] = {}]
    /\ cache' = [cache EXCEPT ![p] = Closed]
    /\ \/ saved' = [saved EXCEPT ![p] = inv[p]] /\ UNCHANGED <<mishaps, undone>>
       \/ saved' = saved /\ Mishap
          /\ undone' = [undone EXCEPT ![p] = [g \in Good |-> @[g] + unsaved[p][g]]]
    /\ unsaved' = [unsaved EXCEPT ![p] = Nothing]
    /\ UNCHANGED <<member, work, rows, nextRow, nextObj, sound, fees, owed>>

HandleDisconnect(p) ==
    /\ Ready(p)
    /\ Release(p)
    /\ UNCHANGED leaked
    /\ Vanish(p)

\* HandleChangeChar does not look at the lock.
HandleChangeChar(p) ==
    /\ Ready(p)
    /\ leaked' = IF lock = p THEN leaked \cup {p} ELSE leaked
    /\ UNCHANGED lock
    /\ Vanish(p)

EnterWorld(p) ==
    /\ work = Idle /\ p \notin online
    /\ online' = online \cup {p}
    /\ inv' = [inv EXCEPT ![p] = saved[p]]
    /\ cache' = [cache EXCEPT ![p] = Closed]
    /\ UNCHANGED <<member, lock, work, disk, nextObj, history>>

\* The autosave, all of whose turns succeed.
AutoSave ==
    /\ work = Idle
    /\ saved' = [p \in Player |-> IF p \in online THEN inv[p] ELSE saved[p]]
    /\ unsaved' = [p \in Player |-> Nothing]
    /\ UNCHANGED <<mind, rows, nextRow, nextObj, sound, leaked, fees, mishaps, owed, undone>>

\* MaxObjID looks at character_items, and at nothing else.
MaxObjID == Max({0} \cup {x.obj : x \in UNION {saved[p] : p \in Player}})

\* The process dies, perhaps between two orders, and starts again.
Restart ==
    /\ online' = {}
    /\ inv' = [p \in Player |-> {}]
    /\ cache' = [p \in Player |-> Closed]
    /\ lock' = NoPlayer /\ work' = Idle
    /\ leaked' = {}
    /\ nextObj' = MaxObjID
    /\ IF \A p \in online : inv[p] = saved[p] THEN UNCHANGED mishaps ELSE Mishap
    /\ undone' = [p \in Player |-> [g \in Good |-> undone[p][g] + unsaved[p][g]]]
    /\ unsaved' = [p \in Player |-> Nothing]
    /\ UNCHANGED <<member, disk, sound, fees, owed>>

-----------------------------------------------------------------------------
Init ==
    /\ online = {} /\ inv = [p \in Player |-> {}]
    /\ saved = FirstBag
    /\ rows = {}
    /\ cache = [p \in Player |-> Closed]
    /\ member = Player /\ lock = NoPlayer
    /\ nextObj = FirstObj /\ nextRow = 0
    /\ work = Idle
    /\ sound = TRUE /\ leaked = {} /\ fees = 0 /\ mishaps = 0
    /\ owed = {}
    /\ unsaved = [p \in Player |-> Nothing] /\ undone = [p \in Player |-> Nothing]

\* The packets and the coming and going of p.
Step(p) ==
    \/ OpenWarehouse(p) \/ OpenClanWarehouse(p) \/ ReleaseClanWarehouse(p)
    \/ \E s \in {p, Clan} : BeginDeposit(p, s) \/ BeginWithdraw(p, s)
    \/ DepositOrder(p)
    \/ \E e \in cache[p].list : \E n \in Part(e) : WithdrawOrder(p, e, n) \/ WithdrawFails(p, e, n)
    \/ LeaveClan(p) \/ BanMember(p)
    \/ HandleDisconnect(p) \/ HandleChangeChar(p) \/ EnterWorld(p)

Next == (\E p \in Player : Step(p)) \/ FinishWork \/ AutoSave \/ Restart

Spec == Init /\ [][Next]_vars

-----------------------------------------------------------------------------
(* Properties *)

Row == [row : 1..MaxRow, store : Store, obj : 1..MaxObj, good : Good, n : Int]
Slot == [obj : 1..MaxObj, good : Good, n : Nat]

Types ==
    /\ online \subseteq Player /\ member \subseteq Player /\ leaked \subseteq Player
    /\ lock \in Player \cup {NoPlayer}
    /\ inv \in [Player -> SUBSET Slot] /\ saved \in [Player -> SUBSET Slot]
    /\ rows \subseteq Row
    /\ cache \in [Player -> [store : Player \cup {Clan, NoPlayer}, list : SUBSET Row]]
    /\ nextObj \in 0..MaxObj /\ nextRow \in 0..MaxRow
    /\ work \in [who : Player \cup {NoPlayer}, store : Player \cup {Clan, NoPlayer},
                 out : BOOLEAN, moved : BOOLEAN]
    /\ sound \in BOOLEAN /\ fees \in Nat /\ mishaps \in 0..MaxMishaps
    /\ owed \subseteq Row
    /\ unsaved \in [Player -> [Good -> Int]] /\ undone \in [Player -> [Good -> Int]]
    /\ \A p \in Player \ online : inv[p] = {} /\ cache[p] = Closed

\* Types; who is out of the world has nothing in memory; and no slot is empty, unless
\* a DELETE failed and left an empty row to be handed out.
TypeOK ==
    /\ Types
    /\ sound /\ owed = {} => \A p \in Player : \A x \in inv[p] \cup saved[p] : x.n > 0

\* What p owns: in memory while he is in the world, else what is saved.
Owned(p) == IF p \in online THEN inv[p] ELSE saved[p]

\* What all players own of g, less what crashes and failed saves gave back.
Held(g) == SumFunction([p \in Player |-> Amount(g, Owned(p)) - undone[p][g]])

\* handleWarehouseDeposit, handleWarehouseWithdraw (warehouse.go:290-560): moves
\* neither make goods nor lose any, whoever works where and whichever statement
\* fails, as long as every move in the clan's warehouse was made by who held its lock:
\*   - an INSERT, UPDATE or SELECT that fails costs nothing;
\*   - a DELETE that fails after its UPDATE (warehouse_repo.go:105-107) costs at most
\*     what that UPDATE took, and is never the cause that more is handed out;
\*   - a failed save or a crash gives back to a player exactly what he had put in and
\*     paid since his inventory was saved, or takes what he had taken out: his
\*     inventory and its saved rows never differ by anything else.
GoodsConserved ==
    sound => \A g \in Good :
        /\ Held(g) + Amount(g, rows) + Amount(g, owed)
             + (IF g = Gold THEN fees ELSE 0) = Supply[g]
        /\ \A o \in owed : o.n >= 0
        /\ \A p \in Player : Amount(g, Owned(p)) + unsaved[p][g] = Amount(g, saved[p])

\* The list shows the row r as e: as it is, but that goods a failed DELETE has taken
\* from it may still be in the list.
Shows(e, r) ==
    /\ [e EXCEPT !.n = r.n] = r
    /\ e.n = r.n \/ \E o \in owed : o.row = r.row /\ e.n \in r.n..(r.n + o.n)

\* A list has each row of store s once, and nothing else.
Current(list, s) ==
    /\ \A e, f \in list : e.row = f.row => e = f
    /\ \A e \in list : \E r \in RowsOf(s) : Shows(e, r)
    /\ \A r \in RowsOf(s) : \E e \in list : Shows(e, r)

\* The cache decides which row a packet changes and how much it hands out
\* (warehouse.go:463-480).  A player's own is always what the table holds, and
\* the clan's is for the member who holds its lock.
CacheIsCurrent ==
    sound => \A p \in online :
        /\ cache[p].store = p => Current(cache[p].list, p)
        /\ cache[p].store = Clan /\ lock = p /\ p \in member \ leaked =>
              Current(cache[p].list, Clan)

\* The exits that release the lock (warehouse.go:101,138, clan_sys.go:369,
\* input.go:300, npcaction.go:613) are all there have to be but for a ban and
\* a change of character: who holds it is a member in the world.
LockIsReleased == lock \in {NoPlayer} \cup leaked \cup (online \cap member)

\* main.go:476 "Initialize item ObjectID counter from DB to avoid collisions": no
\* two objects in inventories and warehouses have one number.
NoIdCollisions ==
    \A p \in online : \A x \in inv[p] :
        /\ \A r \in rows : x.obj # r.obj
        /\ \A q \in online : \A y \in inv[q] : x.obj = y.obj => p = q /\ x = y
=============================================================================
