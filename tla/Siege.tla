-------------------------------- MODULE Siege --------------------------------
(***************************************************************************)
(* Wars and castles: WarSystem (internal/system/war_sys.go) and            *)
(* CastleSystem (internal/system/castle_sys.go), on top of Clan.           *)
(*                                                                         *)
(* A castle's owner is kept in CastleInfo.OwnerClanID and in the clan's    *)
(* HasCastle, in memory and in the table; wars name clans and live in      *)
(* memory only.  A castle is at war for two hours a week: `due` says where *)
(* the clock stands with respect to CastleInfo.WarTime, and a running      *)
(* server, which looks at it every tick, never misses the two hours.       *)
(* Treasury, tax, war flags, gates, catapults and gifts are left out.      *)
(***************************************************************************)
EXTENDS Clan

VARIABLES
    owner,      \* CastleInfo.OwnerClanID
    isWar,      \* CastleInfo.IsWar
    due,        \* the clock: before WarTime, during the two hours, or past them
    wars,       \* WarSystem.wars
    tower,      \* castles whose guardian tower stands
    crown,      \* castles where a crown lies
    torn        \* history: a transfer of which only a part was written

siegeVars == <<owner, isWar, due, wars, tower, crown, torn>>
warVars == <<clanVars, siegeVars>>

Phase == {"before", "during", "past"}

-----------------------------------------------------------------------------
(* Wars *)

InWar(w, n) == n \in w.att \/ w.def = n
IsWar(n, m) == \E w \in wars : InWar(w, n) /\ InWar(w, m)

\* The clan of that name, not the one of p.
Foe(p, n) == {d \in DOMAIN clans \ {me[p].clan} : clans[d].name = n}

\* declareCastleWar; the leader's level is left out.
DeclareCastleWar(p, n) ==
    \E d \in Foe(p, n) :
        LET k == clans[d].castle
            mine == ClanOf(p).name
            old == {w \in wars : w.castle = k /\ w.def = n}
        IN  /\ Leads(p) /\ ClanOf(p).emblem
            /\ k # None
            /\ ClanOf(p).castle = None
            /\ isWar[k]
            /\ \A w \in wars : w.castle = k => mine \notin w.att
            /\ wars' = IF old = {} THEN wars \cup {[castle |-> k, def |-> n, att |-> {mine}]}
                       ELSE (wars \ old) \cup {[w EXCEPT !.att = @ \cup {mine}] : w \in old}
            /\ UNCHANGED <<clanVars, owner, isWar, due, tower, crown, torn>>

\* declareSimWar
DeclareSimWar(p, n) ==
    \E d \in Foe(p, n) :
        /\ Leads(p) /\ ClanOf(p).emblem
        /\ clans[d].castle = None
        /\ ~IsWar(ClanOf(p).name, n)
        /\ wars' = wars \cup {[castle |-> None, def |-> n, att |-> {ClanOf(p).name}]}
        /\ UNCHANGED <<clanVars, owner, isWar, due, tower, crown, torn>>

IsLeader(p) == InClan(p) /\ ClanOf(p).leader = p

\* Fault: a war all attackers have left goes on.
SurrenderInVain(p) ==
    /\ IsLeader(p)
    /\ \E w \in wars :
          /\ ClanOf(p).name \in w.att
          /\ wars' = (wars \ {w}) \cup {[w EXCEPT !.att = @ \ {ClanOf(p).name}]}
    /\ UNCHANGED <<clanVars, owner, isWar, due, tower, crown, torn>>

\* The first war of the list in which p's clan attacks the one named.
SurrenderWar(p) ==
    /\ IsLeader(p)
    /\ \E w \in wars :
          /\ ClanOf(p).name \in w.att
          /\ LET rest == w.att \ {ClanOf(p).name}
             IN  wars' = (wars \ {w}) \cup (IF rest = {} THEN {} ELSE {[w EXCEPT !.att = rest]})
    /\ UNCHANGED <<clanVars, owner, isWar, due, tower, crown, torn>>

\* A truce, which a war for a castle does not know.
CeaseWar(p, n) ==
    /\ IsLeader(p)
    /\ \E w \in wars :
          /\ InWar(w, ClanOf(p).name) /\ InWar(w, n)
          /\ w.castle = None
          /\ wars' = wars \ {w}
    /\ UNCHANGED <<clanVars, owner, isWar, due, tower, crown, torn>>

-----------------------------------------------------------------------------
(* The calendar of a castle *)

\* A server that runs starts the war within the two hours, and ends it before the week is over.
TimePasses(k) ==
    /\ \/ due[k] = "before" /\ due' = [due EXCEPT ![k] = "during"]
       \/ due[k] = "during" /\ isWar[k] /\ due' = [due EXCEPT ![k] = "past"]
    /\ UNCHANGED <<clanVars, owner, isWar, wars, tower, crown, torn>>

StartWar(k) ==
    /\ due[k] = "during" /\ ~isWar[k]
    /\ isWar' = [isWar EXCEPT ![k] = TRUE]
    /\ UNCHANGED <<clanVars, owner, due, wars, tower, crown, torn>>

\* CeaseCastleWar and WinCastleWar both end every war for the castle.
PeaceAt(k) == {w \in wars : w.castle # k}

\* The crown stays where it is.
EndWar(k) ==
    /\ due[k] = "past" /\ isWar[k]
    /\ isWar' = [isWar EXCEPT ![k] = FALSE]
    /\ due' = [due EXCEPT ![k] = "before"]
    /\ wars' = PeaceAt(k)
    /\ UNCHANGED <<clanVars, owner, tower, crown, torn>>

-----------------------------------------------------------------------------
(* Conquest *)

\* CanDamageTower, whose killer's clan declared war.  A tower does not come back.
OnTowerDeath(p, k) ==
    /\ InClan(p) /\ k \in tower
    /\ isWar[k]
    /\ me[p].clan # owner[k]
    /\ owner[k] \in DOMAIN clans => IsWar(ClanOf(p).name, clans[owner[k]].name)
    /\ tower' = tower \ {k}
    /\ crown' = crown \cup {k}
    /\ UNCHANGED <<clanVars, owner, isWar, due, wars, torn>>

\* Fault: the clan that had the castle still believes it has it.
GiveTo(c, k, rows) == [d \in DOMAIN rows |-> IF d = c THEN [rows[d] EXCEPT !.castle = k] ELSE rows[d]]

\* TransferCastle: first the old owner's row, then the new one's.
Given(c, k, rows) ==
    [d \in DOMAIN rows |-> IF d = c THEN [rows[d] EXCEPT !.castle = k]
                           ELSE IF d = owner[k] THEN [rows[d] EXCEPT !.castle = None] ELSE rows[d]]

\* The two UPDATEs of the table: errors are ignored, so either may be missing.
Written(c, k) == {Given(c, k, dbClans), GiveTo(c, k, dbClans), Given(0, k, dbClans), dbClans}

\* HandleCrownClick
HandleCrownClick(p, k) ==
    /\ Leads(p) /\ k \in crown
    /\ ClanOf(p).castle = None
    /\ isWar[k]
    /\ owner[k] \in DOMAIN clans => IsWar(ClanOf(p).name, clans[owner[k]].name)
    /\ wars' = PeaceAt(k)
    /\ LET c == me[p].clan IN
        /\ owner' = [owner EXCEPT ![k] = c]
        /\ clans' = Given(c, k, clans)
        /\ dbClans' \in Written(c, k)
        /\ torn' = (torn \/ dbClans' # Given(c, k, dbClans))
    /\ crown' = crown \ {k}
    /\ UNCHANGED <<online, me, playerClan, asked, dbMembers, dbChar, deleted, lastClan,
                   isWar, due, tower>>

\* loadFromDB and refreshOwnerClans: of two clans that claim a castle, either.
\* The server was down for any time, and WarTime is what it was.
SiegeRestart ==
    /\ Restart
    /\ owner' \in {f \in [Castle -> 0..MaxClan] : \A k \in Castle :
                      LET claim == {c \in DOMAIN dbClans : dbClans[c].castle = k}
                      IN  IF claim = {} THEN f[k] = NoClan ELSE f[k] \in claim}
    /\ isWar' = [k \in Castle |-> FALSE]
    /\ due' \in {f \in [Castle -> Phase] : \A k \in Castle :
                    /\ due[k] = "past" => f[k] = "past"
                    /\ due[k] = "during" => f[k] # "before"}
    /\ wars' = {} /\ tower' = Castle /\ crown' = {}
    /\ UNCHANGED torn

-----------------------------------------------------------------------------
SiegeInit ==
    /\ owner = [k \in Castle |-> NoClan]
    /\ isWar = [k \in Castle |-> FALSE] /\ due = [k \in Castle |-> "before"]
    /\ wars = {} /\ tower = Castle /\ crown = {} /\ torn = FALSE

Calendar(k) == TimePasses(k) \/ StartWar(k) \/ EndWar(k)

SiegeStep ==
    \/ \E p \in Char :
          \/ \E n \in Name : DeclareCastleWar(p, n) \/ DeclareSimWar(p, n) \/ CeaseWar(p, n)
          \/ SurrenderWar(p)
          \/ \E k \in Castle : OnTowerDeath(p, k) \/ HandleCrownClick(p, k)
    \/ \E k \in Castle : Calendar(k)

SiegeNext == (ClanStep /\ UNCHANGED siegeVars) \/ SiegeStep \/ SiegeRestart

SiegeSpec == ClanInit /\ SiegeInit /\ [][SiegeNext]_warVars

\* Time passes, and the tick comes round.
FairSiege == SiegeSpec /\ \A k \in Castle : WF_warVars(Calendar(k))

-----------------------------------------------------------------------------
(* Properties *)

SiegeTypeOK ==
    /\ owner \in [Castle -> 0..MaxClan] /\ isWar \in [Castle -> BOOLEAN]
    /\ due \in [Castle -> Phase]
    /\ wars \subseteq [castle : Castle \cup {None}, def : Name, att : SUBSET Name]
    /\ tower \subseteq Castle /\ crown \subseteq Castle \ tower /\ torn \in BOOLEAN

\* refreshOwnerClans, TransferCastle (castle_sys.go:72-90,256-288): the castle
\* and the clan name each other, in memory and in the table; so a clan that has no castle is never
\* kept from dissolving or declaring war, and one that has is never left out.
CastlesAgree ==
    \A k \in Castle, c \in 1..MaxClan :
        /\ owner[k] = c <=> c \in DOMAIN clans /\ clans[c].castle = k
        /\ c \in DOMAIN clans => dbClans[c].castle = clans[c].castle

\* WinCastleWar, CeaseCastleWar (war_sys.go:210-239): a war for a castle is fought
\* while the castle is at war, against the clan that owns it now, by somebody else.
WarsAreCurrent ==
    \A w \in wars :
        /\ w.att # {} /\ w.def \notin w.att
        /\ w.castle # None =>
              /\ isWar[w.castle]
              /\ owner[w.castle] \in DOMAIN clans /\ clans[owner[w.castle]].name = w.def

\* Both, unless a restart found a transfer half written.
SiegesAgree == SiegeTypeOK /\ (torn \/ (CastlesAgree /\ WarsAreCurrent))

\* castle_sys.go:366 "更新下次攻城戰時間（+7 天）" (set the time of the next war, in
\* seven days): there is always a next war.
WarsRecur == \A k \in Castle : []<>isWar[k]

\* isOwner: the rank it asks for is of another scale.
IsOwner(p, k) == owner[k] # NoClan /\ me[p].clan = owner[k] /\ me[p].rank \in {0, 1}

\* castle_sys.go:753 "isOwner 驗證玩家是否為指定城堡的城主公會盟主" (isOwner checks
\* that the player leads the clan that owns the castle).
LordsAreOwners == \A p \in online, k \in Castle : Leads(p) /\ ClanOf(p).castle = k => IsOwner(p, k)
=============================================================================
