-------------------------------- MODULE Clan --------------------------------
(***************************************************************************)
(* Clans: ClanSystem (internal/system/clan_sys.go), ClanManager            *)
(* (internal/world/clan.go), ClanRepo (internal/persist/clan_repo.go).     *)
(*                                                                         *)
(* Who belongs to which clan, and with what rank, is kept five times: in   *)
(* ClanInfo.Members, ClanManager.playerClan and PlayerInfo in memory, in   *)
(* clan_members and characters on disk.  Every operation writes the disk   *)
(* first, in one transaction, and returns when that fails, so a failed     *)
(* write changes nothing.  Who asks to join is named in PendingYesNoData of *)
(* the officer asked, one field for the dialogs of all systems.  Siege and *)
(* Auction extend this module with what clans own.                         *)
(***************************************************************************)
EXTENDS Integers, FiniteSets, Functions

CONSTANTS
    Char,       \* characters
    Prince,     \* those of ClassType 0
    Wealthy,    \* those who can pay clanCreateCost
    Name,       \* clan names
    Castle, House,
    None,       \* no character, castle or house: 0
    MaxClan     \* bound: clans ever created

ASSUME ClanAssumption ==
    /\ Prince \subseteq Char /\ Wealthy \subseteq Char
    /\ None \notin Char \cup Castle \cup House
    /\ MaxClan \in Nat

VARIABLES
    online,     \* characters in the world
    me,         \* PlayerInfo.ClanID and ClanRank, of those online
    clans,      \* ClanManager.clans: ClanInfo of each clan there is
    playerClan, \* ClanManager.playerClan
    asked,      \* PendingYesNoType and Data, while a request to join is on the screen
    dbClans,    \* the rows of clans
    dbMembers,  \* the rows of clan_members: <<clan, character, rank>>
    dbChar,     \* clan_id and clan_rank in characters
    deleted,    \* characters deleted or marked so
    lastClan    \* the serial of clans

memory == <<online, me, clans, playerClan, asked>>
tables == <<dbClans, dbMembers, dbChar, deleted, lastClan>>
clanVars == <<memory, tables>>

NoClan == 0
Public == 7
Guardian == 9
Lord == 10          \* ClanRankPrince
Rank == 7..10
Free == [clan |-> NoClan, rank |-> 0]

-----------------------------------------------------------------------------
InClan(p) == p \in online /\ me[p].clan \in DOMAIN clans
ClanOf(p) == clans[me[p].clan]
Leads(p) == InClan(p) /\ p \in Prince /\ ClanOf(p).leader = p
NameTaken(n) == \E c \in DOMAIN clans : clans[c].name = n

\* CreateClan
Create(p, n) ==
    /\ p \in online \cap Prince \cap Wealthy
    /\ me[p].clan = NoClan
    /\ ~NameTaken(n)
    /\ lastClan < MaxClan
    /\ LET c == lastClan + 1
           row == [name |-> n, leader |-> p, castle |-> None, emblem |-> FALSE]
           info == [name |-> n, leader |-> p, castle |-> None, emblem |-> FALSE,
                    house |-> None, members |-> [q \in {p} |-> Lord]]
           mine == [clan |-> c, rank |-> Lord]
       IN  /\ lastClan' = c
           /\ dbClans' = [d \in DOMAIN dbClans \cup {c} |-> IF d = c THEN row ELSE dbClans[d]]
           /\ clans' = [d \in DOMAIN clans \cup {c} |-> IF d = c THEN info ELSE clans[d]]
           /\ dbMembers' = dbMembers \cup {<<c, p, Lord>>}
           /\ dbChar' = [dbChar EXCEPT ![p] = mine]
           /\ me' = [me EXCEPT ![p] = mine]
           /\ playerClan' = [playerClan EXCEPT ![p] = c]
    /\ UNCHANGED <<online, asked, deleted>>

-----------------------------------------------------------------------------
(* Joining *)

\* The officer nearest to p within three cells, whoever that is.
JoinRequest(p, t) ==
    /\ p \in online /\ me[p].clan = NoClan
    /\ t # p /\ InClan(t)
    /\ t \in DOMAIN ClanOf(t).members
    /\ ClanOf(t).members[t] \in {Guardian, Lord}
    /\ asked' = [asked EXCEPT ![t] = [who |-> p, join |-> TRUE]]
    /\ UNCHANGED <<online, me, clans, playerClan, tables>>

\* Before t answers, another system asks him something about q: a party, a duel.
OtherDialog(t, q) ==
    /\ asked[t] # None /\ q \in online \ {t}
    /\ asked' = [asked EXCEPT ![t] = [who |-> q, join |-> FALSE]]
    /\ UNCHANGED <<online, me, clans, playerClan, tables>>

\* ClanRepo.AddMember, ClanManager.AddMember, and the applicant's own fields.
Enroll(p, c) ==
    /\ dbMembers' = dbMembers \cup {<<c, p, Public>>}
    /\ dbChar' = [dbChar EXCEPT ![p] = [clan |-> c, rank |-> Public]]
    /\ clans' = [clans EXCEPT ![c].members = [q \in DOMAIN @ \cup {p} |-> IF q = p THEN Public ELSE @[q]]]
    /\ playerClan' = [playerClan EXCEPT ![p] = c]
    /\ me' = [me EXCEPT ![p] = [clan |-> c, rank |-> Public]]

\* The answer Yes to a request: whoever PendingYesNoData names now joins the
\* clan the officer is in now.  The type of the dialog is not looked at.
JoinResponse(t) ==
    /\ asked[t] # None
    /\ asked' = [asked EXCEPT ![t] = None]
    /\ LET p == asked[t].who IN
        IF p \in online /\ me[p].clan = NoClan /\ InClan(t)
        THEN Enroll(p, me[t].clan)
        ELSE UNCHANGED <<me, clans, playerClan, dbMembers, dbChar>>
    /\ UNCHANGED <<online, dbClans, deleted, lastClan>>

-----------------------------------------------------------------------------
(* Leaving, expulsion, dissolution *)

\* ClanRepo.RemoveMember and ClanManager.RemoveMember.
Remove(p, c) ==
    /\ dbMembers' = {m \in dbMembers : ~(m[1] = c /\ m[2] = p)}
    /\ dbChar' = [dbChar EXCEPT ![p] = Free]
    /\ clans' = [clans EXCEPT ![c].members = Restrict(@, DOMAIN @ \ {p})]
    /\ playerClan' = [playerClan EXCEPT ![p] = NoClan]

\* memberLeave
LeaveClan(p) ==
    /\ InClan(p) /\ ~Leads(p)
    /\ Remove(p, me[p].clan)
    /\ me' = [me EXCEPT ![p] = Free]
    /\ UNCHANGED <<online, asked, dbClans, deleted, lastClan>>

\* The members who are in the world lose their clan.
Dismissed(ps) == [q \in Char |-> IF q \in ps \cap online THEN Free ELSE me[q]]

\* Fault: the members in the world are not told.
DissolveSilently(p) ==
    /\ Leads(p) /\ ClanOf(p).castle = None /\ ClanOf(p).house = None
    /\ LET c == me[p].clan IN
        /\ dbChar' = [q \in Char |-> IF \E r \in Rank : <<c, q, r>> \in dbMembers THEN Free ELSE dbChar[q]]
        /\ dbMembers' = {m \in dbMembers : m[1] # c}
        /\ dbClans' = Restrict(dbClans, DOMAIN dbClans \ {c})
        /\ clans' = Restrict(clans, DOMAIN clans \ {c})
        /\ playerClan' = [q \in Char |-> IF q \in DOMAIN clans[c].members THEN NoClan ELSE playerClan[q]]
        /\ me' = [me EXCEPT ![p] = Free]
    /\ UNCHANGED <<online, asked, deleted, lastClan>>

\* dissolveClan: refused while the clan owns a castle or a house.
DissolveClan(p) ==
    /\ Leads(p) /\ ClanOf(p).castle = None /\ ClanOf(p).house = None
    /\ LET c == me[p].clan IN
        /\ dbChar' = [q \in Char |-> IF \E r \in Rank : <<c, q, r>> \in dbMembers THEN Free ELSE dbChar[q]]
        /\ dbMembers' = {m \in dbMembers : m[1] # c}
        /\ dbClans' = Restrict(dbClans, DOMAIN dbClans \ {c})
        /\ clans' = Restrict(clans, DOMAIN clans \ {c})
        /\ playerClan' = [q \in Char |-> IF q \in DOMAIN clans[c].members THEN NoClan ELSE playerClan[q]]
        /\ me' = Dismissed(DOMAIN clans[c].members)
    /\ UNCHANGED <<online, asked, deleted, lastClan>>

\* A member in the world, or one his characters row says is a member.
BanMember(p, t) ==
    /\ Leads(p) /\ t # p
    /\ IF t \in online THEN me[t].clan = me[p].clan
       ELSE t \notin deleted /\ dbChar[t].clan = me[p].clan
    /\ Remove(t, me[p].clan)
    /\ me' = IF t \in online THEN [me EXCEPT ![t] = Free] ELSE me
    /\ UNCHANGED <<online, asked, dbClans, deleted, lastClan>>

-----------------------------------------------------------------------------
(* Ranks and the emblem *)

\* Fault: an officer may promote up to his own rank.
CanGrantOwn(mine) == IF mine \in {Guardian, Lord} THEN 7..mine ELSE {}

\* canGrantRank
CanGrant(mine) == IF mine = Lord THEN 7..9 ELSE IF mine = Guardian THEN 7..8 ELSE {}

\* ChangeRank.  That a guardian must be of level 40 is left out.
ChangeRank(p, t, r) ==
    /\ InClan(p) /\ t # p /\ t \in online
    /\ r \in CanGrant(me[p].rank)
    /\ me[t].clan = me[p].clan
    /\ me[t].rank \in {Guardian, Lord} => me[p].rank = Lord
    /\ LET c == me[p].clan IN
        /\ dbMembers' = {IF m[1] = c /\ m[2] = t THEN <<c, t, r>> ELSE m : m \in dbMembers}
        /\ dbChar' = [dbChar EXCEPT ![t].rank = r]
        /\ clans' = IF t \in DOMAIN clans[c].members
                    THEN [clans EXCEPT ![c].members[t] = r] ELSE clans
    /\ me' = [me EXCEPT ![t].rank = r]
    /\ UNCHANGED <<online, asked, playerClan, dbClans, deleted, lastClan>>

UploadEmblem(p) ==
    /\ InClan(p) /\ me[p].rank = Lord
    /\ clans' = [clans EXCEPT ![me[p].clan].emblem = TRUE]
    /\ dbClans' = [dbClans EXCEPT ![me[p].clan].emblem = TRUE]
    /\ UNCHANGED <<online, me, asked, playerClan, dbMembers, dbChar, deleted, lastClan>>

-----------------------------------------------------------------------------
(* Coming, going, deletion, restart *)

EnterWorld(p) ==
    /\ p \notin online \cup deleted
    /\ online' = online \cup {p}
    /\ me' = [me EXCEPT ![p] = dbChar[p]]
    /\ UNCHANGED <<clans, playerClan, asked, tables>>

\* SaveCharacter writes the fields of PlayerInfo over what the clan repo wrote.
LeaveWorld(p) ==
    /\ p \in online
    /\ online' = online \ {p}
    /\ dbChar' = [dbChar EXCEPT ![p] = me[p]]
    /\ me' = [me EXCEPT ![p] = Free]
    /\ asked' = [asked EXCEPT ![p] = None]
    /\ UNCHANGED <<clans, playerClan, dbClans, dbMembers, deleted, lastClan>>

\* Not for a leader.  The row of a member stays, marked: clan_members refers to it.
DeleteChar(p) ==
    /\ p \notin online \cup deleted
    /\ ~(dbChar[p].clan \in DOMAIN clans /\ clans[dbChar[p].clan].leader = p)
    /\ deleted' = deleted \cup {p}
    /\ UNCHANGED <<memory, dbClans, dbMembers, dbChar, lastClan>>

MembersIn(c) == {m[2] : m \in {x \in dbMembers : x[1] = c}}
RankIn(c, p) == CHOOSE r \in Rank : <<c, p, r>> \in dbMembers

\* loadClans.  No statement of the program writes has_house.
Loaded ==
    [c \in DOMAIN dbClans |->
        [name |-> dbClans[c].name, leader |-> dbClans[c].leader,
         castle |-> dbClans[c].castle, emblem |-> dbClans[c].emblem, house |-> None,
         members |-> [p \in MembersIn(c) |-> RankIn(c, p)]]]

Restart ==
    /\ online' = {} /\ me' = [p \in Char |-> Free]
    /\ clans' = Loaded
    /\ playerClan' = [p \in Char |->
          IF \E c \in DOMAIN dbClans : p \in MembersIn(c)
          THEN CHOOSE c \in DOMAIN dbClans : p \in MembersIn(c) ELSE NoClan]
    /\ asked' = [p \in Char |-> None]
    /\ UNCHANGED tables

-----------------------------------------------------------------------------
ClanInit ==
    /\ online = {} /\ me = [p \in Char |-> Free]
    /\ clans = <<>> /\ dbClans = <<>>
    /\ playerClan = [p \in Char |-> NoClan]
    /\ asked = [p \in Char |-> None]
    /\ dbMembers = {} /\ dbChar = [p \in Char |-> Free]
    /\ deleted = {} /\ lastClan = 0

\* Everything but the restart, which the modules that extend this one complete.
ClanStep ==
    \E p \in Char :
        \/ \E n \in Name : Create(p, n)
        \/ \E t \in Char : JoinRequest(p, t) \/ OtherDialog(p, t) \/ BanMember(p, t)
                              \/ \E r \in Rank : ChangeRank(p, t, r)
        \/ JoinResponse(p) \/ LeaveClan(p) \/ DissolveClan(p) \/ UploadEmblem(p)
        \/ EnterWorld(p) \/ LeaveWorld(p) \/ DeleteChar(p)

-----------------------------------------------------------------------------
(* Properties *)

ClanTypeOK ==
    /\ online \subseteq Char \ deleted
    /\ me \in [Char -> [clan : 0..MaxClan, rank : Rank \cup {0}]]
    /\ \A c \in DOMAIN clans :
          /\ c \in 1..lastClan
          /\ clans[c].name \in Name /\ clans[c].leader \in Prince
          /\ clans[c].castle \in Castle \cup {None} /\ clans[c].house \in House \cup {None}
          /\ clans[c].emblem \in BOOLEAN
          /\ clans[c].members \in [DOMAIN clans[c].members -> Rank]
          /\ DOMAIN clans[c].members \subseteq Char
    /\ playerClan \in [Char -> 0..MaxClan]
    /\ asked \in [Char -> [who : Char, join : BOOLEAN] \cup {None}]
    /\ dbMembers \subseteq (1..MaxClan) \X Char \X Rank
    /\ dbChar \in [Char -> [clan : 0..MaxClan, rank : Rank \cup {0}]]

MemberOf(p, c) == c \in DOMAIN clans /\ p \in DOMAIN clans[c].members

\* The copies of membership (world/clan.go:46,62, world/state.go ClanID,
\* clan_members, characters): whatever order requests, answers, expulsions,
\* promotions, logins, saves, deletions and restarts come in, all agree.
RecordsAgree ==
    /\ \A p \in Char, c \in 1..MaxClan : MemberOf(p, c) <=> playerClan[p] = c
    /\ \A p \in online : me[p] = IF playerClan[p] = NoClan THEN Free
                                 ELSE [clan |-> playerClan[p], rank |-> clans[playerClan[p]].members[p]]
    /\ \A p \in Char : dbChar[p].clan = playerClan[p]
    /\ DOMAIN dbClans = DOMAIN clans
    /\ dbMembers = UNION {{<<c, p, clans[c].members[p]>> : p \in DOMAIN clans[c].members} : c \in DOMAIN clans}

\* ClanInfo.LeaderID (world/clan.go:49): a clan has its leader, the leader alone
\* has rank 10, and no two clans have one name; so somebody can always dissolve
\* it, and ranks cannot be taken over.
OneLeader ==
    \A c \in DOMAIN clans :
        /\ clans[c].leader \in Prince \ deleted
        /\ \A p \in DOMAIN clans[c].members : clans[c].members[p] = Lord <=> p = clans[c].leader
        /\ clans[c].leader \in DOMAIN clans[c].members
        /\ \A d \in DOMAIN clans : clans[d].name = clans[c].name => d = c

\* What has to hold of every clan: the copies of membership, and who leads.
ClansAgree == ClanTypeOK /\ RecordsAgree /\ OneLeader

\* attr.go:69 "97: Clan join request: %0想加入你的血盟，是否同意？(Y/N)" (%0 wants to
\* join your clan): who is admitted is the one who asked.
OnlyApplicantsJoin ==
    [][\A p \in online : me[p].clan = NoClan /\ me'[p].rank = Public =>
          \E t \in online : asked[t] = [who |-> p, join |-> TRUE] /\ asked'[t] = None]_clanVars
=============================================================================
