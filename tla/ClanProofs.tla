----------------------------- MODULE ClanProofs -----------------------------
(***************************************************************************)
(* Proofs about Clan, Siege and Auction: the copies of membership agree,   *)
(* a clan has its one leader, castles and their owners name each other,    *)
(* wars are current and bids are recorded, for every set of characters,    *)
(* clans, castles and houses.                                              *)
(***************************************************************************)
EXTENDS Siege, Auction, TLAPS

USE ClanAssumption DEF NoClan, Public, Guardian, Lord, Rank

-----------------------------------------------------------------------------
(* The invariant of clans.                                                   *)

IsInfo(i) ==
    /\ i = [name |-> i.name, leader |-> i.leader, castle |-> i.castle, emblem |-> i.emblem,
            house |-> i.house, members |-> i.members]
    /\ i.name \in Name /\ i.leader \in Prince
    /\ i.castle \in Castle \cup {None} /\ i.house \in House \cup {None}
    /\ i.emblem \in BOOLEAN
    /\ i.members \in [DOMAIN i.members -> Rank] /\ DOMAIN i.members \subseteq Char

IsRow(r) ==
    /\ r = [name |-> r.name, leader |-> r.leader, castle |-> r.castle, emblem |-> r.emblem]
    /\ r.castle \in Castle \cup {None} /\ r.emblem \in BOOLEAN

\* One field of ClanInfo, or of its row, changes.
LEMMA InfoWith ==
    ASSUME NEW i, IsInfo(i)
    PROVE  /\ IsInfo([i EXCEPT !.emblem = TRUE])
           /\ \A f \in {"name", "leader", "members"} : [i EXCEPT !.emblem = TRUE][f] = i[f]
           /\ \A k \in Castle \cup {None} :
                 /\ IsInfo([i EXCEPT !.castle = k]) /\ [i EXCEPT !.castle = k].castle = k
                 /\ \A f \in {"name", "leader", "members"} : [i EXCEPT !.castle = k][f] = i[f]
           /\ \A h \in House \cup {None} :
                 /\ IsInfo([i EXCEPT !.house = h])
                 /\ \A f \in {"name", "leader", "members"} : [i EXCEPT !.house = h][f] = i[f]
<1>1. PICK n, l, k, e, h, m :
          i = [name |-> n, leader |-> l, castle |-> k, emblem |-> e, house |-> h, members |-> m]
    BY DEF IsInfo
<1>2. /\ n \in Name /\ l \in Prince /\ k \in Castle \cup {None} /\ h \in House \cup {None}
      /\ e \in BOOLEAN /\ m \in [DOMAIN m -> Rank] /\ DOMAIN m \subseteq Char
    BY <1>1 DEF IsInfo
<1>3. \A x : [i EXCEPT !.emblem = x] =
          [name |-> n, leader |-> l, castle |-> k, emblem |-> x, house |-> h, members |-> m]
    BY <1>1
<1>4. \A x : [i EXCEPT !.castle = x] =
          [name |-> n, leader |-> l, castle |-> x, emblem |-> e, house |-> h, members |-> m]
    BY <1>1
<1>5. \A x : [i EXCEPT !.house = x] =
          [name |-> n, leader |-> l, castle |-> k, emblem |-> e, house |-> x, members |-> m]
    BY <1>1
<1>6. IsInfo([i EXCEPT !.emblem = TRUE])
      /\ \A f \in {"name", "leader", "members"} : [i EXCEPT !.emblem = TRUE][f] = i[f]
    BY <1>1, <1>2, <1>3 DEF IsInfo
<1>7. ASSUME NEW x \in Castle \cup {None}
      PROVE  /\ IsInfo([i EXCEPT !.castle = x]) /\ [i EXCEPT !.castle = x].castle = x
             /\ \A f \in {"name", "leader", "members"} : [i EXCEPT !.castle = x][f] = i[f]
    BY <1>1, <1>2, <1>4 DEF IsInfo
<1>8. ASSUME NEW x \in House \cup {None}
      PROVE  /\ IsInfo([i EXCEPT !.house = x])
             /\ \A f \in {"name", "leader", "members"} : [i EXCEPT !.house = x][f] = i[f]
    BY <1>1, <1>2, <1>5 DEF IsInfo
<1>. QED
    BY <1>6, <1>7, <1>8

LEMMA RowWith ==
    ASSUME NEW i, IsRow(i)
    PROVE  /\ IsRow([i EXCEPT !.emblem = TRUE])
           /\ \A f \in {"name", "leader"} : [i EXCEPT !.emblem = TRUE][f] = i[f]
           /\ \A k \in Castle \cup {None} :
                 /\ IsRow([i EXCEPT !.castle = k]) /\ [i EXCEPT !.castle = k].castle = k
                 /\ \A f \in {"name", "leader"} : [i EXCEPT !.castle = k][f] = i[f]
<1>1. PICK n, l, k, e : i = [name |-> n, leader |-> l, castle |-> k, emblem |-> e]
    BY DEF IsRow
<1>2. k \in Castle \cup {None} /\ e \in BOOLEAN
    BY <1>1 DEF IsRow
<1>3. \A x : [i EXCEPT !.emblem = x] = [name |-> n, leader |-> l, castle |-> k, emblem |-> x]
    BY <1>1
<1>4. \A x : [i EXCEPT !.castle = x] = [name |-> n, leader |-> l, castle |-> x, emblem |-> e]
    BY <1>1
<1>5. IsRow([i EXCEPT !.emblem = TRUE])
      /\ \A f \in {"name", "leader"} : [i EXCEPT !.emblem = TRUE][f] = i[f]
    BY <1>1, <1>2, <1>3 DEF IsRow
<1>6. ASSUME NEW x \in Castle \cup {None}
      PROVE  /\ IsRow([i EXCEPT !.castle = x]) /\ [i EXCEPT !.castle = x].castle = x
             /\ \A f \in {"name", "leader"} : [i EXCEPT !.castle = x][f] = i[f]
    BY <1>1, <1>2, <1>4 DEF IsRow
<1>. QED
    BY <1>5, <1>6

\* The clans there are, in memory and in their table.
Files ==
    /\ lastClan \in 0..MaxClan /\ DOMAIN clans \subseteq 1..lastClan
    /\ clans = [c \in DOMAIN clans |-> clans[c]]
    /\ dbClans = [c \in DOMAIN clans |-> dbClans[c]]
    /\ \A c \in DOMAIN clans :
          /\ IsInfo(clans[c]) /\ IsRow(dbClans[c])
          /\ dbClans[c].name = clans[c].name /\ dbClans[c].leader = clans[c].leader

Link == [clan : 0..MaxClan, rank : Rank \cup {0}]

Persons ==
    /\ online \subseteq Char \ deleted
    /\ me \in [Char -> Link] /\ dbChar \in [Char -> Link]
    /\ playerClan \in [Char -> 0..MaxClan]
    /\ asked \in [Char -> [who : Char, join : BOOLEAN] \cup {None}]

\* What PlayerInfo of p has to say, by what the manager of clans says.
Mine(p) ==
    IF playerClan[p] = NoClan THEN Free
    ELSE [clan |-> playerClan[p], rank |-> clans[playerClan[p]].members[p]]

\* A character's row is right even while he plays, as every operation writes it.
Filed ==
    /\ \A p \in Char, c \in 1..MaxClan : MemberOf(p, c) <=> playerClan[p] = c
    /\ \A p \in Char : dbChar[p] = Mine(p)
    /\ \A p \in online : me[p] = Mine(p)

Rows ==
    /\ dbMembers \subseteq (1..MaxClan) \X Char \X Rank
    /\ \A c \in 1..MaxClan, p \in Char, r \in Rank :
          <<c, p, r>> \in dbMembers <=> MemberOf(p, c) /\ clans[c].members[p] = r

CInv == Files /\ Persons /\ Filed /\ Rows /\ OneLeader

-----------------------------------------------------------------------------
(* What it says.                                                             *)

LEMMA FreeLink == Free \in Link /\ Free.clan = 0 /\ Free.rank = 0
BY DEF Free, Link

\* Who is in a clan is one of its members, with the rank he has there.
LEMMA InClanFacts ==
    ASSUME CInv, NEW p \in online, me[p].clan # NoClan
    PROVE  /\ p \in Char /\ InClan(p) /\ me[p].clan \in DOMAIN clans /\ me[p].clan \in 1..MaxClan
           /\ playerClan[p] = me[p].clan
           /\ p \in DOMAIN clans[me[p].clan].members
           /\ me[p] = [clan |-> me[p].clan, rank |-> clans[me[p].clan].members[p]]
           /\ me[p].rank = clans[me[p].clan].members[p]
<1>1. p \in Char /\ me[p] \in Link /\ me[p] = Mine(p) /\ playerClan[p] \in 0..MaxClan
    BY DEF CInv, Persons, Filed
<1>2. playerClan[p] # NoClan
    BY <1>1, FreeLink DEF Mine
<1>3. me[p].clan = playerClan[p]
    BY <1>1, <1>2 DEF Mine
<1>4. MemberOf(p, playerClan[p])
    BY <1>1, <1>2 DEF CInv, Filed
<1>. QED
    BY <1>1, <1>2, <1>3, <1>4 DEF MemberOf, InClan, Mine

\* Nobody without a clan is listed in one.
LEMMA FreeFacts ==
    ASSUME CInv, NEW p \in Char, playerClan[p] = NoClan
    PROVE  /\ dbChar[p] = Free /\ (p \in online => me[p] = Free)
           /\ \A c \in DOMAIN clans : p \notin DOMAIN clans[c].members
<1>1. \A c \in DOMAIN clans : c \in 1..MaxClan
    BY DEF CInv, Files
<1>2. dbChar[p] = Free /\ (p \in online => me[p] = Free)
    BY DEF CInv, Filed, Mine
<1>3. \A c \in 1..MaxClan : ~MemberOf(p, c)
    BY DEF CInv, Filed
<1>. QED
    BY <1>1, <1>2, <1>3 DEF MemberOf

\* A character's clan, wherever it is looked up.
LEMMA LinkFacts ==
    ASSUME CInv, NEW p \in Char
    PROVE  dbChar[p].clan = playerClan[p] /\ (p \in online => me[p].clan = playerClan[p])
<1>1. dbChar[p] = Mine(p) /\ (p \in online => me[p] = Mine(p))
    BY DEF CInv, Filed
<1>2. Mine(p).clan = playerClan[p]
    <2>1. CASE playerClan[p] = NoClan
        BY <2>1, FreeLink DEF Mine
    <2>2. CASE playerClan[p] # NoClan
        BY <2>2 DEF Mine
    <2>. QED
        BY <2>1, <2>2
<1>. QED
    BY <1>1, <1>2

LEMMA LeadsFacts ==
    ASSUME CInv, NEW p, Leads(p)
    PROVE  /\ p \in online /\ p \in Char /\ me[p].clan \in DOMAIN clans /\ me[p].clan \in 1..MaxClan
           /\ me[p].clan # NoClan
           /\ clans[me[p].clan].leader = p
<1>1. p \in online /\ me[p].clan \in DOMAIN clans /\ clans[me[p].clan].leader = p
    BY DEF Leads, InClan, ClanOf
<1>. QED
    BY <1>1 DEF CInv, Files, Persons

\* The records agree as the module states it.
LEMMA CInvAgrees == CInv => ClansAgree
<1> SUFFICES ASSUME CInv PROVE ClansAgree
    OBVIOUS
<1>1. ClanTypeOK
    <2>1. \A c \in DOMAIN clans : c \in 1..lastClan /\ IsInfo(clans[c])
        BY DEF CInv, Files
    <2>. QED
        BY <2>1 DEF CInv, Persons, Rows, ClanTypeOK, IsInfo, Link
<1>2. \A p \in online : me[p] = IF playerClan[p] = NoClan THEN Free
                                 ELSE [clan |-> playerClan[p], rank |-> clans[playerClan[p]].members[p]]
    BY DEF CInv, Filed, Mine
<1>3. \A p \in Char : dbChar[p].clan = playerClan[p]
    BY LinkFacts
<1>4. DOMAIN dbClans = DOMAIN clans
    BY DEF CInv, Files
<1>5. dbMembers = UNION {{<<c, p, clans[c].members[p]>> : p \in DOMAIN clans[c].members} : c \in DOMAIN clans}
    <2>1. ASSUME NEW m \in dbMembers
          PROVE  \E c \in DOMAIN clans : \E p \in DOMAIN clans[c].members : m = <<c, p, clans[c].members[p]>>
        <3>1. PICK c \in 1..MaxClan, p \in Char, r \in Rank : m = <<c, p, r>>
            BY DEF CInv, Rows
        <3>2. MemberOf(p, c) /\ clans[c].members[p] = r
            BY <3>1 DEF CInv, Rows
        <3>. QED
            BY <3>1, <3>2 DEF MemberOf
    <2>2. ASSUME NEW c \in DOMAIN clans, NEW p \in DOMAIN clans[c].members
          PROVE  <<c, p, clans[c].members[p]>> \in dbMembers
        <3>1. IsInfo(clans[c]) /\ c \in 1..MaxClan
            BY DEF CInv, Files
        <3>2. p \in Char /\ clans[c].members[p] \in Rank
            BY <3>1 DEF IsInfo
        <3>3. MemberOf(p, c)
            BY DEF MemberOf
        <3>4. \A r \in Rank : <<c, p, r>> \in dbMembers <=> MemberOf(p, c) /\ clans[c].members[p] = r
            BY <3>1, <3>2 DEF CInv, Rows
        <3>. QED
            BY <3>2, <3>3, <3>4
    <2>. QED
        BY <2>1, <2>2
<1>6. RecordsAgree
    BY <1>2, <1>3, <1>4, <1>5 DEF CInv, Filed, RecordsAgree
<1>. QED
    BY <1>1, <1>6 DEF ClansAgree, CInv

-----------------------------------------------------------------------------
(* What the operations do to the records.                                    *)

Answers == [Char -> [who : Char, join : BOOLEAN] \cup {None}]

\* Castles, houses and emblems may change, and questions be asked.
LEMMA AssetsChange ==
    ASSUME CInv, asked' \in Answers,
           UNCHANGED <<online, me, playerClan, dbMembers, dbChar, deleted, lastClan>>,
           clans' = [c \in DOMAIN clans |-> clans'[c]],
           dbClans' = [c \in DOMAIN clans |-> dbClans'[c]],
           \A c \in DOMAIN clans :
              /\ IsInfo(clans'[c]) /\ IsRow(dbClans'[c])
              /\ clans'[c].name = clans[c].name /\ clans'[c].leader = clans[c].leader
              /\ clans'[c].members = clans[c].members
              /\ dbClans'[c].name = dbClans[c].name /\ dbClans'[c].leader = dbClans[c].leader
    PROVE  CInv'
<1>1. DOMAIN clans' = DOMAIN clans
    OBVIOUS
<1>2. Files'
    BY <1>1 DEF CInv, Files, IsInfo, IsRow
<1>3. Persons'
    BY DEF CInv, Persons, Answers
<1>4. \A p, c : MemberOf(p, c)' <=> MemberOf(p, c)
    BY <1>1 DEF MemberOf
<1>5. \A p \in Char : Mine(p)' = Mine(p)
    <2> SUFFICES ASSUME NEW p \in Char PROVE Mine(p)' = Mine(p)
        OBVIOUS
    <2>1. CASE playerClan[p] # NoClan
        <3>1. playerClan[p] \in DOMAIN clans
            BY <2>1 DEF CInv, Persons, Filed, MemberOf
        <3>. QED
            BY <3>1 DEF Mine
    <2>. QED
        BY <2>1 DEF Mine
<1>6. Filed'
    <2>1. online \subseteq Char
        BY DEF CInv, Persons
    <2>. QED
        BY <2>1, <1>4, <1>5 DEF CInv, Filed
<1>7. Rows'
    BY <1>4, <1>1 DEF CInv, Rows, MemberOf
<1>8. OneLeader'
    BY <1>1 DEF CInv, OneLeader
<1>. QED
    BY <1>2, <1>3, <1>6, <1>7, <1>8 DEF CInv

\* Nothing of clans changes.
LEMMA ClansStay ==
    ASSUME CInv, asked' \in Answers, UNCHANGED <<online, me, clans, playerClan, tables>>
    PROVE  CInv'
<1>1. /\ clans' = [c \in DOMAIN clans |-> clans'[c]]
      /\ dbClans' = [c \in DOMAIN clans |-> dbClans'[c]]
      /\ \A c \in DOMAIN clans :
              /\ IsInfo(clans'[c]) /\ IsRow(dbClans'[c])
              /\ clans'[c].name = clans[c].name /\ clans'[c].leader = clans[c].leader
              /\ clans'[c].members = clans[c].members
              /\ dbClans'[c].name = dbClans[c].name /\ dbClans'[c].leader = dbClans[c].leader
    BY DEF CInv, Files, tables
<1>2. UNCHANGED <<online, me, playerClan, dbMembers, dbChar, deleted, lastClan>>
    BY DEF tables
<1>. QED
    BY <1>1, <1>2, AssetsChange

\* The members of one clan change.
LEMMA MembersChange ==
    ASSUME Files, NEW c \in DOMAIN clans, NEW x, x \in [DOMAIN x -> Rank], DOMAIN x \subseteq Char,
           clans' = [clans EXCEPT ![c].members = x], dbClans' = dbClans, lastClan' = lastClan
    PROVE  /\ Files' /\ DOMAIN clans' = DOMAIN clans
           /\ clans'[c].members = x
           /\ \A d \in DOMAIN clans :
                 /\ d # c => clans'[d] = clans[d]
                 /\ clans'[d].name = clans[d].name /\ clans'[d].leader = clans[d].leader
<1>1. IsInfo(clans[c]) /\ clans = [d \in DOMAIN clans |-> clans[d]]
    BY DEF Files
<1>2. /\ DOMAIN clans' = DOMAIN clans /\ clans' = [d \in DOMAIN clans |-> clans'[d]]
      /\ clans'[c] = [clans[c] EXCEPT !.members = x]
      /\ \A d \in DOMAIN clans : d # c => clans'[d] = clans[d]
    BY <1>1
<1>3. clans'[c] = [name |-> clans[c].name, leader |-> clans[c].leader, castle |-> clans[c].castle,
                   emblem |-> clans[c].emblem, house |-> clans[c].house, members |-> x]
    BY <1>1, <1>2 DEF IsInfo
<1>4. IsInfo(clans'[c]) /\ clans'[c].members = x
      /\ clans'[c].name = clans[c].name /\ clans'[c].leader = clans[c].leader
    BY <1>1, <1>3 DEF IsInfo
<1>5. \A d \in DOMAIN clans :
          /\ IsInfo(clans'[d])
          /\ clans'[d].name = clans[d].name /\ clans'[d].leader = clans[d].leader
    BY <1>2, <1>4 DEF Files
<1>6. Files'
    BY <1>2, <1>5 DEF Files
<1>. QED
    BY <1>2, <1>4, <1>5, <1>6

\* The rows of clan_members say that p is in c with rank r, and what they said before.
RowsChange(p, c, r) ==
    /\ dbMembers' \subseteq (1..MaxClan) \X Char \X Rank
    /\ \A d \in 1..MaxClan, q \in Char, s \in Rank :
          <<d, q, s>> \in dbMembers' <=>
              IF d = c /\ q = p THEN s = r ELSE <<d, q, s>> \in dbMembers

\* p becomes a member of c, or gets another rank there.
LEMMA Enlisted ==
    ASSUME CInv, NEW p \in online, NEW c \in DOMAIN clans, NEW r \in Rank, NEW x,
           x = [q \in DOMAIN clans[c].members \cup {p} |-> IF q = p THEN r ELSE clans[c].members[q]],
           playerClan[p] \in {NoClan, c}, r # Lord, p # clans[c].leader,
           clans' = [clans EXCEPT ![c].members = x],
           playerClan' = [playerClan EXCEPT ![p] = c],
           dbChar' = [dbChar EXCEPT ![p] = [clan |-> c, rank |-> r]],
           me' = [me EXCEPT ![p] = [clan |-> c, rank |-> r]],
           RowsChange(p, c, r),
           asked' \in Answers, UNCHANGED <<online, dbClans, deleted, lastClan>>
    PROVE  CInv'
<1>1. /\ p \in Char /\ c \in 1..MaxClan /\ c # NoClan
      /\ IsInfo(clans[c])
    BY DEF CInv, Files, Persons
<1>2. x \in [DOMAIN x -> Rank] /\ DOMAIN x \subseteq Char /\ DOMAIN x = DOMAIN clans[c].members \cup {p}
    BY <1>1 DEF IsInfo
<1>3. /\ Files' /\ DOMAIN clans' = DOMAIN clans /\ clans'[c].members = x
      /\ \A d \in DOMAIN clans :
            /\ d # c => clans'[d] = clans[d]
            /\ clans'[d].name = clans[d].name /\ clans'[d].leader = clans[d].leader
    BY <1>2, MembersChange DEF CInv
<1>4. Persons'
    <2>1. [clan |-> c, rank |-> r] \in Link
        BY <1>1 DEF Link
    <2>2. /\ online \subseteq Char \ deleted /\ me \in [Char -> Link] /\ dbChar \in [Char -> Link]
          /\ playerClan \in [Char -> 0..MaxClan]
        BY DEF CInv, Persons
    <2>3. c \in 0..MaxClan
        BY <1>1
    <2>. QED
        BY <2>1, <2>2, <2>3 DEF Persons, Answers
<1>5. \A q \in Char, d \in 1..MaxClan :
          MemberOf(q, d)' <=> IF q = p /\ d = c THEN TRUE ELSE MemberOf(q, d)
    <2> SUFFICES ASSUME NEW q \in Char, NEW d \in 1..MaxClan
                 PROVE  MemberOf(q, d)' <=> IF q = p /\ d = c THEN TRUE ELSE MemberOf(q, d)
        OBVIOUS
    <2>1. CASE d = c
        BY <1>2, <1>3, <2>1 DEF MemberOf
    <2>2. CASE d # c
        BY <1>3, <2>2 DEF MemberOf
    <2>. QED
        BY <2>1, <2>2
<1>6. \A q \in Char : playerClan[q] \in 0..MaxClan /\ playerClan'[q] = IF q = p THEN c ELSE playerClan[q]
    BY DEF CInv, Persons
<1>7. \A q \in Char, d \in 1..MaxClan : MemberOf(q, d) <=> playerClan[q] = d
    BY DEF CInv, Filed
<1>8. \A q \in Char, d \in 1..MaxClan : MemberOf(q, d)' <=> playerClan'[q] = d
    <2> SUFFICES ASSUME NEW q \in Char, NEW d \in 1..MaxClan
                 PROVE  MemberOf(q, d)' <=> playerClan'[q] = d
        OBVIOUS
    <2>1. CASE q # p
        BY <2>1, <1>5, <1>6, <1>7
    <2>2. CASE q = p
        <3>1. MemberOf(q, d) => d = c
            BY <1>7, <2>2
        <3>. QED
            BY <2>2, <3>1, <1>5, <1>6
    <2>. QED
        BY <2>1, <2>2
<1>9. \A q \in Char : Mine(q)' = IF q = p THEN [clan |-> c, rank |-> r] ELSE Mine(q)
    <2> SUFFICES ASSUME NEW q \in Char
                 PROVE  Mine(q)' = IF q = p THEN [clan |-> c, rank |-> r] ELSE Mine(q)
        OBVIOUS
    <2>1. CASE q = p
        <3>1. clans'[c].members[p] = r
            BY <1>3, <1>2
        <3>. QED
            BY <2>1, <3>1, <1>6, <1>1 DEF Mine
    <2>2. CASE q # p /\ playerClan[q] = NoClan
        BY <2>2, <1>6 DEF Mine
    <2>3. CASE q # p /\ playerClan[q] # NoClan
        <3>1. playerClan[q] \in 1..MaxClan
            BY <2>3, <1>6
        <3>2. MemberOf(q, playerClan[q])
            BY <3>1, <1>7
        <3>3. clans'[playerClan[q]].members[q] = clans[playerClan[q]].members[q]
            <4>1. CASE playerClan[q] = c
                BY <4>1, <3>2, <2>3, <1>3, <1>2 DEF MemberOf
            <4>2. CASE playerClan[q] # c
                BY <4>2, <3>2, <1>3 DEF MemberOf
            <4>. QED
                BY <4>1, <4>2
        <3>4. playerClan'[q] = playerClan[q]
            BY <2>3, <1>6
        <3>. QED
            BY <2>3, <3>3, <3>4 DEF Mine
    <2>. QED
        BY <2>1, <2>2, <2>3
<1>10. Filed'
    <2>1. \A q \in Char : dbChar'[q] = IF q = p THEN [clan |-> c, rank |-> r] ELSE dbChar[q]
        BY <1>1 DEF CInv, Persons
    <2>2. \A q \in Char : me'[q] = IF q = p THEN [clan |-> c, rank |-> r] ELSE me[q]
        BY <1>1 DEF CInv, Persons
    <2>3. \A q \in Char : dbChar[q] = Mine(q) /\ (q \in online => me[q] = Mine(q))
        BY DEF CInv, Filed
    <2>4. online \subseteq Char /\ online' = online
        BY DEF CInv, Persons
    <2>5. \A q \in Char : dbChar'[q] = Mine(q)' /\ (q \in online => me'[q] = Mine(q)')
        BY <2>1, <2>2, <2>3, <1>9
    <2>. QED
        BY <2>4, <2>5, <1>8 DEF Filed
<1>11. Rows'
    <2> SUFFICES ASSUME NEW d \in 1..MaxClan, NEW q \in Char, NEW s \in Rank
                 PROVE  <<d, q, s>> \in dbMembers' <=> MemberOf(q, d)' /\ clans'[d].members[q] = s
        BY DEF Rows, RowsChange
    <2>1. <<d, q, s>> \in dbMembers <=> MemberOf(q, d) /\ clans[d].members[q] = s
        BY DEF CInv, Rows
    <2>2. <<d, q, s>> \in dbMembers' <=> IF d = c /\ q = p THEN s = r ELSE <<d, q, s>> \in dbMembers
        BY DEF RowsChange
    <2>3. CASE d # c
        BY <2>1, <2>2, <2>3, <1>3, <1>5 DEF MemberOf
    <2>4. CASE d = c /\ q = p
        BY <2>2, <2>4, <1>2, <1>3, <1>5
    <2>5. CASE d = c /\ q # p
        <3>1. MemberOf(q, c) => clans'[c].members[q] = clans[c].members[q]
            BY <2>5, <1>2, <1>3 DEF MemberOf
        <3>. QED
            BY <3>1, <2>1, <2>2, <2>5, <1>5
    <2>. QED
        BY <2>3, <2>4, <2>5
<1>12. OneLeader'
    <2>1. \A d \in DOMAIN clans :
              /\ clans[d].leader \in Prince \ deleted
              /\ \A q \in DOMAIN clans[d].members : clans[d].members[q] = Lord <=> q = clans[d].leader
              /\ clans[d].leader \in DOMAIN clans[d].members
              /\ \A e \in DOMAIN clans : clans[e].name = clans[d].name => e = d
        BY DEF CInv, OneLeader
    <2>2. \A q \in DOMAIN clans'[c].members : clans'[c].members[q] = Lord <=> q = clans[c].leader
        BY <2>1, <1>2, <1>3
    <2>3. clans[c].leader \in DOMAIN clans'[c].members
        BY <2>1, <1>2, <1>3
    <2>4. \A d \in DOMAIN clans :
              /\ clans'[d].leader \in Prince \ deleted'
              /\ \A q \in DOMAIN clans'[d].members : clans'[d].members[q] = Lord <=> q = clans'[d].leader
              /\ clans'[d].leader \in DOMAIN clans'[d].members
        BY <2>1, <2>2, <2>3, <1>3
    <2>5. \A d, e \in DOMAIN clans : clans'[e].name = clans'[d].name => e = d
        BY <2>1, <1>3
    <2>. QED
        BY <2>4, <2>5, <1>3 DEF OneLeader
<1>. QED
    BY <1>3, <1>4, <1>10, <1>11, <1>12 DEF CInv

\* p, a member of c who does not lead it, leaves it or is expelled.
LEMMA Removed ==
    ASSUME CInv, NEW p \in Char, NEW c \in DOMAIN clans, playerClan[p] = c, p # clans[c].leader,
           Remove(p, c),
           me' = [q \in Char |-> IF q = p /\ p \in online THEN Free ELSE me[q]],
           UNCHANGED <<online, asked, dbClans, deleted, lastClan>>
    PROVE  CInv'
<1>0. PICK x : x = Restrict(clans[c].members, DOMAIN clans[c].members \ {p})
    OBVIOUS
<1>1. c \in 1..MaxClan /\ c # NoClan /\ IsInfo(clans[c])
    BY DEF CInv, Files
<1>2. /\ x \in [DOMAIN x -> Rank] /\ DOMAIN x \subseteq Char
      /\ DOMAIN x = DOMAIN clans[c].members \ {p}
      /\ \A q \in DOMAIN x : x[q] = clans[c].members[q]
    BY <1>0, <1>1 DEF IsInfo, Restrict
<1>3. /\ clans' = [clans EXCEPT ![c].members = x]
      /\ playerClan' = [playerClan EXCEPT ![p] = NoClan]
      /\ dbChar' = [dbChar EXCEPT ![p] = Free]
      /\ dbMembers' = {m \in dbMembers : ~(m[1] = c /\ m[2] = p)}
    BY <1>0 DEF Remove
<1>4. /\ Files' /\ DOMAIN clans' = DOMAIN clans /\ clans'[c].members = x
      /\ \A d \in DOMAIN clans :
            /\ d # c => clans'[d] = clans[d]
            /\ clans'[d].name = clans[d].name /\ clans'[d].leader = clans[d].leader
    <2>1. Files /\ dbClans' = dbClans /\ lastClan' = lastClan
        BY DEF CInv
    <2>2. x \in [DOMAIN x -> Rank] /\ DOMAIN x \subseteq Char
        BY <1>2
    <2>3. clans' = [clans EXCEPT ![c].members = x]
        BY <1>3
    <2>. QED
        BY ONLY <2>1, <2>2, <2>3, c \in DOMAIN clans, MembersChange
<1>5. /\ online \subseteq Char /\ me \in [Char -> Link] /\ dbChar \in [Char -> Link]
      /\ playerClan \in [Char -> 0..MaxClan]
    BY DEF CInv, Persons
<1>6. Persons'
    BY <1>3, <1>5, FreeLink DEF CInv, Persons
<1>7. \A q \in Char, d \in 1..MaxClan :
          MemberOf(q, d)' <=> MemberOf(q, d) /\ ~(q = p /\ d = c)
    BY <1>2, <1>4 DEF MemberOf
<1>8. \A q \in Char : playerClan[q] \in 0..MaxClan /\ playerClan'[q] = IF q = p THEN NoClan ELSE playerClan[q]
    BY <1>3, <1>5
<1>9. \A q \in Char, d \in 1..MaxClan : MemberOf(q, d) <=> playerClan[q] = d
    BY DEF CInv, Filed
<1>10. \A q \in Char, d \in 1..MaxClan : MemberOf(q, d)' <=> playerClan'[q] = d
    BY <1>7, <1>8, <1>9
<1>11. \A q \in Char : Mine(q)' = IF q = p THEN Free ELSE Mine(q)
    <2> SUFFICES ASSUME NEW q \in Char
                 PROVE  Mine(q)' = IF q = p THEN Free ELSE Mine(q)
        OBVIOUS
    <2>1. CASE q = p
        BY <2>1, <1>8 DEF Mine
    <2>2. CASE q # p /\ playerClan[q] = NoClan
        BY <2>2, <1>8 DEF Mine
    <2>3. CASE q # p /\ playerClan[q] # NoClan
        <3>1. playerClan[q] \in 1..MaxClan
            BY <2>3, <1>8
        <3>2. MemberOf(q, playerClan[q])
            BY <3>1, <1>9
        <3>3. clans'[playerClan[q]].members[q] = clans[playerClan[q]].members[q]
            BY <3>2, <2>3, <1>2, <1>4 DEF MemberOf
        <3>4. playerClan'[q] = playerClan[q]
            BY <2>3, <1>8
        <3>. QED
            BY <2>3, <3>3, <3>4 DEF Mine
    <2>. QED
        BY <2>1, <2>2, <2>3
<1>12. Filed'
    <2>1. \A q \in Char : dbChar'[q] = IF q = p THEN Free ELSE dbChar[q]
        BY <1>3, <1>5
    <2>2. \A q \in online : me'[q] = IF q = p THEN Free ELSE me[q]
        BY <1>5
    <2>3. \A q \in Char : dbChar[q] = Mine(q) /\ (q \in online => me[q] = Mine(q))
        BY DEF CInv, Filed
    <2>. QED
        BY <2>1, <2>2, <2>3, <1>5, <1>10, <1>11 DEF Filed
<1>13. Rows'
    <2>1. dbMembers' \subseteq (1..MaxClan) \X Char \X Rank
        BY <1>3 DEF CInv, Rows
    <2> SUFFICES ASSUME NEW d \in 1..MaxClan, NEW q \in Char, NEW s \in Rank
                 PROVE  <<d, q, s>> \in dbMembers' <=> MemberOf(q, d)' /\ clans'[d].members[q] = s
        BY <2>1 DEF Rows
    <2>2. <<d, q, s>> \in dbMembers <=> MemberOf(q, d) /\ clans[d].members[q] = s
        BY DEF CInv, Rows
    <2>3. <<d, q, s>> \in dbMembers' <=> <<d, q, s>> \in dbMembers /\ ~(d = c /\ q = p)
        BY <1>3
    <2>4. MemberOf(q, d)' => clans'[d].members[q] = clans[d].members[q]
        BY <1>2, <1>4 DEF MemberOf
    <2>. QED
        BY <2>2, <2>3, <2>4, <1>7
<1>14. OneLeader'
    <2>1. \A d \in DOMAIN clans :
              /\ clans[d].leader \in Prince \ deleted
              /\ \A q \in DOMAIN clans[d].members : clans[d].members[q] = Lord <=> q = clans[d].leader
              /\ clans[d].leader \in DOMAIN clans[d].members
              /\ \A e \in DOMAIN clans : clans[e].name = clans[d].name => e = d
        BY DEF CInv, OneLeader
    <2>2. \A q \in DOMAIN clans'[c].members : clans'[c].members[q] = Lord <=> q = clans[c].leader
        BY <2>1, <1>2, <1>4
    <2>3. clans[c].leader \in DOMAIN clans'[c].members
        BY <2>1, <1>2, <1>4
    <2>4. \A d \in DOMAIN clans :
              /\ clans'[d].leader \in Prince \ deleted'
              /\ \A q \in DOMAIN clans'[d].members : clans'[d].members[q] = Lord <=> q = clans'[d].leader
              /\ clans'[d].leader \in DOMAIN clans'[d].members
        BY <2>1, <2>2, <2>3, <1>4
    <2>5. \A d, e \in DOMAIN clans : clans'[e].name = clans'[d].name => e = d
        BY <2>1, <1>4
    <2>. QED
        BY <2>4, <2>5, <1>4 DEF OneLeader
<1>. QED
    BY <1>4, <1>6, <1>12, <1>13, <1>14 DEF CInv

-----------------------------------------------------------------------------
(* One action at a time.                                                     *)

LEMMA EnrollKeeps ==
    ASSUME CInv, NEW p \in online, NEW c \in DOMAIN clans, me[p].clan = NoClan, Enroll(p, c),
           asked' \in Answers, UNCHANGED <<online, dbClans, deleted, lastClan>>
    PROVE  CInv'
<1>0. PICK x : x = [q \in DOMAIN clans[c].members \cup {p} |->
                       IF q = p THEN Public ELSE clans[c].members[q]]
    OBVIOUS
<1>1. p \in Char /\ playerClan[p] = NoClan /\ c \in 1..MaxClan /\ c \in DOMAIN clans
    <2>1. p \in Char /\ playerClan[p] \in 0..MaxClan /\ me[p] = Mine(p)
        BY DEF CInv, Persons, Filed
    <2>2. CASE playerClan[p] # NoClan
        BY <2>1, <2>2 DEF Mine
    <2>. QED
        BY <2>1, <2>2 DEF CInv, Files
<1>2. p # clans[c].leader
    BY <1>1, FreeFacts DEF CInv, OneLeader
<1>3. /\ clans' = [clans EXCEPT ![c].members = x]
      /\ playerClan' = [playerClan EXCEPT ![p] = c]
      /\ dbChar' = [dbChar EXCEPT ![p] = [clan |-> c, rank |-> Public]]
      /\ me' = [me EXCEPT ![p] = [clan |-> c, rank |-> Public]]
      /\ dbMembers' = dbMembers \cup {<<c, p, Public>>}
    BY <1>0 DEF Enroll
<1>4. dbMembers' \subseteq (1..MaxClan) \X Char \X Rank
    <2>1. <<c, p, Public>> \in (1..MaxClan) \X Char \X Rank
        BY <1>1
    <2>. QED
        BY <1>3, <2>1 DEF CInv, Rows
<1>5. \A d \in 1..MaxClan, q \in Char, s \in Rank :
          <<d, q, s>> \in dbMembers' <=>
             IF d = c /\ q = p THEN s = Public ELSE <<d, q, s>> \in dbMembers
    <2> SUFFICES ASSUME NEW d \in 1..MaxClan, NEW q \in Char, NEW s \in Rank
                 PROVE  <<d, q, s>> \in dbMembers' <=>
                            IF d = c /\ q = p THEN s = Public ELSE <<d, q, s>> \in dbMembers
        OBVIOUS
    <2>1. <<c, p, s>> \notin dbMembers
        <3>1. ~MemberOf(p, c)
            BY <1>1, FreeFacts DEF MemberOf
        <3>. QED
            BY <1>1, <3>1 DEF CInv, Rows
    <2>. QED
        BY <1>3, <2>1
<1>6. RowsChange(p, c, Public)
    BY <1>4, <1>5 DEF RowsChange
<1>7. playerClan[p] \in {NoClan, c} /\ Public \in Rank /\ Public # Lord
    BY <1>1
<1>. QED
    BY <1>0, <1>1, <1>2, <1>3, <1>6, <1>7, Enlisted

LEMMA JoinKeeps ==
    ASSUME CInv, NEW t \in Char, JoinResponse(t)
    PROVE  CInv'
<1>1. asked' \in Answers
    BY DEF JoinResponse, CInv, Persons, Answers
<1>2. UNCHANGED <<online, dbClans, deleted, lastClan>>
    BY DEF JoinResponse
<1>3. PICK p : p = asked[t].who
    OBVIOUS
<1>4. CASE p \in online /\ me[p].clan = NoClan /\ InClan(t)
    <2>1. Enroll(p, me[t].clan) /\ me[t].clan \in DOMAIN clans
        BY <1>3, <1>4 DEF JoinResponse, InClan
    <2>. QED
        BY <1>1, <1>2, <1>4, <2>1, EnrollKeeps
<1>5. CASE ~(p \in online /\ me[p].clan = NoClan /\ InClan(t))
    <2>1. UNCHANGED <<online, me, clans, playerClan, tables>>
        BY <1>2, <1>3, <1>5 DEF JoinResponse, tables
    <2>. QED
        BY <1>1, <2>1, ClansStay
<1>. QED
    BY <1>4, <1>5

LEMMA LeaveKeeps ==
    ASSUME CInv, NEW p \in Char, LeaveClan(p)
    PROVE  CInv'
<1>1. p \in online /\ me[p].clan \in DOMAIN clans /\ me[p].clan # NoClan
    BY DEF LeaveClan, InClan, CInv, Files
<1>2. playerClan[p] = me[p].clan
    BY <1>1, InClanFacts
<1>3. p # clans[me[p].clan].leader
    BY <1>1 DEF LeaveClan, Leads, InClan, ClanOf, CInv, OneLeader
<1>4. me' = [q \in Char |-> IF q = p /\ p \in online THEN Free ELSE me[q]]
    BY <1>1 DEF LeaveClan, CInv, Persons
<1>5. PICK c : c = me[p].clan
    OBVIOUS
<1>6. Remove(p, c) /\ UNCHANGED <<online, asked, dbClans, deleted, lastClan>>
    BY <1>5 DEF LeaveClan
<1>. QED
    BY <1>1, <1>2, <1>3, <1>4, <1>5, <1>6, Removed

LEMMA BanKeeps ==
    ASSUME CInv, NEW p \in Char, NEW t \in Char, BanMember(p, t)
    PROVE  CInv'
<1>1. /\ me[p].clan \in DOMAIN clans /\ me[p].clan # NoClan
      /\ clans[me[p].clan].leader = p
    BY LeadsFacts DEF BanMember
<1>2. dbChar[t].clan = playerClan[t] /\ (t \in online => me[t].clan = playerClan[t])
    BY LinkFacts
<1>3. playerClan[t] = me[p].clan /\ t # p
    BY <1>2 DEF BanMember
<1>4. me' = [q \in Char |-> IF q = t /\ t \in online THEN Free ELSE me[q]]
    BY DEF BanMember, CInv, Persons
<1>5. PICK c : c = me[p].clan
    OBVIOUS
<1>6. Remove(t, c) /\ UNCHANGED <<online, asked, dbClans, deleted, lastClan>>
    BY <1>5 DEF BanMember
<1>. QED
    BY <1>1, <1>3, <1>4, <1>5, <1>6, Removed

LEMMA RankKeeps ==
    ASSUME CInv, NEW p \in Char, NEW t \in Char, NEW r \in Rank, ChangeRank(p, t, r)
    PROVE  CInv'
<1>1. /\ p \in online /\ t \in online /\ t # p
      /\ me[p].clan \in DOMAIN clans /\ me[p].clan # NoClan /\ me[t].clan = me[p].clan
      /\ r \in CanGrant(me[p].rank) /\ (me[t].rank = Lord => me[p].rank = Lord)
    BY DEF ChangeRank, InClan, CInv, Files
<1>2. PICK c : c = me[p].clan
    OBVIOUS
<1>3. /\ c \in DOMAIN clans /\ c \in 1..MaxClan
      /\ playerClan[t] = c /\ t \in DOMAIN clans[c].members
      /\ p \in DOMAIN clans[c].members
      /\ me[t] = [clan |-> c, rank |-> me[t].rank] /\ me[t].rank = clans[c].members[t]
      /\ me[p].rank = clans[c].members[p]
    BY <1>1, <1>2, InClanFacts
<1>4. r # Lord
    BY <1>1 DEF CanGrant
<1>5. t # clans[c].leader
    BY <1>1, <1>3 DEF CInv, OneLeader
<1>6. PICK x : x = [q \in DOMAIN clans[c].members \cup {t} |-> IF q = t THEN r ELSE clans[c].members[q]]
    OBVIOUS
<1>7. clans' = [clans EXCEPT ![c].members = x]
    <2>1. IsInfo(clans[c])
        BY <1>3 DEF CInv, Files
    <2>2. [clans[c].members EXCEPT ![t] = r] = x
        BY <1>3, <1>6, <2>1 DEF IsInfo
    <2>3. clans' = [clans EXCEPT ![c].members[t] = r]
        BY <1>2, <1>3 DEF ChangeRank
    <2>. QED
        BY <2>2, <2>3
<1>8. /\ playerClan' = [playerClan EXCEPT ![t] = c]
      /\ dbChar' = [dbChar EXCEPT ![t] = [clan |-> c, rank |-> r]]
      /\ me' = [me EXCEPT ![t] = [clan |-> c, rank |-> r]]
    <2>1. /\ playerClan \in [Char -> 0..MaxClan] /\ me \in [Char -> Link] /\ dbChar \in [Char -> Link]
        BY DEF CInv, Persons
    <2>2. dbChar[t] = me[t]
        BY <1>1 DEF CInv, Filed
    <2>3. [me[t] EXCEPT !.rank = r] = [clan |-> c, rank |-> r]
        BY <1>3
    <2>4. dbChar' = [dbChar EXCEPT ![t].rank = r] /\ me' = [me EXCEPT ![t].rank = r] /\ playerClan' = playerClan
        BY DEF ChangeRank
    <2>. QED
        BY <1>3, <2>1, <2>2, <2>3, <2>4
<1>9. dbMembers' = {IF m[1] = c /\ m[2] = t THEN <<c, t, r>> ELSE m : m \in dbMembers}
    BY <1>2 DEF ChangeRank
<1>10. dbMembers' \subseteq (1..MaxClan) \X Char \X Rank
    <2>1. <<c, t, r>> \in (1..MaxClan) \X Char \X Rank
        BY <1>3
    <2>. QED
        BY <1>9, <2>1 DEF CInv, Rows
<1>11. \A d \in 1..MaxClan, q \in Char, s \in Rank :
          <<d, q, s>> \in dbMembers' <=>
             IF d = c /\ q = t THEN s = r ELSE <<d, q, s>> \in dbMembers
    <2> SUFFICES ASSUME NEW d \in 1..MaxClan, NEW q \in Char, NEW s \in Rank
                 PROVE  <<d, q, s>> \in dbMembers' <=>
                            IF d = c /\ q = t THEN s = r ELSE <<d, q, s>> \in dbMembers
        OBVIOUS
    <2>1. PICK old \in Rank : <<c, t, old>> \in dbMembers
        <3>1. MemberOf(t, c) /\ clans[c].members[t] \in Rank
            BY <1>3 DEF MemberOf, CInv, Files, IsInfo
        <3>2. \A k \in Rank : <<c, t, k>> \in dbMembers <=> MemberOf(t, c) /\ clans[c].members[t] = k
            BY <1>3 DEF CInv, Rows
        <3>. QED
            BY <3>1, <3>2
    <2>2. <<c, t, r>> \in dbMembers'
        BY <1>9, <2>1
    <2>3. ASSUME <<d, q, s>> \in dbMembers'
          PROVE  IF d = c /\ q = t THEN s = r ELSE <<d, q, s>> \in dbMembers
        <3>1. PICK m \in dbMembers : <<d, q, s>> = IF m[1] = c /\ m[2] = t THEN <<c, t, r>> ELSE m
            BY <1>9, <2>3
        <3>. QED
            BY <3>1
    <2>4. ASSUME <<d, q, s>> \in dbMembers, ~(d = c /\ q = t)
          PROVE  <<d, q, s>> \in dbMembers'
        BY <1>9, <2>4
    <2>. QED
        BY <2>2, <2>3, <2>4
<1>12. asked' \in Answers /\ UNCHANGED <<online, dbClans, deleted, lastClan>>
    BY DEF ChangeRank, CInv, Persons, Answers
<1>13. RowsChange(t, c, r)
    BY <1>10, <1>11 DEF RowsChange
<1>14. playerClan[t] \in {NoClan, c}
    BY <1>3
<1>. QED
    BY <1>1, <1>3, <1>4, <1>5, <1>6, <1>7, <1>8, <1>12, <1>13, <1>14, Enlisted

LEMMA EmblemKeeps ==
    ASSUME CInv, NEW p \in Char, UploadEmblem(p)
    PROVE  CInv'
<1>1. PICK c : c = me[p].clan
    OBVIOUS
<1>2. c \in DOMAIN clans
    BY <1>1 DEF UploadEmblem, InClan
<1>3. /\ clans' = [clans EXCEPT ![c].emblem = TRUE]
      /\ dbClans' = [dbClans EXCEPT ![c].emblem = TRUE]
      /\ UNCHANGED <<online, me, asked, playerClan, dbMembers, dbChar, deleted, lastClan>>
    BY <1>1 DEF UploadEmblem
<1>4. /\ clans = [d \in DOMAIN clans |-> clans[d]] /\ dbClans = [d \in DOMAIN clans |-> dbClans[d]]
      /\ \A d \in DOMAIN clans : IsInfo(clans[d]) /\ IsRow(dbClans[d])
    BY DEF CInv, Files
<1>5. /\ clans' = [d \in DOMAIN clans |-> clans'[d]]
      /\ \A d \in DOMAIN clans : clans'[d] = IF d = c THEN [clans[c] EXCEPT !.emblem = TRUE] ELSE clans[d]
    BY <1>3, <1>4
<1>6. /\ dbClans' = [d \in DOMAIN clans |-> dbClans'[d]]
      /\ \A d \in DOMAIN clans :
            dbClans'[d] = IF d = c THEN [dbClans[c] EXCEPT !.emblem = TRUE] ELSE dbClans[d]
    BY <1>3, <1>4
<1>7. IsInfo([clans[c] EXCEPT !.emblem = TRUE])
      /\ \A f \in {"name", "leader", "members"} : [clans[c] EXCEPT !.emblem = TRUE][f] = clans[c][f]
    BY <1>2, <1>4, InfoWith
<1>8. IsRow([dbClans[c] EXCEPT !.emblem = TRUE])
      /\ \A f \in {"name", "leader"} : [dbClans[c] EXCEPT !.emblem = TRUE][f] = dbClans[c][f]
    BY <1>2, <1>4, RowWith
<1>9. \A d \in DOMAIN clans :
              /\ IsInfo(clans'[d]) /\ IsRow(dbClans'[d])
              /\ clans'[d].name = clans[d].name /\ clans'[d].leader = clans[d].leader
              /\ clans'[d].members = clans[d].members
              /\ dbClans'[d].name = dbClans[d].name /\ dbClans'[d].leader = dbClans[d].leader
    BY <1>2, <1>4, <1>5, <1>6, <1>7, <1>8
<1>10. asked' \in Answers
    BY <1>3 DEF CInv, Persons, Answers
<1>. QED
    BY <1>3, <1>5, <1>6, <1>9, <1>10, AssetsChange

LEMMA EnterKeeps ==
    ASSUME CInv, NEW p \in Char, EnterWorld(p)
    PROVE  CInv'
<1>1. /\ p \notin online /\ p \notin deleted /\ online' = online \cup {p}
      /\ me' = [me EXCEPT ![p] = dbChar[p]]
      /\ UNCHANGED <<clans, playerClan, asked, dbClans, dbMembers, dbChar, deleted, lastClan>>
    BY DEF EnterWorld, tables
<1>2. Files' /\ Rows' /\ OneLeader'
    BY <1>1 DEF CInv, Files, Rows, OneLeader, MemberOf
<1>3. Persons'
    BY <1>1 DEF CInv, Persons
<1>4. Filed'
    BY <1>1 DEF CInv, Filed, Persons, Mine, MemberOf
<1>. QED
    BY <1>2, <1>3, <1>4 DEF CInv

\* What is saved is what the operations have written already.
LEMMA LeaveWorldKeeps ==
    ASSUME CInv, NEW p \in Char, LeaveWorld(p)
    PROVE  CInv'
<1>1. /\ p \in online /\ online' = online \ {p}
      /\ dbChar' = [dbChar EXCEPT ![p] = me[p]] /\ me' = [me EXCEPT ![p] = Free]
      /\ asked' = [asked EXCEPT ![p] = None]
      /\ UNCHANGED <<clans, playerClan, dbClans, dbMembers, deleted, lastClan>>
    BY DEF LeaveWorld
<1>2. dbChar' = dbChar
    BY <1>1 DEF CInv, Filed, Persons
<1>3. Files' /\ Rows' /\ OneLeader'
    BY <1>1 DEF CInv, Files, Rows, OneLeader, MemberOf
<1>4. Persons'
    BY <1>1, <1>2, FreeLink DEF CInv, Persons
<1>5. Filed'
    <2>1. \A q \in online' : me'[q] = me[q] /\ q \in online
        BY <1>1 DEF CInv, Persons
    <2>. QED
        BY <1>1, <1>2, <2>1 DEF CInv, Filed, Mine, MemberOf
<1>. QED
    BY <1>3, <1>4, <1>5 DEF CInv

LEMMA DeleteKeeps ==
    ASSUME CInv, NEW p \in Char, DeleteChar(p)
    PROVE  CInv'
<1>1. /\ p \notin online /\ deleted' = deleted \cup {p}
      /\ ~(dbChar[p].clan \in DOMAIN clans /\ clans[dbChar[p].clan].leader = p)
      /\ UNCHANGED <<online, me, clans, playerClan, asked, dbClans, dbMembers, dbChar, lastClan>>
    BY DEF DeleteChar, memory
<1>2. Files' /\ Rows'
    BY <1>1 DEF CInv, Files, Rows, MemberOf
<1>5. Persons'
    BY <1>1 DEF CInv, Persons
<1>6. Filed'
    BY <1>1 DEF CInv, Filed, Mine, MemberOf
<1>3. \A c \in DOMAIN clans : clans[c].leader # p
    <2> SUFFICES ASSUME NEW c \in DOMAIN clans, clans[c].leader = p PROVE FALSE
        OBVIOUS
    <2>1. MemberOf(p, c) /\ c \in 1..MaxClan
        BY DEF CInv, OneLeader, MemberOf, Files
    <2>2. playerClan[p] = c /\ dbChar[p] = Mine(p)
        BY <2>1 DEF CInv, Filed
    <2>3. dbChar[p].clan = c
        BY <2>1, <2>2 DEF Mine
    <2>. QED
        BY <1>1, <2>3
<1>4. OneLeader'
    BY <1>1, <1>3 DEF CInv, OneLeader
<1>. QED
    BY <1>2, <1>4, <1>5, <1>6 DEF CInv

LEMMA CreateKeeps ==
    ASSUME CInv, NEW p \in Char, NEW n \in Name, Create(p, n)
    PROVE  CInv'
<1>1. PICK c : c = lastClan + 1
    OBVIOUS
<1>2. PICK row : row = [name |-> n, leader |-> p, castle |-> None, emblem |-> FALSE]
    OBVIOUS
<1>3. PICK info : info = [name |-> n, leader |-> p, castle |-> None, emblem |-> FALSE,
                          house |-> None, members |-> [q \in {p} |-> Lord]]
    OBVIOUS
<1>4. /\ p \in online /\ p \in Prince /\ me[p].clan = NoClan
      /\ ~NameTaken(n) /\ lastClan < MaxClan
      /\ lastClan' = c
      /\ dbClans' = [d \in DOMAIN dbClans \cup {c} |-> IF d = c THEN row ELSE dbClans[d]]
      /\ clans' = [d \in DOMAIN clans \cup {c} |-> IF d = c THEN info ELSE clans[d]]
      /\ dbMembers' = dbMembers \cup {<<c, p, Lord>>}
      /\ dbChar' = [dbChar EXCEPT ![p] = [clan |-> c, rank |-> Lord]]
      /\ me' = [me EXCEPT ![p] = [clan |-> c, rank |-> Lord]]
      /\ playerClan' = [playerClan EXCEPT ![p] = c]
      /\ UNCHANGED <<online, asked, deleted>>
    BY <1>1, <1>2, <1>3 DEF Create
<1>5. c \in 1..MaxClan /\ c \notin DOMAIN clans /\ DOMAIN clans \subseteq 1..MaxClan
      /\ lastClan \in Nat
    BY <1>1, <1>4 DEF CInv, Files
<1>6. IsInfo(info) /\ info.name = n /\ info.leader = p /\ info.members = [q \in {p} |-> Lord]
    BY <1>3, <1>4 DEF IsInfo
<1>7. IsRow(row) /\ row.name = n /\ row.leader = p
    BY <1>2 DEF IsRow
<1>8. /\ DOMAIN clans' = DOMAIN clans \cup {c} /\ clans'[c] = info
      /\ \A d \in DOMAIN clans : d # c /\ clans'[d] = clans[d]
    BY <1>4, <1>5
<1>9. /\ DOMAIN dbClans' = DOMAIN clans \cup {c} /\ dbClans'[c] = row
      /\ dbClans' = [d \in DOMAIN clans \cup {c} |-> dbClans'[d]]
      /\ \A d \in DOMAIN clans : dbClans'[d] = dbClans[d]
    <2>1. dbClans = [d \in DOMAIN clans |-> dbClans[d]]
        BY DEF CInv, Files
    <2>. QED
        BY <1>4, <1>5, <2>1
<1>10. Files'
    <2>1. \A d \in DOMAIN clans :
              /\ IsInfo(clans[d]) /\ IsRow(dbClans[d])
              /\ dbClans[d].name = clans[d].name /\ dbClans[d].leader = clans[d].leader
        BY DEF CInv, Files
    <2>2. clans' = [d \in DOMAIN clans' |-> clans'[d]]
        BY <1>4
    <2>3. \A d \in DOMAIN clans' :
              /\ IsInfo(clans'[d]) /\ IsRow(dbClans'[d])
              /\ dbClans'[d].name = clans'[d].name /\ dbClans'[d].leader = clans'[d].leader
        BY <2>1, <1>6, <1>7, <1>8, <1>9
    <2>4. lastClan' \in 0..MaxClan /\ DOMAIN clans' \subseteq 1..lastClan'
        BY <1>1, <1>4, <1>5, <1>8 DEF CInv, Files
    <2>. QED
        BY <2>2, <2>3, <2>4, <1>8, <1>9 DEF Files
<1>11. /\ online \subseteq Char \ deleted /\ me \in [Char -> Link] /\ dbChar \in [Char -> Link]
       /\ playerClan \in [Char -> 0..MaxClan]
    BY DEF CInv, Persons
<1>12. Persons'
    <2>1. [clan |-> c, rank |-> Lord] \in Link
        BY <1>5 DEF Link
    <2>. QED
        BY <2>1, <1>4, <1>5, <1>11 DEF CInv, Persons
<1>13. playerClan[p] = NoClan
    BY <1>4, LinkFacts
<1>14. \A q \in Char, d \in 1..MaxClan :
          MemberOf(q, d)' <=> IF d = c THEN q = p ELSE MemberOf(q, d)
    <2> SUFFICES ASSUME NEW q \in Char, NEW d \in 1..MaxClan
                 PROVE  MemberOf(q, d)' <=> IF d = c THEN q = p ELSE MemberOf(q, d)
        OBVIOUS
    <2>. QED
        BY <1>6, <1>8 DEF MemberOf
<1>15. \A q \in Char : playerClan[q] \in 0..MaxClan /\ playerClan'[q] = IF q = p THEN c ELSE playerClan[q]
    BY <1>4, <1>11
<1>16. \A q \in Char, d \in 1..MaxClan : MemberOf(q, d) <=> playerClan[q] = d
    BY DEF CInv, Filed
<1>17. \A q \in Char : ~MemberOf(q, c)
    BY <1>5 DEF MemberOf
<1>18. \A q \in Char, d \in 1..MaxClan : MemberOf(q, d)' <=> playerClan'[q] = d
    BY <1>5, <1>13, <1>14, <1>15, <1>16, <1>17
<1>19. \A q \in Char : Mine(q)' = IF q = p THEN [clan |-> c, rank |-> Lord] ELSE Mine(q)
    <2> SUFFICES ASSUME NEW q \in Char
                 PROVE  Mine(q)' = IF q = p THEN [clan |-> c, rank |-> Lord] ELSE Mine(q)
        OBVIOUS
    <2>1. CASE q = p
        BY <2>1, <1>5, <1>6, <1>8, <1>15 DEF Mine
    <2>2. CASE q # p /\ playerClan[q] = NoClan
        BY <2>2, <1>15 DEF Mine
    <2>3. CASE q # p /\ playerClan[q] # NoClan
        <3>1. playerClan[q] \in 1..MaxClan
            BY <2>3, <1>15
        <3>2. playerClan[q] \in DOMAIN clans
            BY <3>1, <1>16 DEF MemberOf
        <3>3. playerClan'[q] = playerClan[q]
            BY <2>3, <1>15
        <3>. QED
            BY <2>3, <3>2, <3>3, <1>8 DEF Mine
    <2>. QED
        BY <2>1, <2>2, <2>3
<1>20. Filed'
    <2>1. \A q \in Char : dbChar'[q] = IF q = p THEN [clan |-> c, rank |-> Lord] ELSE dbChar[q]
        BY <1>4, <1>11
    <2>2. \A q \in Char : me'[q] = IF q = p THEN [clan |-> c, rank |-> Lord] ELSE me[q]
        BY <1>4, <1>11
    <2>3. \A q \in Char : dbChar[q] = Mine(q) /\ (q \in online => me[q] = Mine(q))
        BY DEF CInv, Filed
    <2>4. \A q \in Char : dbChar'[q] = Mine(q)' /\ (q \in online => me'[q] = Mine(q)')
        BY <2>1, <2>2, <2>3, <1>19
    <2>. QED
        BY <2>4, <1>4, <1>11, <1>18 DEF Filed
<1>21. Rows'
    <2>1. dbMembers' \subseteq (1..MaxClan) \X Char \X Rank
        <3>1. <<c, p, Lord>> \in (1..MaxClan) \X Char \X Rank
            BY <1>5
        <3>. QED
            BY <1>4, <3>1 DEF CInv, Rows
    <2> SUFFICES ASSUME NEW d \in 1..MaxClan, NEW q \in Char, NEW s \in Rank
                 PROVE  <<d, q, s>> \in dbMembers' <=> MemberOf(q, d)' /\ clans'[d].members[q] = s
        BY <2>1 DEF Rows
    <2>2. <<d, q, s>> \in dbMembers <=> MemberOf(q, d) /\ clans[d].members[q] = s
        BY DEF CInv, Rows
    <2>3. <<d, q, s>> \in dbMembers' <=> <<d, q, s>> \in dbMembers \/ (d = c /\ q = p /\ s = Lord)
        BY <1>4
    <2>4. CASE d # c
        BY <2>2, <2>3, <2>4, <1>8, <1>14 DEF MemberOf
    <2>5. CASE d = c
        BY <2>2, <2>3, <2>5, <1>6, <1>8, <1>14, <1>17
    <2>. QED
        BY <2>4, <2>5
<1>22. OneLeader'
    <2>1. \A d \in DOMAIN clans :
              /\ clans[d].leader \in Prince \ deleted
              /\ \A q \in DOMAIN clans[d].members : clans[d].members[q] = Lord <=> q = clans[d].leader
              /\ clans[d].leader \in DOMAIN clans[d].members
              /\ clans[d].name # n
              /\ \A e \in DOMAIN clans : clans[e].name = clans[d].name => e = d
        BY <1>4 DEF CInv, OneLeader, NameTaken
    <2>2. info.leader \in Prince \ deleted
        BY <1>4, <1>6, <1>11
    <2>. QED
        BY <2>1, <2>2, <1>4, <1>6, <1>8 DEF OneLeader
<1>. QED
    BY <1>10, <1>12, <1>20, <1>21, <1>22 DEF CInv

\* Some clans may be gone; those left have the leader and the members they had.
LEMMA LeadersStay ==
    ASSUME OneLeader, DOMAIN clans' \subseteq DOMAIN clans, deleted' = deleted,
           \A c \in DOMAIN clans' :
              /\ clans'[c].name = clans[c].name /\ clans'[c].leader = clans[c].leader
              /\ clans'[c].members = clans[c].members
    PROVE  OneLeader'
<1> SUFFICES ASSUME NEW c \in DOMAIN clans'
             PROVE  /\ clans'[c].leader \in Prince \ deleted'
                    /\ \A p \in DOMAIN clans'[c].members :
                          clans'[c].members[p] = Lord <=> p = clans'[c].leader
                    /\ clans'[c].leader \in DOMAIN clans'[c].members
                    /\ \A d \in DOMAIN clans' : clans'[d].name = clans'[c].name => d = c
    BY DEF OneLeader
<1>1. /\ c \in DOMAIN clans
      /\ clans'[c].name = clans[c].name /\ clans'[c].leader = clans[c].leader
      /\ clans'[c].members = clans[c].members
    OBVIOUS
<1>2. /\ clans[c].leader \in Prince \ deleted
      /\ \A p \in DOMAIN clans[c].members : clans[c].members[p] = Lord <=> p = clans[c].leader
      /\ clans[c].leader \in DOMAIN clans[c].members
      /\ \A d \in DOMAIN clans : clans[d].name = clans[c].name => d = c
    BY <1>1 DEF OneLeader
<1>3. \A d \in DOMAIN clans' : d \in DOMAIN clans /\ clans'[d].name = clans[d].name
    OBVIOUS
<1>. QED
    BY <1>1, <1>2, <1>3

LEMMA DissolveKeeps ==
    ASSUME CInv, NEW p \in Char, DissolveClan(p)
    PROVE  CInv'
<1>1. PICK c : c = me[p].clan
    OBVIOUS
<1>2. /\ c \in DOMAIN clans /\ c \in 1..MaxClan
    BY <1>1, LeadsFacts DEF DissolveClan
<1>3. /\ dbChar' = [q \in Char |-> IF \E r \in Rank : <<c, q, r>> \in dbMembers THEN Free ELSE dbChar[q]]
      /\ dbMembers' = {m \in dbMembers : m[1] # c}
      /\ dbClans' = Restrict(dbClans, DOMAIN dbClans \ {c})
      /\ clans' = Restrict(clans, DOMAIN clans \ {c})
      /\ playerClan' = [q \in Char |-> IF q \in DOMAIN clans[c].members THEN NoClan ELSE playerClan[q]]
      /\ me' = Dismissed(DOMAIN clans[c].members)
      /\ UNCHANGED <<online, asked, deleted, lastClan>>
    BY <1>1 DEF DissolveClan
<1>4. /\ DOMAIN clans' = DOMAIN clans \ {c} /\ clans' = [d \in DOMAIN clans \ {c} |-> clans[d]]
      /\ \A d \in DOMAIN clans' : clans'[d] = clans[d]
      /\ dbClans' = [d \in DOMAIN clans \ {c} |-> dbClans[d]]
    <2>1. DOMAIN dbClans = DOMAIN clans
        BY DEF CInv, Files
    <2>. QED
        BY <1>3, <2>1 DEF Restrict
<1>5. Files'
    <2>1. /\ lastClan \in 0..MaxClan /\ DOMAIN clans \subseteq 1..lastClan
          /\ \A d \in DOMAIN clans :
                /\ IsInfo(clans[d]) /\ IsRow(dbClans[d])
                /\ dbClans[d].name = clans[d].name /\ dbClans[d].leader = clans[d].leader
        BY DEF CInv, Files
    <2>2. \A d \in DOMAIN clans' :
              /\ d \in DOMAIN clans /\ clans'[d] = clans[d] /\ dbClans'[d] = dbClans[d]
        BY <1>4
    <2>3. \A d \in DOMAIN clans' :
              /\ IsInfo(clans'[d]) /\ IsRow(dbClans'[d])
              /\ dbClans'[d].name = clans'[d].name /\ dbClans'[d].leader = clans'[d].leader
        BY <2>1, <2>2
    <2>4. clans' = [d \in DOMAIN clans' |-> clans'[d]] /\ dbClans' = [d \in DOMAIN clans' |-> dbClans'[d]]
        BY <1>4
    <2>. QED
        BY <2>1, <2>2, <2>3, <2>4, <1>3 DEF Files
<1>6. /\ online \subseteq Char \ deleted /\ me \in [Char -> Link] /\ dbChar \in [Char -> Link]
      /\ playerClan \in [Char -> 0..MaxClan]
    BY DEF CInv, Persons
<1>7. Persons'
    BY <1>3, <1>6, FreeLink DEF CInv, Persons, Dismissed
<1>8. \A q \in Char, d \in 1..MaxClan : MemberOf(q, d)' <=> MemberOf(q, d) /\ d # c
    BY <1>4 DEF MemberOf
<1>9. \A q \in Char, d \in 1..MaxClan : MemberOf(q, d) <=> playerClan[q] = d
    BY DEF CInv, Filed
<1>10. \A q \in Char : q \in DOMAIN clans[c].members <=> playerClan[q] = c
    BY <1>2, <1>9 DEF MemberOf
<1>11. \A q \in Char : playerClan'[q] = IF playerClan[q] = c THEN NoClan ELSE playerClan[q]
    BY <1>3, <1>10
<1>12. \A q \in Char, d \in 1..MaxClan : MemberOf(q, d)' <=> playerClan'[q] = d
    BY <1>8, <1>9, <1>11
<1>13. \A q \in Char : Mine(q)' = IF playerClan[q] = c THEN Free ELSE Mine(q)
    <2> SUFFICES ASSUME NEW q \in Char
                 PROVE  Mine(q)' = IF playerClan[q] = c THEN Free ELSE Mine(q)
        OBVIOUS
    <2>1. CASE playerClan[q] = c
        BY <2>1, <1>11 DEF Mine
    <2>2. CASE playerClan[q] # c /\ playerClan[q] = NoClan
        BY <2>2, <1>11 DEF Mine
    <2>3. CASE playerClan[q] # c /\ playerClan[q] # NoClan
        <3>1. playerClan[q] \in 1..MaxClan
            BY <2>3, <1>6
        <3>2. playerClan[q] \in DOMAIN clans'
            BY <3>1, <2>3, <1>4, <1>9 DEF MemberOf
        <3>. QED
            BY <2>3, <3>2, <1>4, <1>11 DEF Mine
    <2>. QED
        BY <2>1, <2>2, <2>3
<1>14. \A q \in Char : (\E r \in Rank : <<c, q, r>> \in dbMembers) <=> playerClan[q] = c
    <2> SUFFICES ASSUME NEW q \in Char
                 PROVE  (\E r \in Rank : <<c, q, r>> \in dbMembers) <=> playerClan[q] = c
        OBVIOUS
    <2>1. \A r \in Rank : <<c, q, r>> \in dbMembers <=> MemberOf(q, c) /\ clans[c].members[q] = r
        BY <1>2 DEF CInv, Rows
    <2>2. MemberOf(q, c) => clans[c].members[q] \in Rank
        BY <1>2 DEF CInv, Files, IsInfo, MemberOf
    <2>3. MemberOf(q, c) <=> playerClan[q] = c
        BY <1>2, <1>9
    <2>. QED
        BY <2>1, <2>2, <2>3
<1>15. Filed'
    <2>1. \A q \in Char : dbChar'[q] = IF playerClan[q] = c THEN Free ELSE dbChar[q]
        BY <1>3, <1>14
    <2>2. \A q \in Char : q \in online => me'[q] = IF playerClan[q] = c THEN Free ELSE me[q]
        BY <1>3, <1>10 DEF Dismissed
    <2>3. \A q \in Char : dbChar[q] = Mine(q) /\ (q \in online => me[q] = Mine(q))
        BY DEF CInv, Filed
    <2>4. \A q \in Char : dbChar'[q] = Mine(q)' /\ (q \in online => me'[q] = Mine(q)')
        BY <2>1, <2>2, <2>3, <1>13
    <2>. QED
        BY <2>4, <1>3, <1>6, <1>12 DEF Filed
<1>16. Rows'
    <2>1. dbMembers' \subseteq (1..MaxClan) \X Char \X Rank
        BY <1>3 DEF CInv, Rows
    <2> SUFFICES ASSUME NEW d \in 1..MaxClan, NEW q \in Char, NEW s \in Rank
                 PROVE  <<d, q, s>> \in dbMembers' <=> MemberOf(q, d)' /\ clans'[d].members[q] = s
        BY <2>1 DEF Rows
    <2>2. <<d, q, s>> \in dbMembers <=> MemberOf(q, d) /\ clans[d].members[q] = s
        BY DEF CInv, Rows
    <2>3. <<d, q, s>> \in dbMembers' <=> <<d, q, s>> \in dbMembers /\ d # c
        BY <1>3
    <2>4. MemberOf(q, d)' => clans'[d] = clans[d]
        BY <1>4 DEF MemberOf
    <2>. QED
        BY <2>2, <2>3, <2>4, <1>8
<1>17. OneLeader'
    <2>1. OneLeader /\ DOMAIN clans' \subseteq DOMAIN clans /\ deleted' = deleted
        BY <1>3, <1>4 DEF CInv
    <2>. QED
        BY <2>1, <1>4, LeadersStay
<1>. QED
    BY <1>5, <1>7, <1>15, <1>16, <1>17 DEF CInv

\* What loadClans finds in the tables is what was in memory, but for the houses.
LEMMA RestartKeeps ==
    ASSUME CInv, Restart
    PROVE  CInv'
<1>1. /\ online' = {} /\ me' = [p \in Char |-> Free] /\ clans' = Loaded
      /\ playerClan' = [p \in Char |->
             IF \E c \in DOMAIN dbClans : p \in MembersIn(c)
             THEN CHOOSE c \in DOMAIN dbClans : p \in MembersIn(c) ELSE NoClan]
      /\ asked' = [p \in Char |-> None]
      /\ UNCHANGED <<dbClans, dbMembers, dbChar, deleted, lastClan>>
    BY DEF Restart, tables
<1>2. DOMAIN dbClans = DOMAIN clans /\ \A c \in DOMAIN clans : c \in 1..MaxClan /\ c # NoClan
    BY DEF CInv, Files
<1>3. \A c \in DOMAIN clans : MembersIn(c) = DOMAIN clans[c].members
    <2> SUFFICES ASSUME NEW c \in DOMAIN clans PROVE MembersIn(c) = DOMAIN clans[c].members
        OBVIOUS
    <2>1. IsInfo(clans[c]) /\ c \in 1..MaxClan
        BY <1>2 DEF CInv, Files
    <2>2. ASSUME NEW q \in MembersIn(c) PROVE q \in DOMAIN clans[c].members
        <3>1. PICK m \in dbMembers : m[1] = c /\ m[2] = q
            BY <2>2 DEF MembersIn
        <3>2. PICK d \in 1..MaxClan, s \in Char, r \in Rank : m = <<d, s, r>>
            BY DEF CInv, Rows
        <3>3. <<c, q, r>> \in dbMembers /\ q \in Char
            BY <3>1, <3>2
        <3>4. MemberOf(q, c)
            BY <2>1, <3>3 DEF CInv, Rows
        <3>. QED
            BY <3>4 DEF MemberOf
    <2>3. ASSUME NEW q \in DOMAIN clans[c].members PROVE q \in MembersIn(c)
        <3>1. MemberOf(q, c) /\ q \in Char /\ clans[c].members[q] \in Rank
            BY <2>1 DEF MemberOf, IsInfo
        <3>2. \A r \in Rank : <<c, q, r>> \in dbMembers <=> MemberOf(q, c) /\ clans[c].members[q] = r
            BY <2>1, <3>1 DEF CInv, Rows
        <3>3. <<c, q, clans[c].members[q]>> \in dbMembers
            BY <3>1, <3>2
        <3>. QED
            BY <3>3 DEF MembersIn
    <2>. QED
        BY <2>2, <2>3
<1>4. \A c \in DOMAIN clans : \A q \in DOMAIN clans[c].members : RankIn(c, q) = clans[c].members[q]
    <2> SUFFICES ASSUME NEW c \in DOMAIN clans, NEW q \in DOMAIN clans[c].members
                 PROVE  RankIn(c, q) = clans[c].members[q]
        OBVIOUS
    <2>1. IsInfo(clans[c]) /\ c \in 1..MaxClan
        BY <1>2 DEF CInv, Files
    <2>2. MemberOf(q, c) /\ q \in Char /\ clans[c].members[q] \in Rank
        BY <2>1 DEF MemberOf, IsInfo
    <2>3. \A r \in Rank : <<c, q, r>> \in dbMembers <=> clans[c].members[q] = r
        BY <2>1, <2>2 DEF CInv, Rows
    <2>. QED
        BY <2>2, <2>3 DEF RankIn
<1>5. /\ DOMAIN clans' = DOMAIN clans /\ clans' = [c \in DOMAIN clans' |-> clans'[c]]
      /\ \A c \in DOMAIN clans :
            clans'[c] = [name |-> dbClans[c].name, leader |-> dbClans[c].leader,
                         castle |-> dbClans[c].castle, emblem |-> dbClans[c].emblem, house |-> None,
                         members |-> [p \in MembersIn(c) |-> RankIn(c, p)]]
    BY <1>1, <1>2 DEF Loaded
<1>6. \A c \in DOMAIN clans :
          /\ IsInfo(clans'[c]) /\ clans'[c].members = clans[c].members
          /\ clans'[c].name = clans[c].name /\ clans'[c].leader = clans[c].leader
          /\ clans'[c].castle = dbClans[c].castle
    <2> SUFFICES ASSUME NEW c \in DOMAIN clans
                 PROVE  /\ IsInfo(clans'[c]) /\ clans'[c].members = clans[c].members
                        /\ clans'[c].name = clans[c].name /\ clans'[c].leader = clans[c].leader
                        /\ clans'[c].castle = dbClans[c].castle
        OBVIOUS
    <2>1. /\ IsInfo(clans[c]) /\ IsRow(dbClans[c])
          /\ dbClans[c].name = clans[c].name /\ dbClans[c].leader = clans[c].leader
        BY DEF CInv, Files
    <2>2. [p \in MembersIn(c) |-> RankIn(c, p)] = clans[c].members
        BY <1>3, <1>4, <2>1 DEF IsInfo
    <2>3. clans'[c] = [name |-> clans[c].name, leader |-> clans[c].leader,
                       castle |-> dbClans[c].castle, emblem |-> dbClans[c].emblem, house |-> None,
                       members |-> clans[c].members]
        BY <1>5, <2>1, <2>2
    <2>. QED
        BY <2>1, <2>3 DEF IsInfo, IsRow
<1>7. Files'
    <2>1. dbClans' = [c \in DOMAIN clans' |-> dbClans'[c]]
        BY <1>1, <1>5 DEF CInv, Files
    <2>. QED
        BY <1>1, <1>5, <1>6, <2>1 DEF CInv, Files
<1>8. \A q, c : MemberOf(q, c)' <=> MemberOf(q, c)
    BY <1>5, <1>6 DEF MemberOf
<1>9. /\ dbChar \in [Char -> Link] /\ playerClan \in [Char -> 0..MaxClan]
      /\ \A q \in Char, c \in 1..MaxClan : MemberOf(q, c) <=> playerClan[q] = c
    BY DEF CInv, Persons, Filed
<1>10. playerClan' = playerClan
    <2>1. \A q \in Char : playerClan'[q] = playerClan[q]
        <3> SUFFICES ASSUME NEW q \in Char PROVE playerClan'[q] = playerClan[q]
            OBVIOUS
        <3>1. \A c \in DOMAIN clans : q \in MembersIn(c) <=> playerClan[q] = c
            BY <1>2, <1>3, <1>9 DEF MemberOf
        <3>2. playerClan[q] = NoClan \/ playerClan[q] \in DOMAIN clans
            BY <1>9 DEF MemberOf
        <3>3. CASE playerClan[q] = NoClan
            BY <3>1, <3>3, <1>1, <1>2
        <3>4. CASE playerClan[q] \in DOMAIN clans
            <4>1. (CHOOSE c \in DOMAIN dbClans : q \in MembersIn(c)) = playerClan[q]
                BY <3>1, <3>4, <1>2
            <4>. QED
                BY <3>1, <3>4, <4>1, <1>1, <1>2
        <3>. QED
            BY <3>2, <3>3, <3>4
    <2>. QED
        BY <2>1, <1>1, <1>9
<1>11. Persons'
    BY <1>1, <1>9, <1>10, FreeLink DEF Persons
<1>12. \A q \in Char : Mine(q)' = Mine(q)
    <2> SUFFICES ASSUME NEW q \in Char PROVE Mine(q)' = Mine(q)
        OBVIOUS
    <2>1. CASE playerClan[q] = NoClan
        BY <2>1, <1>10 DEF Mine
    <2>2. CASE playerClan[q] # NoClan
        <3>1. playerClan[q] \in DOMAIN clans
            BY <2>2, <1>9 DEF MemberOf
        <3>. QED
            BY <2>2, <3>1, <1>6, <1>10 DEF Mine
    <2>. QED
        BY <2>1, <2>2
<1>13. Filed'
    BY <1>1, <1>8, <1>9, <1>10, <1>12 DEF CInv, Filed
<1>14. Rows'
    <2>1. \A q, c : MemberOf(q, c)' => clans'[c].members = clans[c].members
        BY <1>5, <1>6 DEF MemberOf
    <2>2. dbMembers' = dbMembers /\ dbMembers \subseteq (1..MaxClan) \X Char \X Rank
        BY <1>1 DEF CInv, Rows
    <2>3. \A c \in 1..MaxClan, q \in Char, r \in Rank :
              <<c, q, r>> \in dbMembers <=> MemberOf(q, c) /\ clans[c].members[q] = r
        BY DEF CInv, Rows
    <2>4. \A c \in 1..MaxClan, q \in Char, r \in Rank :
              <<c, q, r>> \in dbMembers' <=> MemberOf(q, c)' /\ clans'[c].members[q] = r
        <3> SUFFICES ASSUME NEW c \in 1..MaxClan, NEW q \in Char, NEW r \in Rank
                     PROVE  <<c, q, r>> \in dbMembers' <=> MemberOf(q, c)' /\ clans'[c].members[q] = r
            OBVIOUS
        <3>1. <<c, q, r>> \in dbMembers' <=> MemberOf(q, c) /\ clans[c].members[q] = r
            BY <2>2, <2>3
        <3>2. MemberOf(q, c)' <=> MemberOf(q, c)
            BY <1>8
        <3>3. MemberOf(q, c)' => clans'[c].members = clans[c].members
            BY <2>1
        <3>. QED
            BY <3>1, <3>2, <3>3
    <2>. QED
        BY <2>2, <2>4 DEF Rows
<1>15. OneLeader'
    <2>1. OneLeader /\ DOMAIN clans' \subseteq DOMAIN clans /\ deleted' = deleted
        BY <1>1, <1>5 DEF CInv
    <2>. QED
        BY <2>1, <1>5, <1>6, LeadersStay
<1>. QED
    BY <1>7, <1>11, <1>13, <1>14, <1>15 DEF CInv

LEMMA ClanInitCInv == ClanInit => CInv
<1> SUFFICES ASSUME ClanInit PROVE CInv
    OBVIOUS
<1>1. /\ online = {} /\ me = [p \in Char |-> Free]
      /\ DOMAIN clans = {} /\ clans = dbClans /\ clans = [c \in {} |-> clans[c]]
      /\ playerClan = [p \in Char |-> NoClan]
      /\ asked = [p \in Char |-> None]
      /\ dbMembers = {} /\ dbChar = [p \in Char |-> Free]
      /\ deleted = {} /\ lastClan = 0
    BY DEF ClanInit
<1>2. Files
    BY <1>1 DEF Files
<1>3. Persons
    BY <1>1, FreeLink DEF Persons
<1>4. Filed
    BY <1>1 DEF Filed, Mine, MemberOf
<1>5. Rows
    BY <1>1 DEF Rows, MemberOf
<1>6. OneLeader
    BY <1>1 DEF OneLeader
<1>. QED
    BY <1>2, <1>3, <1>4, <1>5, <1>6 DEF CInv

LEMMA ClanStepKeeps ==
    ASSUME CInv, ClanStep
    PROVE  CInv'
<1>1. ASSUME NEW p \in Char, NEW n \in Name, Create(p, n) PROVE CInv'
    BY <1>1, CreateKeeps
<1>2. ASSUME NEW p \in Char, NEW t \in Char, JoinRequest(p, t) \/ OtherDialog(p, t) PROVE CInv'
    <2>1. asked' \in Answers
        <3>1. online \subseteq Char /\ asked \in Answers
            BY DEF CInv, Persons, Answers
        <3>2. \/ asked' = [asked EXCEPT ![t] = [who |-> p, join |-> TRUE]]
              \/ asked' = [asked EXCEPT ![p] = [who |-> t, join |-> FALSE]]
            BY <1>2 DEF JoinRequest, OtherDialog
        <3>3. PICK a \in Char, q \in Char, j \in BOOLEAN : asked' = [asked EXCEPT ![a] = [who |-> q, join |-> j]]
            BY <3>2
        <3>4. [who |-> q, join |-> j] \in [who : Char, join : BOOLEAN]
            OBVIOUS
        <3>. QED
            BY <3>1, <3>3, <3>4 DEF Answers
    <2>2. UNCHANGED <<online, me, clans, playerClan, tables>>
        BY <1>2 DEF JoinRequest, OtherDialog
    <2>. QED
        BY <2>1, <2>2, ClansStay
<1>3. ASSUME NEW p \in Char, NEW t \in Char, BanMember(p, t) PROVE CInv'
    BY <1>3, BanKeeps
<1>4. ASSUME NEW p \in Char, NEW t \in Char, NEW r \in Rank, ChangeRank(p, t, r) PROVE CInv'
    BY <1>4, RankKeeps
<1>5. ASSUME NEW p \in Char, JoinResponse(p) PROVE CInv'
    BY <1>5, JoinKeeps
<1>6. ASSUME NEW p \in Char, LeaveClan(p) PROVE CInv'
    BY <1>6, LeaveKeeps
<1>7. ASSUME NEW p \in Char, DissolveClan(p) PROVE CInv'
    BY <1>7, DissolveKeeps
<1>8. ASSUME NEW p \in Char, UploadEmblem(p) PROVE CInv'
    BY <1>8, EmblemKeeps
<1>9. ASSUME NEW p \in Char, EnterWorld(p) PROVE CInv'
    BY <1>9, EnterKeeps
<1>10. ASSUME NEW p \in Char, LeaveWorld(p) PROVE CInv'
    BY <1>10, LeaveWorldKeeps
<1>11. ASSUME NEW p \in Char, DeleteChar(p) PROVE CInv'
    BY <1>11, DeleteKeeps
<1>. QED
    BY <1>1, <1>2, <1>3, <1>4, <1>5, <1>6, <1>7, <1>8, <1>9, <1>10, <1>11 DEF ClanStep

-----------------------------------------------------------------------------
(* Castles and wars.                                                         *)

\* What a step of ClanSystem leaves of the names and castles of clans: a clan
\* that goes has no castle, and neither has one that comes.
TitlesStay ==
    /\ \A c \in DOMAIN clans \cap DOMAIN clans' :
          /\ clans'[c].name = clans[c].name /\ clans'[c].castle = clans[c].castle
          /\ dbClans'[c].castle = dbClans[c].castle
    /\ \A c \in DOMAIN clans \ DOMAIN clans' : clans[c].castle = None
    /\ \A c \in DOMAIN clans' \ DOMAIN clans : clans'[c].castle = None /\ dbClans'[c].castle = None

LEMMA SameTitles ==
    ASSUME CInv, NEW c, NEW x, clans' = [clans EXCEPT ![c].members = x], dbClans' = dbClans
    PROVE  TitlesStay
<1>1. DOMAIN clans' = DOMAIN clans
    BY DEF CInv, Files
<1>2. \A d \in DOMAIN clans : clans'[d].name = clans[d].name /\ clans'[d].castle = clans[d].castle
    <2> SUFFICES ASSUME NEW d \in DOMAIN clans
                 PROVE  clans'[d].name = clans[d].name /\ clans'[d].castle = clans[d].castle
        OBVIOUS
    <2>1. CASE d # c
        BY <2>1
    <2>2. CASE d = c
        <3>1. PICK i : i = clans[d]
            OBVIOUS
        <3>2. PICK n, l, k, e, h, m :
                  i = [name |-> n, leader |-> l, castle |-> k, emblem |-> e, house |-> h, members |-> m]
            BY <3>1 DEF CInv, Files, IsInfo
        <3>3. clans'[d] = [i EXCEPT !.members = x]
            BY <2>2, <3>1
        <3>4. [i EXCEPT !.members = x] =
                  [name |-> n, leader |-> l, castle |-> k, emblem |-> e, house |-> h, members |-> x]
            BY <3>2
        <3>. QED
            BY <3>1, <3>2, <3>3, <3>4
    <2>. QED
        BY <2>1, <2>2
<1>. QED
    BY <1>1, <1>2 DEF TitlesStay

LEMMA ClanStepTitles ==
    ASSUME CInv, ClanStep
    PROVE  TitlesStay
<1>1. ASSUME NEW p \in Char, NEW n \in Name, Create(p, n) PROVE TitlesStay
    <2>1. PICK c : c = lastClan + 1
        OBVIOUS
    <2>2. PICK row : row = [name |-> n, leader |-> p, castle |-> None, emblem |-> FALSE]
        OBVIOUS
    <2>3. PICK info : info = [name |-> n, leader |-> p, castle |-> None, emblem |-> FALSE,
                              house |-> None, members |-> [q \in {p} |-> Lord]]
        OBVIOUS
    <2>4. /\ dbClans' = [d \in DOMAIN dbClans \cup {c} |-> IF d = c THEN row ELSE dbClans[d]]
          /\ clans' = [d \in DOMAIN clans \cup {c} |-> IF d = c THEN info ELSE clans[d]]
        BY <1>1, <2>1, <2>2, <2>3 DEF Create
    <2>5. DOMAIN dbClans = DOMAIN clans /\ c \notin DOMAIN clans
        BY <2>1 DEF CInv, Files
    <2>6. \A d \in DOMAIN clans : clans'[d] = clans[d] /\ dbClans'[d] = dbClans[d]
        BY <2>4, <2>5
    <2>7. clans'[c] = info /\ dbClans'[c] = row /\ DOMAIN clans' = DOMAIN clans \cup {c}
        BY <2>4, <2>5
    <2>8. info.castle = None /\ row.castle = None
        BY <2>2, <2>3
    <2>. QED
        BY <2>6, <2>7, <2>8 DEF TitlesStay
<1>2. ASSUME UNCHANGED <<clans, dbClans>> PROVE TitlesStay
    BY <1>2 DEF TitlesStay
<1>3. ASSUME NEW p \in Char, NEW t \in Char, BanMember(p, t) PROVE TitlesStay
    <2>1. PICK c : c = me[p].clan
        OBVIOUS
    <2>2. PICK x : x = Restrict(clans[c].members, DOMAIN clans[c].members \ {t})
        OBVIOUS
    <2>3. clans' = [clans EXCEPT ![c].members = x] /\ dbClans' = dbClans
        BY <1>3, <2>1, <2>2 DEF BanMember, Remove
    <2>. QED
        BY <2>3, SameTitles
<1>4. ASSUME NEW p \in Char, LeaveClan(p) PROVE TitlesStay
    <2>1. PICK c : c = me[p].clan
        OBVIOUS
    <2>2. PICK x : x = Restrict(clans[c].members, DOMAIN clans[c].members \ {p})
        OBVIOUS
    <2>3. clans' = [clans EXCEPT ![c].members = x] /\ dbClans' = dbClans
        BY <1>4, <2>1, <2>2 DEF LeaveClan, Remove
    <2>. QED
        BY <2>3, SameTitles
<1>5. ASSUME NEW p \in Char, NEW t \in Char, NEW r \in Rank, ChangeRank(p, t, r) PROVE TitlesStay
    <2>1. PICK c : c = me[p].clan
        OBVIOUS
    <2>2. PICK x : x = [clans[c].members EXCEPT ![t] = r]
        OBVIOUS
    <2>3. /\ dbClans' = dbClans
          /\ clans' = clans \/ clans' = [clans EXCEPT ![c].members[t] = r]
        BY <1>5, <2>1 DEF ChangeRank
    <2>4. [clans EXCEPT ![c].members[t] = r] = [clans EXCEPT ![c].members = x]
        BY <2>2
    <2>5. CASE clans' = clans
        BY <2>3, <2>5, <1>2
    <2>6. CASE clans' = [clans EXCEPT ![c].members[t] = r]
        <3>1. clans' = [clans EXCEPT ![c].members = x]
            BY <2>4, <2>6
        <3>. QED
            BY <2>3, <3>1, SameTitles
    <2>. QED
        BY <2>3, <2>5, <2>6
<1>6. ASSUME NEW p \in Char, JoinResponse(p) PROVE TitlesStay
    <2>1. CASE UNCHANGED <<clans, dbClans>>
        BY <2>1, <1>2
    <2>2. CASE Enroll(asked[p].who, me[p].clan)
        <3>1. PICK q : q = asked[p].who
            OBVIOUS
        <3>2. PICK c : c = me[p].clan
            OBVIOUS
        <3>3. PICK x : x = [a \in DOMAIN clans[c].members \cup {q} |->
                               IF a = q THEN Public ELSE clans[c].members[a]]
            OBVIOUS
        <3>4. clans' = [clans EXCEPT ![c].members = x] /\ dbClans' = dbClans
            BY <1>6, <2>2, <3>1, <3>2, <3>3 DEF Enroll, JoinResponse
        <3>. QED
            BY <3>4, SameTitles
    <2>. QED
        BY <1>6, <2>1, <2>2 DEF JoinResponse
<1>7. ASSUME NEW p \in Char, DissolveClan(p) PROVE TitlesStay
    <2>1. PICK c : c = me[p].clan
        OBVIOUS
    <2>2. /\ clans[c].castle = None
          /\ dbClans' = Restrict(dbClans, DOMAIN dbClans \ {c})
          /\ clans' = Restrict(clans, DOMAIN clans \ {c})
        BY <1>7, <2>1 DEF DissolveClan, ClanOf
    <2>3. DOMAIN dbClans = DOMAIN clans
        BY DEF CInv, Files
    <2>. QED
        BY <2>2, <2>3 DEF TitlesStay, Restrict
<1>8. ASSUME NEW p \in Char, UploadEmblem(p) PROVE TitlesStay
    <2>1. PICK c : c = me[p].clan
        OBVIOUS
    <2>2. /\ c \in DOMAIN clans
          /\ clans' = [clans EXCEPT ![c].emblem = TRUE] /\ dbClans' = [dbClans EXCEPT ![c].emblem = TRUE]
        BY <1>8, <2>1 DEF UploadEmblem, InClan
    <2>3. IsInfo(clans[c]) /\ IsRow(dbClans[c]) /\ DOMAIN dbClans = DOMAIN clans
        BY <2>2 DEF CInv, Files
    <2>4. PICK i : i = clans[c]
        OBVIOUS
    <2>5. PICK n, l, k, e, h, m :
              i = [name |-> n, leader |-> l, castle |-> k, emblem |-> e, house |-> h, members |-> m]
        BY <2>3, <2>4 DEF IsInfo
    <2>6. \A y : [i EXCEPT !.emblem = y] =
              [name |-> n, leader |-> l, castle |-> k, emblem |-> y, house |-> h, members |-> m]
        BY <2>5
    <2>7. clans'[c] = [i EXCEPT !.emblem = TRUE]
        BY <2>2, <2>4
    <2>8. clans'[c].name = clans[c].name /\ clans'[c].castle = clans[c].castle
        BY <2>4, <2>5, <2>6, <2>7
    <2>9. PICK j : j = dbClans[c]
        OBVIOUS
    <2>10. PICK n1, l1, k1, e1 : j = [name |-> n1, leader |-> l1, castle |-> k1, emblem |-> e1]
        BY <2>3, <2>9 DEF IsRow
    <2>11. \A y : [j EXCEPT !.emblem = y] = [name |-> n1, leader |-> l1, castle |-> k1, emblem |-> y]
        BY <2>10
    <2>12. dbClans'[c] = [j EXCEPT !.emblem = TRUE]
        BY <2>2, <2>3, <2>9
    <2>13. dbClans'[c].castle = dbClans[c].castle
        BY <2>9, <2>10, <2>11, <2>12
    <2>14. DOMAIN clans' = DOMAIN clans /\ \A d \in DOMAIN clans : d # c =>
              clans'[d] = clans[d] /\ dbClans'[d] = dbClans[d]
        BY <2>2, <2>3
    <2>. QED
        BY <2>8, <2>13, <2>14 DEF TitlesStay
<1>9. ASSUME NEW p \in Char, NEW t \in Char, JoinRequest(p, t) \/ OtherDialog(p, t) PROVE TitlesStay
    <2>1. UNCHANGED <<clans, dbClans>>
        BY <1>9 DEF JoinRequest, OtherDialog, tables
    <2>. QED
        BY <2>1, <1>2
<1>10. ASSUME NEW p \in Char, EnterWorld(p) \/ LeaveWorld(p) \/ DeleteChar(p) PROVE TitlesStay
    <2>1. UNCHANGED <<clans, dbClans>>
        BY <1>10 DEF EnterWorld, LeaveWorld, DeleteChar, tables, memory
    <2>. QED
        BY <2>1, <1>2
<1>. QED
    BY <1>1, <1>3, <1>4, <1>5, <1>6, <1>7, <1>8, <1>9, <1>10 DEF ClanStep

SiegeInv == CInv /\ SiegesAgree

\* The clan that owns a castle exists, and only that one has it.
LEMMA OwnerFacts ==
    ASSUME CInv, SiegeTypeOK, CastlesAgree
    PROVE  /\ \A k \in Castle : owner[k] \in DOMAIN clans \/ owner[k] = NoClan
           /\ \A k \in Castle, c \in DOMAIN clans : owner[k] = c <=> clans[c].castle = k
           /\ \A k \in Castle, c \in DOMAIN clans : dbClans[c].castle = clans[c].castle
<1>1. \A k \in Castle : owner[k] \in 0..MaxClan
    BY DEF SiegeTypeOK
<1>2. \A c \in DOMAIN clans : c \in 1..MaxClan
    BY DEF CInv, Files
<1>3. \A k \in Castle, c \in 1..MaxClan :
          /\ owner[k] = c <=> c \in DOMAIN clans /\ clans[c].castle = k
          /\ c \in DOMAIN clans => dbClans[c].castle = clans[c].castle
    BY DEF CastlesAgree
<1>. QED
    BY <1>1, <1>2, <1>3

LEMMA ClanStepSieges ==
    ASSUME SiegeInv, ClanStep, UNCHANGED siegeVars
    PROVE  SiegeInv'
<1>1. CInv' /\ TitlesStay /\ CInv /\ SiegeTypeOK
    BY ClanStepKeeps, ClanStepTitles DEF SiegeInv, SiegesAgree
<1>2. SiegeTypeOK' /\ UNCHANGED <<owner, isWar, wars, torn>>
    BY <1>1 DEF siegeVars, SiegeTypeOK
<1>3. CASE torn
    BY <1>1, <1>2, <1>3 DEF SiegeInv, SiegesAgree
<1>4. CASE ~torn
    <2>1. CastlesAgree /\ WarsAreCurrent
        BY <1>4 DEF SiegeInv, SiegesAgree
    <2>2. /\ \A k \in Castle : owner[k] \in DOMAIN clans \/ owner[k] = NoClan
          /\ \A k \in Castle, c \in DOMAIN clans : owner[k] = c <=> clans[c].castle = k
          /\ \A k \in Castle, c \in DOMAIN clans : dbClans[c].castle = clans[c].castle
        BY <1>1, <2>1, OwnerFacts
    <2>3. \A k \in Castle : k # None
        OBVIOUS
    <2>4. CastlesAgree'
        <3> SUFFICES ASSUME NEW k \in Castle, NEW c \in 1..MaxClan
                     PROVE  /\ owner'[k] = c <=> c \in DOMAIN clans' /\ clans'[c].castle = k
                            /\ c \in DOMAIN clans' => dbClans'[c].castle = clans'[c].castle
            BY DEF CastlesAgree
        <3>1. CASE c \in DOMAIN clans /\ c \in DOMAIN clans'
            BY <3>1, <1>1, <1>2, <2>2 DEF TitlesStay
        <3>2. CASE c \in DOMAIN clans /\ c \notin DOMAIN clans'
            BY <3>2, <1>1, <1>2, <2>2, <2>3 DEF TitlesStay
        <3>3. CASE c \notin DOMAIN clans /\ c \in DOMAIN clans'
            BY <3>3, <1>1, <1>2, <2>2, <2>3 DEF TitlesStay
        <3>4. CASE c \notin DOMAIN clans /\ c \notin DOMAIN clans'
            BY <3>4, <1>2, <2>2
        <3>. QED
            BY <3>1, <3>2, <3>3, <3>4
    <2>5. WarsAreCurrent'
        <3> SUFFICES ASSUME NEW w \in wars, w.castle # None
                     PROVE  owner[w.castle] \in DOMAIN clans' /\ clans'[owner[w.castle]].name = w.def
            BY <1>2, <2>1 DEF WarsAreCurrent
        <3>1. w.castle \in Castle /\ owner[w.castle] \in DOMAIN clans
              /\ clans[owner[w.castle]].name = w.def
            BY <1>1, <2>1 DEF SiegeTypeOK, WarsAreCurrent
        <3>2. clans[owner[w.castle]].castle = w.castle
            BY <3>1, <2>2
        <3>. QED
            BY <3>1, <3>2, <1>1 DEF TitlesStay
    <2>. QED
        BY <1>1, <1>2, <2>4, <2>5 DEF SiegeInv, SiegesAgree
<1>. QED
    BY <1>3, <1>4

\* A war is declared or ends, a castle is at war or at peace; clans stay what they are.
LEMMA WarsChange ==
    ASSUME SiegeInv, UNCHANGED <<clanVars, owner, torn>>, SiegeTypeOK',
           ~torn => WarsAreCurrent'
    PROVE  SiegeInv'
<1>1. CInv'
    <2>1. asked' \in Answers
        BY DEF SiegeInv, CInv, Persons, Answers, clanVars, memory
    <2>2. UNCHANGED <<online, me, clans, playerClan, tables>>
        BY DEF clanVars, memory
    <2>. QED
        BY <2>1, <2>2, ClansStay DEF SiegeInv
<1>2. UNCHANGED <<clans, dbClans, owner>>
    BY DEF clanVars, memory, tables
<1>3. ~torn => CastlesAgree'
    BY <1>2 DEF SiegeInv, SiegesAgree, CastlesAgree
<1>. QED
    BY <1>1, <1>3 DEF SiegeInv, SiegesAgree

\* A clan and its enemy, when they are two.
LEMMA FoeFacts ==
    ASSUME CInv, NEW p \in Char, NEW n \in Name, Leads(p), NEW d \in Foe(p, n)
    PROVE  /\ d \in DOMAIN clans /\ clans[d].name = n /\ clans[d].castle \in Castle \cup {None}
           /\ ClanOf(p).name \in Name /\ ClanOf(p).name # n
<1>1. d \in DOMAIN clans /\ d # me[p].clan /\ clans[d].name = n
    BY DEF Foe
<1>2. me[p].clan \in DOMAIN clans
    BY LeadsFacts
<1>3. IsInfo(clans[d]) /\ IsInfo(clans[me[p].clan])
    BY <1>1, <1>2 DEF CInv, Files
<1>4. clans[me[p].clan].name # clans[d].name
    BY <1>1, <1>2 DEF CInv, OneLeader
<1>. QED
    BY <1>1, <1>3, <1>4 DEF IsInfo, ClanOf

War == [castle : Castle \cup {None}, def : Name, att : SUBSET Name]

LEMMA DeclareCastleWarKeeps ==
    ASSUME SiegeInv, NEW p \in Char, NEW n \in Name, DeclareCastleWar(p, n)
    PROVE  SiegeInv'
<1>1. PICK d \in Foe(p, n) :
          LET k == clans[d].castle
              mine == ClanOf(p).name
              old == {w \in wars : w.castle = k /\ w.def = n}
          IN  /\ Leads(p)
              /\ k # None
              /\ isWar[k]
              /\ wars' = IF old = {} THEN wars \cup {[castle |-> k, def |-> n, att |-> {mine}]}
                         ELSE (wars \ old) \cup {[w EXCEPT !.att = @ \cup {mine}] : w \in old}
              /\ UNCHANGED <<clanVars, owner, isWar, due, tower, crown, torn>>
    BY DEF DeclareCastleWar
<1>2. PICK k : k = clans[d].castle
    OBVIOUS
<1>3. PICK mine : mine = ClanOf(p).name
    OBVIOUS
<1>4. CInv /\ SiegeTypeOK /\ wars \subseteq War
    BY DEF SiegeInv, SiegesAgree, SiegeTypeOK, War
<1>5. /\ d \in DOMAIN clans /\ clans[d].name = n /\ k \in Castle /\ isWar[k]
      /\ mine \in Name /\ mine # n
    BY <1>1, <1>2, <1>3, <1>4, FoeFacts
<1>6. \A w \in War : [w EXCEPT !.att = @ \cup {mine}] =
                       [castle |-> w.castle, def |-> w.def, att |-> w.att \cup {mine}]
    BY DEF War
<1>7. \A v \in wars' : \/ v \in wars
                      \/ v = [castle |-> k, def |-> n, att |-> {mine}]
                      \/ \E w \in wars : w.castle = k /\ w.def = n
                             /\ v = [castle |-> k, def |-> n, att |-> w.att \cup {mine}]
    <2>1. PICK old : old = {w \in wars : w.castle = k /\ w.def = n}
        OBVIOUS
    <2>2. wars' = IF old = {} THEN wars \cup {[castle |-> k, def |-> n, att |-> {mine}]}
                  ELSE (wars \ old) \cup {[w EXCEPT !.att = @ \cup {mine}] : w \in old}
        BY <1>1, <1>2, <1>3, <2>1
    <2>3. CASE old = {}
        BY <2>2, <2>3
    <2>4. CASE old # {}
        <3>1. \A w \in old : [w EXCEPT !.att = @ \cup {mine}] =
                                  [castle |-> k, def |-> n, att |-> w.att \cup {mine}]
            BY <2>1, <1>4, <1>6
        <3>2. \A v \in wars' : v \in wars \/ \E w \in old : v = [w EXCEPT !.att = @ \cup {mine}]
            BY <2>2, <2>4
        <3>3. ASSUME NEW v \in wars', v \notin wars
              PROVE  \E w \in wars : w.castle = k /\ w.def = n
                                      /\ v = [castle |-> k, def |-> n, att |-> w.att \cup {mine}]
            <4>1. PICK w \in old : v = [w EXCEPT !.att = @ \cup {mine}]
                BY <3>2, <3>3
            <4>2. v = [castle |-> k, def |-> n, att |-> w.att \cup {mine}]
                BY <3>1, <4>1
            <4>. QED
                BY <2>1, <4>2
        <3>. QED
            BY <3>3
    <2>. QED
        BY <2>3, <2>4
<1>8. \A v \in wars' : \/ v \in wars
                      \/ \E a \in SUBSET Name : v = [castle |-> k, def |-> n, att |-> a]
    BY <1>4, <1>5, <1>7 DEF War
<1>9. wars' \subseteq War
    BY <1>4, <1>5, <1>8 DEF War
<1>10. SiegeTypeOK'
    BY <1>1, <1>4, <1>9 DEF SiegeTypeOK, War
<1>11. ~torn => WarsAreCurrent'
    <2> SUFFICES ASSUME ~torn, NEW v \in wars'
                 PROVE  /\ v.att # {} /\ v.def \notin v.att
                        /\ v.castle # None =>
                              /\ isWar'[v.castle]
                              /\ owner'[v.castle] \in DOMAIN clans'
                              /\ clans'[owner'[v.castle]].name = v.def
        BY DEF WarsAreCurrent
    <2>1. UNCHANGED <<clans, owner, isWar>>
        BY <1>1 DEF clanVars, memory
    <2>2. \A w \in wars :
              /\ w.att # {} /\ w.def \notin w.att
              /\ w.castle # None =>
                    /\ isWar[w.castle]
                    /\ owner[w.castle] \in DOMAIN clans /\ clans[owner[w.castle]].name = w.def
        BY DEF SiegeInv, SiegesAgree, WarsAreCurrent
    <2>3. owner[k] = d
        BY <1>2, <1>4, <1>5, OwnerFacts DEF SiegeInv, SiegesAgree
    <2>4. CASE v \in wars
        BY <2>1, <2>2, <2>4
    <2>5. CASE v = [castle |-> k, def |-> n, att |-> {mine}]
        BY <2>1, <2>3, <2>5, <1>5
    <2>6. CASE \E w \in wars : w.castle = k /\ w.def = n
                   /\ v = [castle |-> k, def |-> n, att |-> w.att \cup {mine}]
        BY <2>1, <2>2, <2>3, <2>6, <1>5
    <2>. QED
        BY <1>7, <2>4, <2>5, <2>6
<1>. QED
    BY <1>1, <1>10, <1>11, WarsChange

LEMMA DeclareSimWarKeeps ==
    ASSUME SiegeInv, NEW p \in Char, NEW n \in Name, DeclareSimWar(p, n)
    PROVE  SiegeInv'
<1>1. PICK d \in Foe(p, n) :
          /\ Leads(p)
          /\ wars' = wars \cup {[castle |-> None, def |-> n, att |-> {ClanOf(p).name}]}
          /\ UNCHANGED <<clanVars, owner, isWar, due, tower, crown, torn>>
    BY DEF DeclareSimWar
<1>2. PICK mine : mine = ClanOf(p).name
    OBVIOUS
<1>3. CInv /\ SiegeTypeOK
    BY DEF SiegeInv, SiegesAgree
<1>4. mine \in Name /\ mine # n
    BY <1>1, <1>2, <1>3, FoeFacts
<1>5. PICK new : new = [castle |-> None, def |-> n, att |-> {mine}]
    OBVIOUS
<1>6. wars' = wars \cup {new} /\ new.castle = None /\ new.def = n /\ new.att = {mine}
    BY <1>1, <1>2, <1>5
<1>7. SiegeTypeOK'
    BY <1>1, <1>3, <1>4, <1>5, <1>6 DEF SiegeTypeOK
<1>8. UNCHANGED <<clans, owner, isWar>>
    BY <1>1 DEF clanVars, memory
<1>9. ~torn => WarsAreCurrent'
    BY <1>4, <1>6, <1>8 DEF SiegeInv, SiegesAgree, WarsAreCurrent
<1>. QED
    BY <1>1, <1>7, <1>9, WarsChange

LEMMA SurrenderKeeps ==
    ASSUME SiegeInv, NEW p \in Char, SurrenderWar(p)
    PROVE  SiegeInv'
<1>1. PICK w \in wars :
          /\ LET rest == w.att \ {ClanOf(p).name}
             IN  wars' = (wars \ {w}) \cup (IF rest = {} THEN {} ELSE {[w EXCEPT !.att = rest]})
          /\ UNCHANGED <<clanVars, owner, isWar, due, tower, crown, torn>>
    BY DEF SurrenderWar
<1>2. PICK rest : rest = w.att \ {ClanOf(p).name}
    OBVIOUS
<1>3. SiegeTypeOK /\ w \in War
    BY DEF SiegeInv, SiegesAgree, SiegeTypeOK, War
<1>4. PICK new : new = [castle |-> w.castle, def |-> w.def, att |-> rest]
    OBVIOUS
<1>5. [w EXCEPT !.att = rest] = new /\ new \in War
      /\ new.castle = w.castle /\ new.def = w.def /\ new.att = rest
    BY <1>2, <1>3, <1>4 DEF War
<1>6. \A v \in wars' : v \in wars \/ (v = new /\ rest # {})
    BY <1>1, <1>2, <1>5
<1>7. SiegeTypeOK'
    BY <1>1, <1>3, <1>5, <1>6 DEF SiegeTypeOK, War
<1>8. UNCHANGED <<clans, owner, isWar>>
    BY <1>1 DEF clanVars, memory
<1>9. ~torn => WarsAreCurrent'
    BY <1>2, <1>5, <1>6, <1>8 DEF SiegeInv, SiegesAgree, WarsAreCurrent
<1>. QED
    BY <1>1, <1>7, <1>9, WarsChange

\* Some wars end; others go on as they were, where the castle is still at war.
LEMMA PeaceKeeps ==
    ASSUME SiegeInv, UNCHANGED <<clanVars, owner, torn>>, SiegeTypeOK', wars' \subseteq wars,
           \A w \in wars' : w.castle \in Castle /\ isWar[w.castle] => isWar'[w.castle]
    PROVE  SiegeInv'
<1>1. UNCHANGED <<clans, owner>> /\ SiegeTypeOK
    BY DEF clanVars, memory, SiegeInv, SiegesAgree
<1>2. \A w \in wars' : w.castle \in Castle \cup {None} /\ w \in wars
    BY <1>1 DEF SiegeTypeOK
<1>3. ~torn => WarsAreCurrent'
    BY <1>1, <1>2 DEF SiegeInv, SiegesAgree, WarsAreCurrent
<1>. QED
    BY <1>3, WarsChange

LEMMA CalendarKeeps ==
    ASSUME SiegeInv, NEW k \in Castle, Calendar(k)
    PROVE  SiegeInv'
<1>1. SiegeTypeOK
    BY DEF SiegeInv, SiegesAgree
<1>2. CASE TimePasses(k)
    <2>1. SiegeTypeOK'
        BY <1>1, <1>2 DEF TimePasses, SiegeTypeOK, Phase
    <2>. QED
        BY <1>2, <2>1, PeaceKeeps DEF TimePasses
<1>3. CASE StartWar(k)
    <2>1. SiegeTypeOK'
        BY <1>1, <1>3 DEF StartWar, SiegeTypeOK
    <2>2. \A j \in Castle : isWar[j] => isWar'[j]
        BY <1>1, <1>3 DEF StartWar, SiegeTypeOK
    <2>. QED
        BY <1>3, <2>1, <2>2, PeaceKeeps DEF StartWar
<1>4. CASE EndWar(k)
    <2>1. SiegeTypeOK'
        BY <1>1, <1>4 DEF EndWar, SiegeTypeOK, PeaceAt, Phase
    <2>2. \A w \in wars' : w.castle \in Castle /\ isWar[w.castle] => isWar'[w.castle]
        BY <1>1, <1>4 DEF EndWar, SiegeTypeOK, PeaceAt
    <2>3. wars' \subseteq wars
        BY <1>4 DEF EndWar, PeaceAt
    <2>. QED
        BY <1>4, <2>1, <2>2, <2>3, PeaceKeeps DEF EndWar
<1>. QED
    BY <1>2, <1>3, <1>4 DEF Calendar

LEMMA TowerKeeps ==
    ASSUME SiegeInv, NEW p \in Char, NEW k \in Castle, OnTowerDeath(p, k)
    PROVE  SiegeInv'
<1>1. SiegeTypeOK'
    BY DEF SiegeInv, SiegesAgree, OnTowerDeath, SiegeTypeOK
<1>. QED
    BY <1>1, PeaceKeeps DEF OnTowerDeath

\* Castles go from clan to clan: rows change in that field, as far as they are written.
OnlyCastle(r, s) == s = r \/ \E x \in Castle \cup {None} : s = [r EXCEPT !.castle = x]

LEMMA CastleRows ==
    ASSUME CInv, NEW c \in DOMAIN clans, NEW k \in Castle,
           clans' = Given(c, k, clans), dbClans' \in Written(c, k),
           UNCHANGED <<online, me, playerClan, asked, dbMembers, dbChar, deleted, lastClan>>
    PROVE  CInv'
<1>1. /\ DOMAIN dbClans = DOMAIN clans
      /\ dbClans = [d \in DOMAIN clans |-> dbClans[d]]
    BY DEF CInv, Files
<1>2. clans' = [d \in DOMAIN clans |-> clans'[d]] /\ dbClans' = [d \in DOMAIN clans |-> dbClans'[d]]
    BY <1>1 DEF Given, GiveTo, Written
<1>3. \A d \in DOMAIN clans : OnlyCastle(clans[d], clans'[d]) /\ OnlyCastle(dbClans[d], dbClans'[d])
    BY <1>1 DEF Given, GiveTo, Written, OnlyCastle
<1>4. ASSUME NEW d \in DOMAIN clans
      PROVE  /\ IsInfo(clans'[d]) /\ IsRow(dbClans'[d])
             /\ clans'[d].name = clans[d].name /\ clans'[d].leader = clans[d].leader
             /\ clans'[d].members = clans[d].members
             /\ dbClans'[d].name = dbClans[d].name /\ dbClans'[d].leader = dbClans[d].leader
    <2>1. IsInfo(clans[d]) /\ IsRow(dbClans[d])
        BY DEF CInv, Files
    <2>2. \A x \in Castle \cup {None} :
              /\ IsInfo([clans[d] EXCEPT !.castle = x])
              /\ \A f \in {"name", "leader", "members"} : [clans[d] EXCEPT !.castle = x][f] = clans[d][f]
        BY <2>1, InfoWith
    <2>3. \A x \in Castle \cup {None} :
              /\ IsRow([dbClans[d] EXCEPT !.castle = x])
              /\ \A f \in {"name", "leader"} : [dbClans[d] EXCEPT !.castle = x][f] = dbClans[d][f]
        BY <2>1, RowWith
    <2>4. /\ IsInfo(clans'[d])
          /\ \A f \in {"name", "leader", "members"} : clans'[d][f] = clans[d][f]
        <3>1. CASE clans'[d] = clans[d]
            BY <3>1, <2>1
        <3>2. CASE \E x \in Castle \cup {None} : clans'[d] = [clans[d] EXCEPT !.castle = x]
            <4>1. PICK x \in Castle \cup {None} : clans'[d] = [clans[d] EXCEPT !.castle = x]
                BY <3>2
            <4>2. PICK i : i = [clans[d] EXCEPT !.castle = x]
                OBVIOUS
            <4>3. IsInfo(i) /\ \A f \in {"name", "leader", "members"} : i[f] = clans[d][f]
                BY <2>2, <4>2
            <4>4. clans'[d] = i
                BY <4>1, <4>2
            <4>. QED
                BY <4>3, <4>4
        <3>. QED
            BY <3>1, <3>2, <1>3 DEF OnlyCastle
    <2>5. /\ IsRow(dbClans'[d])
          /\ \A f \in {"name", "leader"} : dbClans'[d][f] = dbClans[d][f]
        <3>1. CASE dbClans'[d] = dbClans[d]
            BY <3>1, <2>1
        <3>2. CASE \E x \in Castle \cup {None} : dbClans'[d] = [dbClans[d] EXCEPT !.castle = x]
            <4>1. PICK x \in Castle \cup {None} : dbClans'[d] = [dbClans[d] EXCEPT !.castle = x]
                BY <3>2
            <4>2. PICK i : i = [dbClans[d] EXCEPT !.castle = x]
                OBVIOUS
            <4>3. IsRow(i) /\ \A f \in {"name", "leader"} : i[f] = dbClans[d][f]
                BY <2>3, <4>2
            <4>4. dbClans'[d] = i
                BY <4>1, <4>2
            <4>. QED
                BY <4>3, <4>4
        <3>. QED
            BY <3>1, <3>2, <1>3 DEF OnlyCastle
    <2>. QED
        BY <2>4, <2>5
<1>5. asked' \in Answers
    BY DEF CInv, Persons, Answers
<1>. QED
    BY <1>2, <1>4, <1>5, AssetsChange

LEMMA CrownKeeps ==
    ASSUME SiegeInv, NEW p \in Char, NEW k \in Castle, HandleCrownClick(p, k)
    PROVE  SiegeInv'
<1>1. PICK c : c = me[p].clan
    OBVIOUS
<1>2. /\ Leads(p) /\ clans[c].castle = None
      /\ wars' = PeaceAt(k)
      /\ owner' = [owner EXCEPT ![k] = c]
      /\ clans' = Given(c, k, clans)
      /\ dbClans' \in Written(c, k)
      /\ torn' = (torn \/ dbClans' # Given(c, k, dbClans))
      /\ crown' = crown \ {k}
      /\ UNCHANGED <<online, me, playerClan, asked, dbMembers, dbChar, deleted, lastClan,
                     isWar, due, tower>>
    BY <1>1 DEF HandleCrownClick, ClanOf
<1>3. CInv /\ SiegeTypeOK
    BY DEF SiegeInv, SiegesAgree
<1>4. c \in DOMAIN clans /\ c \in 1..MaxClan /\ DOMAIN dbClans = DOMAIN clans
    BY <1>1, <1>2, <1>3, LeadsFacts DEF CInv, Files
<1>5. CInv'
    BY <1>2, <1>3, <1>4, CastleRows
<1>6. SiegeTypeOK'
    <2>1. torn' \in BOOLEAN
        BY <1>2, <1>3 DEF SiegeTypeOK
    <2>2. owner' \in [Castle -> 0..MaxClan]
        BY <1>2, <1>3, <1>4 DEF SiegeTypeOK
    <2>. QED
        BY <1>2, <1>3, <2>1, <2>2 DEF SiegeTypeOK, PeaceAt
<1>7. CASE torn'
    BY <1>5, <1>6, <1>7 DEF SiegeInv, SiegesAgree
<1>8. CASE ~torn'
    <2>1. dbClans' = Given(c, k, dbClans) /\ CastlesAgree /\ WarsAreCurrent
        BY <1>2, <1>8 DEF SiegeInv, SiegesAgree
    <2>2. /\ \A j \in Castle : owner[j] \in DOMAIN clans \/ owner[j] = NoClan
          /\ \A j \in Castle, d \in DOMAIN clans : owner[j] = d <=> clans[d].castle = j
          /\ \A j \in Castle, d \in DOMAIN clans : dbClans[d].castle = clans[d].castle
        BY <1>3, <2>1, OwnerFacts
    <2>3. k # None /\ owner'[k] = c /\ \A j \in Castle : j # k => owner'[j] = owner[j]
        BY <1>2, <1>3 DEF SiegeTypeOK
    <2>4. \A d \in DOMAIN clans : /\ IsInfo(clans[d]) /\ IsRow(dbClans[d])
                                  /\ clans[d].castle \in Castle \cup {None}
        BY <1>3 DEF CInv, Files, IsInfo
    <2>5. /\ DOMAIN clans' = DOMAIN clans
          /\ \A d \in DOMAIN clans :
                /\ clans'[d].name = clans[d].name
                /\ clans'[d].castle = IF d = c THEN k ELSE IF d = owner[k] THEN None ELSE clans[d].castle
                /\ dbClans'[d].castle = IF d = c THEN k ELSE IF d = owner[k] THEN None ELSE dbClans[d].castle
        <3>1. /\ DOMAIN clans' = DOMAIN clans
              /\ \A d \in DOMAIN clans :
                    /\ clans'[d] = IF d = c THEN [clans[d] EXCEPT !.castle = k]
                                   ELSE IF d = owner[k] THEN [clans[d] EXCEPT !.castle = None] ELSE clans[d]
                    /\ dbClans'[d] = IF d = c THEN [dbClans[d] EXCEPT !.castle = k]
                                     ELSE IF d = owner[k] THEN [dbClans[d] EXCEPT !.castle = None] ELSE dbClans[d]
            BY <1>2, <1>4, <2>1 DEF Given
        <3>2. \A d \in DOMAIN clans : \A x \in Castle \cup {None} :
                 /\ [clans[d] EXCEPT !.castle = x].castle = x
                 /\ [clans[d] EXCEPT !.castle = x].name = clans[d].name
                 /\ [dbClans[d] EXCEPT !.castle = x].castle = x
            <4> SUFFICES ASSUME NEW d \in DOMAIN clans
                         PROVE  \A x \in Castle \cup {None} :
                                   /\ [clans[d] EXCEPT !.castle = x].castle = x
                                   /\ [clans[d] EXCEPT !.castle = x].name = clans[d].name
                                   /\ [dbClans[d] EXCEPT !.castle = x].castle = x
                OBVIOUS
            <4>1. \A x \in Castle \cup {None} :
                      /\ [clans[d] EXCEPT !.castle = x].castle = x
                      /\ \A f \in {"name", "leader", "members"} : [clans[d] EXCEPT !.castle = x][f] = clans[d][f]
                BY <2>4, InfoWith
            <4>2. \A x \in Castle \cup {None} : [dbClans[d] EXCEPT !.castle = x].castle = x
                BY <2>4, RowWith
            <4>. QED
                BY <4>1, <4>2
        <3>3. ASSUME NEW d \in DOMAIN clans
              PROVE  /\ clans'[d].name = clans[d].name
                     /\ clans'[d].castle = IF d = c THEN k ELSE IF d = owner[k] THEN None ELSE clans[d].castle
                     /\ dbClans'[d].castle = IF d = c THEN k ELSE IF d = owner[k] THEN None ELSE dbClans[d].castle
            <4>1. \A x \in Castle \cup {None} :
                      /\ [clans[d] EXCEPT !.castle = x].castle = x
                      /\ [clans[d] EXCEPT !.castle = x].name = clans[d].name
                      /\ [dbClans[d] EXCEPT !.castle = x].castle = x
                BY <3>2
            <4>2. CASE d = c
                <5>1. PICK i : i = [clans[d] EXCEPT !.castle = k]
                    OBVIOUS
                <5>2. PICK r : r = [dbClans[d] EXCEPT !.castle = k]
                    OBVIOUS
                <5>3. i.castle = k /\ i.name = clans[d].name /\ r.castle = k
                    BY <4>1, <5>1, <5>2
                <5>4. clans'[d] = i /\ dbClans'[d] = r
                    BY <4>2, <3>1, <5>1, <5>2
                <5>. QED
                    BY <4>2, <5>3, <5>4
            <4>3. CASE d # c /\ d = owner[k]
                <5>1. PICK i : i = [clans[d] EXCEPT !.castle = None]
                    OBVIOUS
                <5>2. PICK r : r = [dbClans[d] EXCEPT !.castle = None]
                    OBVIOUS
                <5>3. i.castle = None /\ i.name = clans[d].name /\ r.castle = None
                    BY <4>1, <5>1, <5>2
                <5>4. clans'[d] = i /\ dbClans'[d] = r
                    BY <4>3, <3>1, <5>1, <5>2
                <5>. QED
                    BY <4>3, <5>3, <5>4
            <4>4. CASE d # c /\ d # owner[k]
                BY <4>4, <3>1
            <4>. QED
                BY <4>2, <4>3, <4>4
        <3>. QED
            BY <3>1, <3>3
    <2>6. CastlesAgree'
        <3> SUFFICES ASSUME NEW j \in Castle, NEW d \in 1..MaxClan
                     PROVE  /\ owner'[j] = d <=> d \in DOMAIN clans' /\ clans'[d].castle = j
                            /\ d \in DOMAIN clans' => dbClans'[d].castle = clans'[d].castle
            BY DEF CastlesAgree
        <3>1. CASE d \notin DOMAIN clans
            BY <3>1, <2>2, <2>3, <2>5, <1>4
        <3>2. CASE d \in DOMAIN clans
            <4>1. dbClans'[d].castle = clans'[d].castle
                BY <3>2, <2>2, <2>5
            <4>2. CASE j = k
                BY <3>2, <4>2, <2>2, <2>3, <2>5
            <4>3. CASE j # k
                <5>1. j # None
                    OBVIOUS
                <5>2. owner'[j] = owner[j] /\ (owner[j] = d <=> clans[d].castle = j)
                      /\ (owner[k] = d <=> clans[d].castle = k)
                    BY <4>3, <3>2, <2>2, <2>3
                <5>3. clans'[d].castle = IF d = c THEN k ELSE IF d = owner[k] THEN None ELSE clans[d].castle
                    BY <3>2, <2>5
                <5>. QED
                    BY <4>1, <4>3, <5>1, <5>2, <5>3, <1>2, <2>5, <3>2
            <4>. QED
                BY <4>1, <4>2, <4>3, <2>5, <3>2
        <3>. QED
            BY <3>1, <3>2
    <2>7. WarsAreCurrent'
        <3>1. \A w \in wars' : w \in wars /\ w.castle # k /\ w.castle \in Castle \cup {None}
            BY <1>2, <1>3 DEF PeaceAt, SiegeTypeOK
        <3>2. isWar' = isWar
            BY <1>2
        <3>3. \A w \in wars :
                  /\ w.att # {} /\ w.def \notin w.att
                  /\ w.castle # None =>
                        /\ isWar[w.castle]
                        /\ owner[w.castle] \in DOMAIN clans /\ clans[owner[w.castle]].name = w.def
            BY <2>1 DEF WarsAreCurrent
        <3>. QED
            BY <3>1, <3>2, <3>3, <2>3, <2>5 DEF WarsAreCurrent
    <2>. QED
        BY <1>5, <1>6, <2>6, <2>7 DEF SiegeInv, SiegesAgree
<1>. QED
    BY <1>7, <1>8

LEMMA SiegeRestartKeeps ==
    ASSUME SiegeInv, SiegeRestart
    PROVE  SiegeInv'
<1>1. CInv /\ CInv' /\ SiegeTypeOK
    BY RestartKeeps DEF SiegeInv, SiegesAgree, SiegeRestart
<1>2. /\ owner' \in [Castle -> 0..MaxClan]
      /\ \A k \in Castle : LET claim == {c \in DOMAIN dbClans : dbClans[c].castle = k}
                           IN  IF claim = {} THEN owner'[k] = NoClan ELSE owner'[k] \in claim
      /\ isWar' = [k \in Castle |-> FALSE]
      /\ due' \in [Castle -> Phase]
      /\ wars' = {} /\ tower' = Castle /\ crown' = {} /\ torn' = torn
    BY DEF SiegeRestart
<1>3. SiegeTypeOK'
    BY <1>1, <1>2 DEF SiegeTypeOK
<1>4. CASE torn
    BY <1>1, <1>2, <1>3, <1>4 DEF SiegeInv, SiegesAgree
<1>5. CASE ~torn
    <2>1. CastlesAgree
        BY <1>5 DEF SiegeInv, SiegesAgree
    <2>2. /\ \A k \in Castle, c \in DOMAIN clans : owner[k] = c <=> clans[c].castle = k
          /\ \A k \in Castle, c \in DOMAIN clans : dbClans[c].castle = clans[c].castle
        BY <1>1, <2>1, OwnerFacts
    <2>3. DOMAIN dbClans = DOMAIN clans /\ \A c \in DOMAIN clans : c # NoClan
        BY <1>1 DEF CInv, Files
    <2>4. /\ DOMAIN clans' = DOMAIN clans /\ dbClans' = dbClans
          /\ \A c \in DOMAIN clans : clans'[c].castle = dbClans[c].castle
        BY <2>3 DEF SiegeRestart, Restart, Loaded, tables
    <2>5. CastlesAgree'
        <3> SUFFICES ASSUME NEW k \in Castle, NEW c \in 1..MaxClan
                     PROVE  /\ owner'[k] = c <=> c \in DOMAIN clans' /\ clans'[c].castle = k
                            /\ c \in DOMAIN clans' => dbClans'[c].castle = clans'[c].castle
            BY DEF CastlesAgree
        <3>1. PICK claim : claim = {d \in DOMAIN clans : clans[d].castle = k}
            OBVIOUS
        <3>2. claim = {d \in DOMAIN dbClans : dbClans[d].castle = k}
            BY <3>1, <2>2, <2>3
        <3>3. IF claim = {} THEN owner'[k] = NoClan ELSE owner'[k] \in claim
            BY <3>2, <1>2
        <3>4. \A d, e \in claim : d = e
            BY <3>1, <2>2
        <3>5. owner'[k] = c <=> c \in claim
            <4>1. c # NoClan
                OBVIOUS
            <4>. QED
                BY <3>3, <3>4, <4>1
        <3>. QED
            BY <3>1, <3>5, <2>2, <2>4
    <2>6. WarsAreCurrent'
        BY <1>2 DEF WarsAreCurrent
    <2>. QED
        BY <1>1, <1>3, <2>5, <2>6 DEF SiegeInv, SiegesAgree
<1>. QED
    BY <1>4, <1>5

LEMMA SiegeInitInv == ClanInit /\ SiegeInit => SiegeInv
<1> SUFFICES ASSUME ClanInit, SiegeInit PROVE SiegeInv
    OBVIOUS
<1>1. CInv
    BY ClanInitCInv
<1>2. SiegeTypeOK
    <2>1. owner \in [Castle -> 0..MaxClan]
        BY DEF SiegeInit
    <2>2. isWar \in [Castle -> BOOLEAN] /\ due \in [Castle -> Phase] /\ torn \in BOOLEAN
        BY DEF SiegeInit, Phase
    <2>3. /\ wars \subseteq [castle : Castle \cup {None}, def : Name, att : SUBSET Name]
          /\ tower \subseteq Castle /\ crown \subseteq Castle \ tower
        BY DEF SiegeInit
    <2>. QED
        BY <2>1, <2>2, <2>3 DEF SiegeTypeOK
<1>3. CastlesAgree
    BY DEF SiegeInit, ClanInit, CastlesAgree
<1>4. WarsAreCurrent
    BY DEF SiegeInit, WarsAreCurrent
<1>. QED
    BY <1>1, <1>2, <1>3, <1>4 DEF SiegeInv, SiegesAgree

LEMMA SiegeNextKeeps ==
    ASSUME SiegeInv, [SiegeNext]_warVars
    PROVE  SiegeInv'
<1>1. CASE ClanStep /\ UNCHANGED siegeVars
    BY <1>1, ClanStepSieges
<1>2. ASSUME NEW p \in Char, NEW n \in Name, DeclareCastleWar(p, n) PROVE SiegeInv'
    BY <1>2, DeclareCastleWarKeeps
<1>3. ASSUME NEW p \in Char, NEW n \in Name, DeclareSimWar(p, n) PROVE SiegeInv'
    BY <1>3, DeclareSimWarKeeps
<1>4. ASSUME NEW p \in Char, NEW n \in Name, CeaseWar(p, n) PROVE SiegeInv'
    <2>1. wars' \subseteq wars /\ UNCHANGED <<clanVars, owner, isWar, due, tower, crown, torn>>
        BY <1>4 DEF CeaseWar
    <2>2. SiegeTypeOK'
        BY <2>1 DEF SiegeInv, SiegesAgree, SiegeTypeOK
    <2>. QED
        BY <2>1, <2>2, PeaceKeeps
<1>5. ASSUME NEW p \in Char, SurrenderWar(p) PROVE SiegeInv'
    BY <1>5, SurrenderKeeps
<1>6. ASSUME NEW p \in Char, NEW k \in Castle, OnTowerDeath(p, k) PROVE SiegeInv'
    BY <1>6, TowerKeeps
<1>7. ASSUME NEW p \in Char, NEW k \in Castle, HandleCrownClick(p, k) PROVE SiegeInv'
    BY <1>7, CrownKeeps
<1>8. ASSUME NEW k \in Castle, Calendar(k) PROVE SiegeInv'
    BY <1>8, CalendarKeeps
<1>9. CASE SiegeRestart
    BY <1>9, SiegeRestartKeeps
<1>10. CASE UNCHANGED warVars
    <2>1. UNCHANGED <<clanVars, owner, torn, isWar, due, wars, tower, crown>>
        BY <1>10 DEF warVars, siegeVars
    <2>2. SiegeTypeOK'
        BY <2>1 DEF SiegeInv, SiegesAgree, SiegeTypeOK
    <2>. QED
        BY <2>1, <2>2, PeaceKeeps
<1>. QED
    BY <1>1, <1>2, <1>3, <1>4, <1>5, <1>6, <1>7, <1>8, <1>9, <1>10 DEF SiegeNext, SiegeStep

\* The copies of membership in memory and on disk (world/clan.go:46, clan_members,
\* characters) agree, and each clan has its one leader, whatever order requests, answers,
\* expulsions, promotions, logins, saves, deletions, sieges and restarts come in.
THEOREM MembershipAgrees == SiegeSpec => []ClansAgree
<1>1. SiegeInv => ClansAgree
    BY CInvAgrees DEF SiegeInv
<1>. QED
    BY <1>1, SiegeInitInv, SiegeNextKeeps, PTL DEF SiegeSpec

\* A castle and the clan that owns it name each other in memory and in the table, and
\* each war for it is fought while it is at war, against that clan (castle_sys.go:256-288,
\* war_sys.go:210-239), but for a transfer of which the database took only a part.
THEOREM CastlesAndWarsAgree == SiegeSpec => []SiegesAgree
<1>1. SiegeInv => SiegesAgree
    BY DEF SiegeInv
<1>. QED
    BY <1>1, SiegeInitInv, SiegeNextKeeps, PTL DEF SiegeSpec

-----------------------------------------------------------------------------
(* Auctions.                                                                 *)

\* Who has a form for a bid before him has no bid: PlaceBid does not ask again.
FormsAreNew == \A p \in Char : form[p] # None => ~Bidding(p)

AuctionInv == CInv /\ AuctionsAgree /\ FormsAreNew /\ DOMAIN purse = Char

\* Auctions alone change: nothing of clans.
LEMMA AuctionsChange ==
    ASSUME AuctionInv, UNCHANGED clanVars, AuctionTypeOK', BidsAreRecorded', FormsAreNew',
           DOMAIN purse' = Char
    PROVE  AuctionInv'
<1>1. asked' \in Answers /\ UNCHANGED <<online, me, clans, playerClan, tables>>
    BY DEF AuctionInv, CInv, Persons, Answers, clanVars, memory
<1>2. CInv'
    BY <1>1, ClansStay DEF AuctionInv
<1>. QED
    BY <1>2 DEF AuctionInv, AuctionsAgree

\* What is refunded is added, if anything is.
LEMMA RefundedFacts ==
    ASSUME AuctionTypeOK, DOMAIN purse = Char, NEW p, NEW n \in Nat
    PROVE  /\ DOMAIN Refunded(p, n) = Char
           /\ \A q \in Char : IF q \in online THEN Refunded(p, n)[q] \in Nat /\ Refunded(p, n)[q] >= purse[q]
                             ELSE Refunded(p, n)[q] = None
<1>1. \A q \in Char : IF q \in online THEN purse[q] \in Nat ELSE purse[q] = None
    BY DEF AuctionTypeOK
<1>2. DOMAIN Refunded(p, n) = Char
      /\ \A q \in Char : Refunded(p, n)[q] = IF q = p /\ p \in online THEN purse[q] + n ELSE purse[q]
    BY DEF Refunded
<1>. QED
    BY <1>1, <1>2

LEMMA ApplyKeeps ==
    ASSUME AuctionInv, NEW p \in Char, NEW h \in House, Apply(p, h)
    PROVE  AuctionInv'
<1>1. /\ ~Bidding(p) /\ form' = [form EXCEPT ![p] = h]
      /\ UNCHANGED <<clanVars, online, board, dbBoard, overdue, purse, dbPurse>>
    BY DEF Apply, clanVars, memory
<1>2. AuctionTypeOK'
    BY <1>1 DEF AuctionInv, AuctionsAgree, AuctionTypeOK, Entry
<1>3. BidsAreRecorded'
    BY <1>1 DEF AuctionInv, AuctionsAgree, BidsAreRecorded
<1>4. FormsAreNew'
    BY <1>1 DEF AuctionInv, AuctionsAgree, AuctionTypeOK, FormsAreNew, Bidding
<1>. QED
    BY <1>1, <1>2, <1>3, <1>4, AuctionsChange DEF AuctionInv

\* An auction is put on the board or stands otherwise there: with no bid, or with that
\* of somebody who had none.
LEMMA BoardChanges ==
    ASSUME AuctionInv, NEW h \in House, NEW e \in Entry,
           board' = With(h, e, board), dbBoard' = With(h, e, dbBoard),
           form' \in [Char -> House \cup {None}],
           e.bidder # None => ~Bidding(e.bidder) /\ form'[e.bidder] = None,
           \A q \in Char : form'[q] # None => form[q] # None
    PROVE  /\ DOMAIN board' \subseteq House /\ \A g \in DOMAIN board' : board'[g] \in Entry
           /\ BidsAreRecorded' /\ FormsAreNew'
<1>1. DOMAIN board' = DOMAIN board \cup {h} /\ board'[h] = e
      /\ \A g \in DOMAIN board : g # h => board'[g] = board[g]
    BY DEF With
<1>2. DOMAIN board \subseteq House /\ \A g \in DOMAIN board : board[g] \in Entry
    BY DEF AuctionInv, AuctionsAgree, AuctionTypeOK
<1>3. board = dbBoard
      /\ \A g, i \in DOMAIN board : board[g].bidder = board[i].bidder => g = i \/ board[g].bidder = None
    BY DEF AuctionInv, AuctionsAgree, BidsAreRecorded
<1>4. \A g \in DOMAIN board' : board'[g] \in Entry
    BY <1>1, <1>2
<1>5. e.bidder # None => \A g \in DOMAIN board : board[g].bidder # e.bidder
    BY DEF Bidding
<1>6. BidsAreRecorded'
    <2>1. board' = dbBoard'
        BY <1>3
    <2>2. ASSUME NEW g \in DOMAIN board', NEW i \in DOMAIN board', board'[g].bidder = board'[i].bidder
          PROVE  g = i \/ board'[g].bidder = None
        <3>1. CASE g = h
            BY <2>2, <3>1, <1>1, <1>5
        <3>2. CASE i = h
            BY <2>2, <3>2, <1>1, <1>5
        <3>3. CASE g # h /\ i # h
            BY <2>2, <3>3, <1>1, <1>3
        <3>. QED
            BY <3>1, <3>2, <3>3
    <2>. QED
        BY <2>1, <2>2 DEF BidsAreRecorded
<1>7. FormsAreNew'
    <2> SUFFICES ASSUME NEW q \in Char, form'[q] # None, NEW g \in DOMAIN board'
                 PROVE  board'[g].bidder # q
        BY DEF FormsAreNew, Bidding
    <2>1. ~Bidding(q) /\ q # None
        BY DEF AuctionInv, FormsAreNew
    <2>2. CASE g = h
        BY <2>1, <2>2, <1>1
    <2>3. CASE g # h
        BY <2>1, <2>3, <1>1 DEF Bidding
    <2>. QED
        BY <2>2, <2>3
<1>. QED
    BY <1>1, <1>2, <1>4, <1>6, <1>7

LEMMA BidKeeps ==
    ASSUME AuctionInv, NEW p \in Char, NEW n \in 1..MaxPrice, PlaceBid(p, n)
    PROVE  AuctionInv'
<1>1. PICK h : h = form[p]
    OBVIOUS
<1>2. /\ p \in online /\ h # None
      /\ form' = [form EXCEPT ![p] = None]
      /\ \/ /\ h \in DOMAIN board /\ purse[p] >= n
            /\ LET paid == IF board[h].bidder = None THEN purse
                           ELSE Refunded(board[h].bidder, board[h].price)
                   e == [price |-> n, bidder |-> p, seller |-> board[h].seller]
               IN  \/ /\ dbBoard' = With(h, e, dbBoard)
                      /\ purse' = [paid EXCEPT ![p] = @ - n]
                      /\ board' = With(h, e, board)
                   \/ purse' = paid /\ UNCHANGED <<board, dbBoard>>
         \/ UNCHANGED <<board, dbBoard, purse>>
      /\ UNCHANGED <<clanVars, online, overdue, dbPurse>>
    BY <1>1 DEF PlaceBid, clanVars, memory
<1>3. AuctionTypeOK /\ BidsAreRecorded /\ FormsAreNew /\ DOMAIN purse = Char
    BY DEF AuctionInv, AuctionsAgree
<1>4. /\ DOMAIN board \subseteq House /\ \A g \in DOMAIN board : board[g] \in Entry
      /\ overdue \subseteq House
      /\ form \in [Char -> House \cup {None}]
      /\ \A q \in Char : IF q \in online THEN purse[q] \in Nat ELSE purse[q] = None
      /\ dbPurse \in [Char -> Nat]
    BY <1>3 DEF AuctionTypeOK
<1>5. /\ ~Bidding(p) /\ form' \in [Char -> House \cup {None}] /\ form'[p] = None
      /\ h \in House
      /\ \A q \in Char : form'[q] # None => form[q] # None
    BY <1>1, <1>2, <1>3, <1>4 DEF FormsAreNew
<1>6. ASSUME UNCHANGED <<board, dbBoard>>,
             purse' = purse \/ (h \in DOMAIN board /\ purse' = Refunded(board[h].bidder, board[h].price))
      PROVE  AuctionInv'
    <2>1. BidsAreRecorded' /\ FormsAreNew'
        BY <1>3, <1>5, <1>6 DEF BidsAreRecorded, FormsAreNew, Bidding
    <2>2. /\ DOMAIN purse' = Char
          /\ \A q \in Char : IF q \in online THEN purse'[q] \in Nat ELSE purse'[q] = None
        <3>1. CASE purse' = purse
            BY <3>1, <1>3, <1>4
        <3>2. ASSUME h \in DOMAIN board, purse' = Refunded(board[h].bidder, board[h].price)
              PROVE  /\ DOMAIN purse' = Char
                     /\ \A q \in Char : IF q \in online THEN purse'[q] \in Nat ELSE purse'[q] = None
            <4>1. board[h].price \in Nat
                BY <1>4, <3>2, AuctionAssumption DEF Entry
            <4>2. PICK b : b = board[h].bidder
                OBVIOUS
            <4>3. PICK m \in Nat : m = board[h].price
                BY <4>1
            <4>. QED
                BY <3>2, <4>2, <4>3, <1>3, RefundedFacts
        <3>. QED
            BY <3>1, <3>2, <1>6
    <2>3. AuctionTypeOK'
        BY <2>2, <1>2, <1>4, <1>5, <1>6 DEF AuctionTypeOK, Entry
    <2>. QED
        BY <1>2, <2>1, <2>2, <2>3, AuctionsChange
<1>7. ASSUME NEW paid, NEW e, h \in DOMAIN board, purse[p] >= n,
             paid = IF board[h].bidder = None THEN purse
                    ELSE Refunded(board[h].bidder, board[h].price),
             e = [price |-> n, bidder |-> p, seller |-> board[h].seller],
             dbBoard' = With(h, e, dbBoard), purse' = [paid EXCEPT ![p] = @ - n],
             board' = With(h, e, board)
      PROVE  AuctionInv'
    <2>1. board[h] \in Entry
        BY <1>4, <1>7
    <2>2. e \in Entry /\ e.bidder = p
        BY <2>1, <1>7, AuctionAssumption DEF Entry
    <2>3. /\ DOMAIN board' \subseteq House /\ \A g \in DOMAIN board' : board'[g] \in Entry
          /\ BidsAreRecorded' /\ FormsAreNew'
        BY <1>5, <1>7, <2>2, BoardChanges
    <2>4. /\ DOMAIN paid = Char
          /\ \A q \in Char : IF q \in online THEN paid[q] \in Nat /\ paid[q] >= purse[q] ELSE paid[q] = None
        <3>1. CASE board[h].bidder = None
            BY <3>1, <1>3, <1>4, <1>7
        <3>2. CASE board[h].bidder # None
            <4>1. PICK b : b = board[h].bidder
                OBVIOUS
            <4>2. PICK m \in Nat : m = board[h].price
                BY <2>1, AuctionAssumption DEF Entry
            <4>. QED
                BY <3>2, <4>1, <4>2, <1>3, <1>7, RefundedFacts
        <3>. QED
            BY <3>1, <3>2
    <2>5. DOMAIN purse' = Char /\ purse'[p] = paid[p] - n /\ \A q \in Char : q # p => purse'[q] = paid[q]
        BY <1>7, <2>4
    <2>6. \A q \in Char : IF q \in online THEN purse'[q] \in Nat ELSE purse'[q] = None
        <3>1. purse[p] \in Nat /\ paid[p] \in Nat /\ paid[p] >= purse[p] /\ purse[p] >= n /\ n \in Nat
            BY <1>2, <1>4, <1>7, <2>4, AuctionAssumption
        <3>2. purse'[p] \in Nat
            BY <3>1, <2>5
        <3>. QED
            BY <3>2, <2>4, <2>5, <1>2
    <2>7. AuctionTypeOK'
        BY <1>2, <1>4, <1>5, <2>3, <2>6 DEF AuctionTypeOK, Entry
    <2>. QED
        BY <1>2, <2>3, <2>5, <2>7, AuctionsChange
<1>8. \/ /\ UNCHANGED <<board, dbBoard>>
         /\ purse' = purse \/ (h \in DOMAIN board /\ purse' = Refunded(board[h].bidder, board[h].price))
      \/ \E paid, e :
            /\ h \in DOMAIN board /\ purse[p] >= n
            /\ paid = IF board[h].bidder = None THEN purse
                      ELSE Refunded(board[h].bidder, board[h].price)
            /\ e = [price |-> n, bidder |-> p, seller |-> board[h].seller]
            /\ dbBoard' = With(h, e, dbBoard) /\ purse' = [paid EXCEPT ![p] = @ - n]
            /\ board' = With(h, e, board)
    BY <1>2
<1>. QED
    BY <1>6, <1>7, <1>8

LEMMA SellKeeps ==
    ASSUME AuctionInv, NEW p \in Char, NEW n \in 1..MaxPrice, SellHouse(p, n)
    PROVE  AuctionInv'
<1>1. PICK h : h = ClanOf(p).house
    OBVIOUS
<1>2. PICK e : e = [price |-> n, bidder |-> None, seller |-> p]
    OBVIOUS
<1>3. /\ h \in House /\ dbBoard' = With(h, e, dbBoard) /\ board' = With(h, e, board)
      /\ UNCHANGED <<clanVars, online, overdue, form, purse, dbPurse>>
    BY <1>1, <1>2 DEF SellHouse, clanVars, memory
<1>4. AuctionTypeOK /\ form' \in [Char -> House \cup {None}]
    BY <1>3 DEF AuctionInv, AuctionsAgree, AuctionTypeOK
<1>5. e \in Entry /\ e.bidder = None
    BY <1>2, AuctionAssumption DEF Entry
<1>6. /\ DOMAIN board' \subseteq House /\ \A g \in DOMAIN board' : board'[g] \in Entry
      /\ BidsAreRecorded' /\ FormsAreNew'
    BY <1>3, <1>4, <1>5, BoardChanges
<1>7. AuctionTypeOK'
    BY <1>3, <1>4, <1>6 DEF AuctionTypeOK, Entry
<1>. QED
    BY <1>3, <1>6, <1>7, AuctionsChange DEF AuctionInv

LEMMA DeadlineKeeps ==
    ASSUME AuctionInv, NEW h \in House, DeadlinePasses(h) \/ ExtendDeadline(h)
    PROVE  AuctionInv'
<1>1. /\ overdue' \subseteq House
      /\ UNCHANGED <<clanVars, online, board, dbBoard, form, purse, dbPurse>>
    BY DEF DeadlinePasses, ExtendDeadline, AuctionInv, AuctionsAgree, AuctionTypeOK, clanVars, memory
<1>2. AuctionTypeOK'
    BY <1>1 DEF AuctionInv, AuctionsAgree, AuctionTypeOK, Entry
<1>3. BidsAreRecorded' /\ FormsAreNew'
    BY <1>1 DEF AuctionInv, AuctionsAgree, BidsAreRecorded, FormsAreNew, Bidding
<1>. QED
    BY <1>1, <1>2, <1>3, AuctionsChange DEF AuctionInv

\* An auction that is settled is gone, or stands as it stood.
LEMMA EntryGoes ==
    ASSUME AuctionInv, NEW h \in House, RemoveEntry(h), form' = form
    PROVE  /\ DOMAIN board' \subseteq House /\ \A g \in DOMAIN board' : board'[g] \in Entry
           /\ overdue' \subseteq House
           /\ BidsAreRecorded' /\ FormsAreNew'
<1>1. /\ DOMAIN board \subseteq House /\ \A g \in DOMAIN board : board[g] \in Entry
      /\ overdue \subseteq House
    BY DEF AuctionInv, AuctionsAgree, AuctionTypeOK
<1>2. /\ board = dbBoard /\ FormsAreNew
      /\ \A g, i \in DOMAIN board : board[g].bidder = board[i].bidder => g = i \/ board[g].bidder = None
    BY DEF AuctionInv, AuctionsAgree, BidsAreRecorded
<1>3. /\ DOMAIN board' \subseteq DOMAIN board /\ board' = dbBoard' /\ overdue' \subseteq overdue
      /\ \A g \in DOMAIN board' : board'[g] = board[g]
    BY <1>2 DEF RemoveEntry, Without, Restrict
<1>4. \A g \in DOMAIN board' : board'[g] \in Entry
    BY <1>1, <1>3
<1>5. BidsAreRecorded'
    BY <1>2, <1>3 DEF BidsAreRecorded
<1>6. FormsAreNew'
    BY <1>2, <1>3 DEF FormsAreNew, Bidding
<1>. QED
    BY <1>1, <1>3, <1>4, <1>5, <1>6

LEMMA CancelledKeeps ==
    ASSUME AuctionInv, NEW h \in House, SettleCancelled(h)
    PROVE  AuctionInv'
<1>1. RemoveEntry(h) /\ UNCHANGED <<clanVars, online, form, purse, dbPurse>>
    BY DEF SettleCancelled, clanVars, memory
<1>2. /\ DOMAIN board' \subseteq House /\ \A g \in DOMAIN board' : board'[g] \in Entry
      /\ overdue' \subseteq House
      /\ BidsAreRecorded' /\ FormsAreNew'
    BY <1>1, EntryGoes
<1>3. AuctionTypeOK'
    BY <1>1, <1>2 DEF AuctionInv, AuctionsAgree, AuctionTypeOK, Entry
<1>. QED
    BY <1>1, <1>2, <1>3, AuctionsChange DEF AuctionInv

\* A house that is sold changes its clans in memory, and nothing else of them.
LEMMA HousesChange ==
    ASSUME CInv, NEW h \in House, NEW b, NEW s, clans' = HousesAfter(h, b, s),
           UNCHANGED <<online, me, playerClan, asked, tables>>
    PROVE  CInv'
<1>1. PICK given : given = [c \in DOMAIN clans |->
                    IF InClan(b) /\ c = me[b].clan THEN [clans[c] EXCEPT !.house = h] ELSE clans[c]]
    OBVIOUS
<1>2. clans' = [c \in DOMAIN clans |->
                    IF s # None /\ InClan(s) /\ c = me[s].clan
                    THEN [given[c] EXCEPT !.house = None] ELSE given[c]]
    BY <1>1 DEF HousesAfter
<1>3. ASSUME NEW c \in DOMAIN clans
      PROVE  /\ IsInfo(clans'[c]) /\ clans'[c].name = clans[c].name
             /\ clans'[c].leader = clans[c].leader /\ clans'[c].members = clans[c].members
    <2>1. IsInfo(clans[c])
        BY DEF CInv, Files
    <2>2. PICK i : i = given[c]
        OBVIOUS
    <2>3. IsInfo(i) /\ \A f \in {"name", "leader", "members"} : i[f] = clans[c][f]
        <3>1. PICK j : j = [clans[c] EXCEPT !.house = h]
            OBVIOUS
        <3>2. IsInfo(j) /\ \A f \in {"name", "leader", "members"} : j[f] = clans[c][f]
            BY <2>1, <3>1, InfoWith
        <3>3. i = j \/ i = clans[c]
            BY <1>1, <2>2, <3>1
        <3>. QED
            BY <2>1, <3>2, <3>3
    <2>4. PICK j : j = [i EXCEPT !.house = None]
        OBVIOUS
    <2>5. IsInfo(j) /\ \A f \in {"name", "leader", "members"} : j[f] = i[f]
        BY <2>3, <2>4, InfoWith
    <2>6. clans'[c] = i \/ clans'[c] = j
        BY <1>2, <2>2, <2>4
    <2>. QED
        BY <2>3, <2>5, <2>6
<1>4. /\ dbClans' = [c \in DOMAIN clans |-> dbClans'[c]]
      /\ \A c \in DOMAIN clans : IsRow(dbClans'[c])
           /\ dbClans'[c].name = dbClans[c].name /\ dbClans'[c].leader = dbClans[c].leader
    BY DEF CInv, Files, tables
<1>5. clans' = [c \in DOMAIN clans |-> clans'[c]]
    BY <1>2
<1>6. asked' \in Answers
    BY DEF CInv, Persons, Answers
<1>7. UNCHANGED <<online, me, playerClan, dbMembers, dbChar, deleted, lastClan>>
    BY DEF tables
<1>. QED
    BY <1>3, <1>4, <1>5, <1>6, <1>7, AssetsChange

LEMMA SoldKeeps ==
    ASSUME AuctionInv, NEW h \in House, SettleSold(h)
    PROVE  AuctionInv'
<1>1. PICK b : b = board[h].bidder
    OBVIOUS
<1>2. PICK s : s = board[h].seller
    OBVIOUS
<1>3. PICK m : m = board[h].price
    OBVIOUS
<1>4. /\ h \in DOMAIN board
      /\ clans' = HousesAfter(h, b, s)
      /\ purse' = IF s = None THEN purse ELSE Refunded(s, (m * 9) \div 10)
      /\ RemoveEntry(h)
      /\ UNCHANGED <<online, me, playerClan, asked, tables, form, dbPurse>>
    BY <1>1, <1>2, <1>3 DEF SettleSold, Due
<1>5. CInv /\ AuctionTypeOK /\ DOMAIN purse = Char
    BY DEF AuctionInv, AuctionsAgree
<1>6. CInv'
    BY <1>4, <1>5, HousesChange
<1>7. /\ DOMAIN board' \subseteq House /\ \A g \in DOMAIN board' : board'[g] \in Entry
      /\ overdue' \subseteq House
      /\ BidsAreRecorded' /\ FormsAreNew'
    BY <1>4, EntryGoes
<1>8. /\ DOMAIN purse' = Char
      /\ \A q \in Char : IF q \in online THEN purse'[q] \in Nat ELSE purse'[q] = None
    <2>1. m \in Nat
        BY <1>3, <1>4, <1>5, AuctionAssumption DEF AuctionTypeOK, Entry
    <2>2. PICK n \in Nat : n = (m * 9) \div 10
        BY <2>1
    <2>3. CASE s = None
        BY <2>3, <1>4, <1>5 DEF AuctionTypeOK
    <2>4. CASE s # None
        BY <2>2, <2>4, <1>4, <1>5, RefundedFacts
    <2>. QED
        BY <2>3, <2>4
<1>9. AuctionTypeOK'
    BY <1>4, <1>5, <1>7, <1>8 DEF AuctionTypeOK, Entry
<1>. QED
    BY <1>6, <1>7, <1>8, <1>9 DEF AuctionInv, AuctionsAgree

\* Purses and forms come and go with those who have them.
LEMMA PursesKeep ==
    ASSUME AuctionInv, CInv', Purses
    PROVE  AuctionInv'
<1>1. AuctionTypeOK /\ BidsAreRecorded /\ FormsAreNew /\ DOMAIN purse = Char
    BY DEF AuctionInv, AuctionsAgree
<1>2. /\ purse' = [p \in Char |-> IF p \in online' \ online THEN dbPurse[p]
                                  ELSE IF p \in online' THEN purse[p] ELSE None]
      /\ dbPurse' = [p \in Char |-> IF p \in online \ online' THEN purse[p] ELSE dbPurse[p]]
      /\ form' = [p \in Char |-> IF p \in online' THEN form[p] ELSE None]
      /\ UNCHANGED <<board, dbBoard, overdue>>
    BY DEF Purses
<1>3. AuctionTypeOK'
    BY <1>1, <1>2 DEF AuctionTypeOK, Entry
<1>4. BidsAreRecorded' /\ FormsAreNew'
    BY <1>1, <1>2 DEF BidsAreRecorded, FormsAreNew, Bidding
<1>. QED
    BY <1>2, <1>3, <1>4 DEF AuctionInv, AuctionsAgree

LEMMA AuctionRestartKeeps ==
    ASSUME AuctionInv, AuctionRestart
    PROVE  AuctionInv'
<1>1. AuctionTypeOK /\ BidsAreRecorded /\ CInv'
    BY RestartKeeps DEF AuctionInv, AuctionsAgree, AuctionRestart
<1>2. /\ online' = {} /\ board' = board /\ dbBoard' = board
      /\ form' = [p \in Char |-> None] /\ purse' = [p \in Char |-> None]
      /\ UNCHANGED <<overdue, dbPurse>>
    BY <1>1 DEF AuctionRestart, Restart, BidsAreRecorded
<1>3. AuctionTypeOK'
    BY <1>1, <1>2 DEF AuctionTypeOK, Entry
<1>4. BidsAreRecorded' /\ FormsAreNew'
    BY <1>1, <1>2 DEF BidsAreRecorded, FormsAreNew
<1>. QED
    BY <1>1, <1>2, <1>3, <1>4 DEF AuctionInv, AuctionsAgree

LEMMA AuctionInitInv == ClanInit /\ AuctionInit => AuctionInv
<1> SUFFICES ASSUME ClanInit, AuctionInit PROVE AuctionInv
    OBVIOUS
<1>1. /\ board = [h \in House |-> [price |-> FirstPrice, bidder |-> None, seller |-> None]]
      /\ dbBoard = board /\ overdue = {} /\ online = {}
      /\ form = [p \in Char |-> None]
      /\ purse = [p \in Char |-> None] /\ dbPurse = [p \in Char |-> FirstPurse]
    BY DEF AuctionInit, ClanInit
<1>2. [price |-> FirstPrice, bidder |-> None, seller |-> None] \in Entry
    BY AuctionAssumption DEF Entry
<1>3. AuctionTypeOK
    BY <1>1, <1>2, AuctionAssumption DEF AuctionTypeOK
<1>4. BidsAreRecorded /\ FormsAreNew
    BY <1>1 DEF BidsAreRecorded, FormsAreNew
<1>. QED
    BY <1>1, <1>3, <1>4, ClanInitCInv DEF AuctionInv, AuctionsAgree

LEMMA AuctionNextKeeps ==
    ASSUME AuctionInv, [AuctionNext]_saleVars
    PROVE  AuctionInv'
<1>1. CASE AsClan
    <2>1. CInv'
        BY <1>1, ClanStepKeeps DEF AsClan, AuctionInv
    <2>. QED
        BY <1>1, <2>1, PursesKeep DEF AsClan
<1>2. ASSUME NEW p \in Char, NEW h \in House, Apply(p, h) PROVE AuctionInv'
    BY <1>2, ApplyKeeps
<1>3. ASSUME NEW p \in Char, NEW n \in 1..MaxPrice, PlaceBid(p, n) PROVE AuctionInv'
    BY <1>3, BidKeeps
<1>4. ASSUME NEW p \in Char, NEW n \in 1..MaxPrice, SellHouse(p, n) PROVE AuctionInv'
    BY <1>4, SellKeeps
<1>5. ASSUME NEW h \in House, DeadlinePasses(h) \/ ExtendDeadline(h) PROVE AuctionInv'
    BY <1>5, DeadlineKeeps
<1>6. ASSUME NEW h \in House, SettleSold(h) PROVE AuctionInv'
    BY <1>6, SoldKeeps
<1>7. ASSUME NEW h \in House, SettleCancelled(h) PROVE AuctionInv'
    BY <1>7, CancelledKeeps
<1>8. CASE AuctionRestart
    BY <1>8, AuctionRestartKeeps
<1>9. CASE UNCHANGED saleVars
    <2>1. UNCHANGED <<clanVars, online, board, dbBoard, overdue, form, purse, dbPurse>>
        BY <1>9 DEF saleVars, auctionVars, clanVars, memory
    <2>2. AuctionTypeOK'
        BY <2>1 DEF AuctionInv, AuctionsAgree, AuctionTypeOK, Entry
    <2>3. BidsAreRecorded' /\ FormsAreNew'
        BY <2>1 DEF AuctionInv, AuctionsAgree, BidsAreRecorded, FormsAreNew, Bidding
    <2>. QED
        BY <2>1, <2>2, <2>3, AuctionsChange DEF AuctionInv
<1>. QED
    BY <1>1, <1>2, <1>3, <1>4, <1>5, <1>6, <1>7, <1>8, <1>9 DEF AuctionNext, AuctionStep

\* Memory and table hold the same auctions and bids, and nobody has bid for two houses
\* (auction_sys.go:92-340), whichever statement fails and whenever the server stops.
THEOREM BidsAgree == AuctionSpec => []AuctionsAgree
<1>1. AuctionInv => AuctionsAgree
    BY DEF AuctionInv
<1>. QED
    BY <1>1, AuctionInitInv, AuctionNextKeeps, PTL DEF AuctionSpec

\* Nor do sales of houses, which clans have in memory alone, disturb who belongs to which.
THEOREM MembershipSurvivesSales == AuctionSpec => []ClansAgree
<1>1. AuctionInv => ClansAgree
    BY CInvAgrees DEF AuctionInv
<1>. QED
    BY <1>1, AuctionInitInv, AuctionNextKeeps, PTL DEF AuctionSpec
=============================================================================
