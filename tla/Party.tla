-------------------------------- MODULE Party --------------------------------
(***************************************************************************)
(* Parties and chat parties: PartySystem (internal/system/party_sys.go),   *)
(* the two managers of membership (internal/world/party.go), the Yes/No    *)
(* answers that make a party (internal/handler/attr.go), and the two ways  *)
(* out of the world, one of which repeats the logic of leaving.            *)
(*                                                                         *)
(* A player may be in a party and in a chat party at once; Kind tells them *)
(* apart.  Both kinds of invitation, and the questions of trade, duel,     *)
(* clan and marriage, leave the asker in one field of the player who is    *)
(* asked; the answer to whichever dialog takes it out.  A number there     *)
(* that names no player is as good as none.  Names are players; distance   *)
(* and facing are left to choice.  PlayerInfo.PartyLeader is written and   *)
(* never read.                                                             *)
(***************************************************************************)
EXTENDS Naturals, FiniteSets, Bags, Functions

CONSTANTS
    Player,         \* characters (CharID)
    NoPlayer,       \* CharID 0
    MaxPartySize,   \* 8 in world/party.go
    MaxDialogs      \* bound: dialogs shown at any one time

ASSUME PartyAssumption ==
    /\ NoPlayer \notin Player /\ IsFiniteSet(Player)
    /\ MaxPartySize \in Nat \ {0, 1}
    /\ MaxDialogs \in Nat

VARIABLES
    online,         \* players in the world
    parties,        \* parties[k]: leader -> bag of Members, for the parties there are
    playerParty,    \* playerParty[k][p]: the leader of the party p is mapped to
    partyID,        \* PlayerInfo.PartyID, of the normal party
    dialogs,        \* dialogs[p]: the questions p's client shows
    pending,        \* PlayerInfo.PendingYesNoData
    muddled         \* history: kinds in which somebody joined a party from within
                    \* one, or his own, or a leader banished himself

memberVars == <<parties, playerParty, partyID>>
vars == <<online, memberVars, dialogs, pending, muddled>>

Kind == {"party", "chat"}
Question == [kind : Kind \cup {"other"}, from : Player]

-----------------------------------------------------------------------------
(* PartyManager and ChatPartyManager *)

IsInParty(k, p) == playerParty[k][p] # NoPlayer

\* GetParty finds a party: the player is mapped, and to one that exists.
HasParty(k, p) == playerParty[k][p] \in DOMAIN parties[k]
Members(k, p) == parties[k][playerParty[k][p]]
\* len(Members) of a party
Count(members) == SumFunction(members)
Size(k, p) == Count(Members(k, p))
IsLeader(k, p) == HasParty(k, p) /\ playerParty[k][p] = p

CreateParty(k, leader, member) ==
    /\ parties' = [parties EXCEPT ![k] =
                      [l \in DOMAIN @ \cup {leader} |->
                          IF l = leader THEN SetToBag({leader}) (+) SetToBag({member})
                          ELSE @[l]]]
    /\ playerParty' = [playerParty EXCEPT ![k][leader] = leader, ![k][member] = leader]

AddMember(k, leader, p) ==
    /\ parties' = [parties EXCEPT ![k][leader] = @ (+) SetToBag({p})]
    /\ playerParty' = [playerParty EXCEPT ![k][p] = leader]

RemoveMember(k, p) ==
    /\ parties' = [parties EXCEPT ![k][playerParty[k][p]] = @ (-) SetToBag({p})]
    /\ playerParty' = [playerParty EXCEPT ![k][p] = NoPlayer]

\* Dissolve the party that p is mapped to.
Dissolve(k, p) ==
    /\ parties' = [parties EXCEPT ![k] = Restrict(@, DOMAIN @ \ {playerParty[k][p]})]
    /\ playerParty' = [playerParty EXCEPT ![k] =
                          [q \in Player |-> IF BagIn(q, Members(k, p)) THEN NoPlayer ELSE @[q]]]

\* RemoveMember, with what was left of the party then dissolved.
RemoveAndDissolve(k, p) ==
    /\ parties' = [parties EXCEPT ![k] = Restrict(@, DOMAIN @ \ {playerParty[k][p]})]
    /\ playerParty' = [playerParty EXCEPT ![k] =
                          [q \in Player |->
                              IF q = p \/ BagIn(q, Members(k, p) (-) SetToBag({p}))
                              THEN NoPlayer ELSE @[q]]]

\* PlayerInfo.PartyID of the players of S, as far as they are in the world.
ClearPartyID(S) ==
    partyID' = [p \in Player |-> IF p \in S \cap online THEN NoPlayer ELSE partyID[p]]

-----------------------------------------------------------------------------
(* Invitations *)

\* A question appears at p's client and q, who asks, goes into the one field.
Show(p, k, q) ==
    /\ Cardinality({d \in Player \X Question : d[2] \in dialogs[d[1]]}) < MaxDialogs
    /\ dialogs' = [dialogs EXCEPT ![p] = @ \cup {[kind |-> k, from |-> q]}]
    /\ pending' = [pending EXCEPT ![p] = q]

MayInvite(k, p, q) ==
    /\ {p, q} \subseteq online /\ p # q
    /\ ~IsInParty(k, q)
    /\ IsInParty(k, p) => IsLeader(k, p)

\* Invite, ChatInvite: only the former asks whether there is room.
Invite(k, p, q) ==
    /\ MayInvite(k, p, q)
    /\ k = "party" /\ HasParty(k, p) => Size(k, p) < MaxPartySize
    /\ Show(q, k, p)
    /\ UNCHANGED <<online, memberVars, muddled>>

\* Trade, duel, clan and marriage ask their own questions, in the same field; a
\* divorce is asked of the player himself.
AskOther(p, q) ==
    /\ {p, q} \subseteq online
    /\ Show(q, "other", p)
    /\ UNCHANGED <<online, memberVars, muddled>>

\* The inviter must be here still, and his party not be full by now.
MayJoin(k, inviter) ==
    /\ inviter \in online
    /\ IsInParty(k, inviter) => HasParty(k, inviter) /\ Size(k, inviter) < MaxPartySize

\* Who is in a party already by now is not turned away.
Join(k, p, inviter) ==
    /\ IF IsInParty(k, inviter)
       THEN /\ AddMember(k, playerParty[k][inviter], p)
            /\ partyID' = IF k = "chat" THEN partyID
                          ELSE [partyID EXCEPT ![p] = playerParty[k][inviter]]
       ELSE /\ CreateParty(k, inviter, p)
            /\ partyID' = IF k = "chat" THEN partyID
                          ELSE [partyID EXCEPT ![p] = inviter, ![inviter] = inviter]
    /\ muddled' = IF IsInParty(k, p) \/ inviter = p THEN muddled \cup {k} ELSE muddled

\* C_ATTR 951, 953, 954 and the others: the answer to any question takes what is
\* pending, whatever question that came with.
Answer(p, question, accepted) ==
    /\ p \in online /\ question \in dialogs[p]
    /\ dialogs' = [dialogs EXCEPT ![p] = @ \ {question}]
    /\ pending' = [pending EXCEPT ![p] = NoPlayer]
    /\ IF accepted /\ question.kind \in Kind /\ MayJoin(question.kind, pending[p])
       THEN Join(question.kind, p, pending[p])
       ELSE UNCHANGED <<memberVars, muddled>>
    /\ UNCHANGED online

-----------------------------------------------------------------------------
(* Leaving *)

\* Fault: whoever leaves takes the party with him.
LeaveBreaksUp(p) ==
    Dissolve("party", p) /\ ClearPartyID(BagToSet(Members("party", p)))

\* Leave and partyBreakup: with the leader, or one of the last two, the party goes.
LeaveParty(p) ==
    IF IsLeader("party", p) \/ Size("party", p) = 2
    THEN Dissolve("party", p) /\ ClearPartyID(BagToSet(Members("party", p)))
    ELSE RemoveMember("party", p) /\ partyID' = [partyID EXCEPT ![p] = NoPlayer]

\* ChatLeave: of the last two, the leader must be in the world for the chat party
\* to be dissolved.
LeaveChat(p) ==
    /\ IF IsLeader("chat", p) THEN Dissolve("chat", p)
       ELSE IF Size("chat", p) = 2 /\ playerParty["chat"][p] \in online
            THEN RemoveAndDissolve("chat", p)
            ELSE RemoveMember("chat", p)
    /\ UNCHANGED partyID

Leave(k, p) ==
    /\ p \in online /\ HasParty(k, p)
    /\ IF k = "party" THEN LeaveParty(p) ELSE LeaveChat(p)
    /\ UNCHANGED <<online, dialogs, pending, muddled>>

\* BanishMember: the leader names a member of the party, himself included.
BanishMember(p, q) ==
    /\ p \in online /\ IsLeader("party", p)
    /\ BagIn(q, Members("party", p)) /\ q \in online
    /\ HasParty("party", q)
    /\ IF Size("party", q) = 2
       THEN Dissolve("party", q) /\ ClearPartyID(BagToSet(Members("party", q)))
       ELSE RemoveMember("party", q) /\ partyID' = [partyID EXCEPT ![q] = NoPlayer]
    /\ muddled' = IF p = q THEN muddled \cup {"party"} ELSE muddled
    /\ UNCHANGED <<online, dialogs, pending>>

\* ChatKick: not himself.
ChatKick(p, q) ==
    /\ p \in online /\ IsLeader("chat", p)
    /\ BagIn(q, Members("chat", p)) /\ q \in online /\ p # q
    /\ HasParty("chat", q)
    /\ IF Size("chat", q) = 2 /\ playerParty["chat"][q] \in online
       THEN RemoveAndDissolve("chat", q)
       ELSE RemoveMember("chat", q)
    /\ UNCHANGED <<online, partyID, dialogs, pending, muddled>>

\* Fault: the managers know, and the players' PartyID is not brought up to date.
TransferInManager(p, q) ==
    LET members == Members("party", p)
    IN  /\ {p, q} \subseteq online /\ p # q
        /\ IsLeader("party", p)
        /\ IsInParty("party", q) /\ partyID[q] = partyID[p]
        /\ parties' = [parties EXCEPT !["party"] =
                          [l \in (DOMAIN @ \ {p}) \cup {q} |-> IF l = q THEN members ELSE @[l]]]
        /\ playerParty' = [playerParty EXCEPT !["party"] =
                              [r \in Player |-> IF BagIn(r, members) THEN q ELSE @[r]]]
        /\ UNCHANGED <<online, partyID, dialogs, pending, muddled>>

\* TransferLeader, SetLeader: the party is filed under the new leader.
TransferLeader(p, q) ==
    LET members == Members("party", p)
    IN  /\ {p, q} \subseteq online /\ p # q
        /\ IsLeader("party", p)
        /\ IsInParty("party", q) /\ partyID[q] = partyID[p]
        /\ parties' = [parties EXCEPT !["party"] =
                          [l \in (DOMAIN @ \ {p}) \cup {q} |-> IF l = q THEN members ELSE @[l]]]
        /\ playerParty' = [playerParty EXCEPT !["party"] =
                              [r \in Player |-> IF BagIn(r, members) THEN q ELSE @[r]]]
        /\ partyID' = IF playerParty'["party"][q] \notin DOMAIN parties'["party"] THEN partyID
                      ELSE LET now == playerParty'["party"][q] IN
                           [r \in Player |-> IF BagIn(r, parties'["party"][now]) /\ r \in online
                                             THEN now ELSE partyID[r]]
        /\ UNCHANGED <<online, dialogs, pending, muddled>>

-----------------------------------------------------------------------------
(* In and out of the world *)

\* What a player asked others stays on their screens; what p was asked is gone.
OutOfWorld(p) ==
    /\ p \in online
    /\ online' = online \ {p}
    /\ dialogs' = [dialogs EXCEPT ![p] = {}]
    /\ pending' = [pending EXCEPT ![p] = NoPlayer]
    /\ UNCHANGED muddled

HandleDisconnect(p) ==
    /\ OutOfWorld(p)
    /\ LET inParty == partyID[p] # NoPlayer /\ HasParty("party", p)
           inChat == HasParty("chat", p)
           breaks(k) == IsLeader(k, p) \/ Size(k, p) = 2
           leaves(k) == IF k = "party" THEN inParty ELSE inChat
           left(k) == IF breaks(k) THEN BagToSet(Members(k, p)) ELSE {p}
       IN  /\ parties' = [k \in Kind |->
                 IF ~leaves(k) THEN parties[k]
                 ELSE IF breaks(k) THEN Restrict(parties[k], DOMAIN parties[k] \ {playerParty[k][p]})
                 ELSE [parties[k] EXCEPT ![playerParty[k][p]] = @ (-) SetToBag({p})]]
           /\ playerParty' = [k \in Kind |-> [q \in Player |->
                 IF leaves(k) /\ q \in left(k) THEN NoPlayer ELSE playerParty[k][q]]]
           /\ partyID' = [q \in Player |->
                 IF q = p \/ (inParty /\ q \in left("party") \cap online')
                 THEN NoPlayer ELSE partyID[q]]

\* C_CHANGE_CHAR leaves the party and not the chat party.
HandleChangeChar(p) ==
    /\ OutOfWorld(p)
    /\ \/ /\ partyID[p] # NoPlayer /\ HasParty("party", p)
          /\ LeaveParty(p)
       \/ /\ partyID[p] = NoPlayer \/ ~HasParty("party", p)
          /\ partyID' = [partyID EXCEPT ![p] = NoPlayer]
          /\ UNCHANGED <<parties, playerParty>>

\* A new PlayerInfo; the managers may still know the player.
EnterWorld(p) ==
    /\ p \notin online
    /\ online' = online \cup {p}
    /\ partyID' = [partyID EXCEPT ![p] = NoPlayer]
    /\ UNCHANGED <<parties, playerParty, dialogs, pending, muddled>>

-----------------------------------------------------------------------------
Init ==
    /\ online \in SUBSET Player
    /\ parties = [k \in Kind |-> EmptyBag]
    /\ playerParty = [k \in Kind |-> [p \in Player |-> NoPlayer]]
    /\ partyID = [p \in Player |-> NoPlayer]
    /\ dialogs = [p \in Player |-> {}]
    /\ pending = [p \in Player |-> NoPlayer]
    /\ muddled = {}

Next ==
    \/ \E k \in Kind, p, q \in Player : Invite(k, p, q)
    \/ \E p, q \in Player : AskOther(p, q) \/ BanishMember(p, q) \/ ChatKick(p, q)
                            \/ TransferLeader(p, q)
    \/ \E p \in Player : \E question \in dialogs[p], accepted \in BOOLEAN :
          Answer(p, question, accepted)
    \/ \E k \in Kind, p \in Player : Leave(k, p)
    \/ \E p \in Player : HandleDisconnect(p) \/ HandleChangeChar(p) \/ EnterWorld(p)

Spec == Init /\ [][Next]_vars
-----------------------------------------------------------------------------
(* Properties *)

Listed(k, l) == BagToSet(parties[k][l])

\* The tables hold players.
TypeOK ==
    /\ online \subseteq Player
    /\ parties = [k \in Kind |-> [l \in DOMAIN parties[k] |-> parties[k][l]]]
    /\ \A k \in Kind : /\ DOMAIN parties[k] \subseteq Player
                       /\ \A l \in DOMAIN parties[k] :
                             /\ IsABag(parties[k][l])
                             /\ Listed(k, l) \subseteq Player
    /\ playerParty \in [Kind -> [Player -> Player \cup {NoPlayer}]]
    /\ partyID \in [Player -> Player \cup {NoPlayer}]
    /\ pending \in [Player -> Player \cup {NoPlayer}]
    /\ dialogs \in [Player -> SUBSET Question]
    /\ muddled \subseteq Kind

\* No acceptance makes a party larger than it may be, however many invitations were
\* open while there was room (party_sys.go:345); and it has at least two members,
\* however they left it.  Of a chat party the last one may remain after its leader
\* has left the world.
PartySizes ==
    \A k \in Kind : \A l \in DOMAIN parties[k] :
        /\ Count(parties[k][l]) <= MaxPartySize
        /\ \/ k \in muddled
           \/ Count(parties[k][l]) >= 2
           \/ k = "chat" /\ Listed(k, l) = {l}

\* The three records of membership agree: who is mapped to a party is listed in it,
\* once, and nobody else is; the leader is listed; PartyID is what the manager says;
\* and nobody out of the world is in a party, on either way out.
MembershipAgrees ==
    \A k \in Kind \ muddled :
        /\ \A l \in DOMAIN parties[k] :
              /\ parties[k][l] = SetToBag({p \in Player : playerParty[k][p] = l})
              /\ playerParty[k][l] = l
        /\ \A p \in Player : IsInParty(k, p) => HasParty(k, p)
        /\ k = "party" =>
              /\ \A p \in online : partyID[p] = playerParty[k][p]
              /\ \A p \in Player \ online : ~IsInParty(k, p)

\* What has to hold of every party: its size, and the records of its members.
PartiesAgree == TypeOK /\ PartySizes /\ MembershipAgrees

\* Both ways out of the world settle the party alike: with its leader, or one of its
\* last two, it is dissolved and every other member is free; else it only loses the
\* one.
DepartureSettlesParty ==
    [][\A p \in online \ online' : \A l \in DOMAIN parties["party"] :
          "party" \notin muddled /\ BagIn(p, parties["party"][l]) =>
             IF p = l \/ Count(parties["party"][l]) = 2
             THEN \A q \in Listed("party", l) \cap online' :
                     ~IsInParty("party", q)' /\ partyID'[q] = NoPlayer
             ELSE /\ l \in DOMAIN parties'["party"]
                  /\ Listed("party", l)' = Listed("party", l) \ {p}]_vars
=============================================================================
