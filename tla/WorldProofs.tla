---------------------------- MODULE WorldProofs -----------------------------
(***************************************************************************)
(* Proofs about who is in the world (Login), about what the systems of the *)
(* game loop do to it (World) and about whom monsters hate (Monsters), for *)
(* any number of sessions, players, monsters, maps, dungeons and keepers.  *)
(*                                                                         *)
(* These models share no variable, so each has an inductive invariant of   *)
(* its own; a step of World keeps those of its systems.                    *)
(***************************************************************************)
EXTENDS Login, World, Monsters, Sums

-----------------------------------------------------------------------------
(* Login: accounts, characters and sessions.                               *)

\* A session that is not through handleLogin has no account, and one that is at
\* the character list or before has no player.  Close can only add the state
\* Disconnecting, of which nothing is claimed.
StagesOK ==
    \A s \in Session :
        /\ state[s] \in {"Handshake", "VersionOK"} => account[s] = NoOne
        /\ place[s] \in {"none", "queued"} => account[s] = NoOne /\ state[s] # "InWorld"
        /\ state[s] \in {"Handshake", "VersionOK", "Authenticated"} => bySession[s] = NoOne

\* What Dispatch has seen in the session's state still holds of account and
\* player when the handler runs, though the state itself may have changed.
VisitOK ==
    /\ visit.at # NoOne => visit.at \in Stored
    /\ visit.doing # "nothing" => visit.at # NoOne
    /\ visit.doing \in {"version", "login"} => account[visit.at] = NoOne
    /\ visit.doing = "enter" => bySession[visit.at] = NoOne

\* An update that was lost left the account marked online.
StaleOK == \A a \in stale : online[a]

IInv ==
    /\ TypeOK
    /\ StagesOK
    /\ VisitOK
    /\ StaleOK
    /\ NoDoubleLogin
    /\ OnlineIsLoggedIn
    /\ OnePlayerPerCharacter
    /\ InWorldHasPlayer
-----------------------------------------------------------------------------
\* The values of the variables.  A handler runs only during a visit.
LEMMA TypeStep ==
    ASSUME TypeOK, VisitOK, Next
    PROVE  TypeOK'
<1> USE LoginAssumption DEF TypeOK, VisitOK, Stored, Packet, SessionState, sessionVars,
           worldVars, accountVars, boundVars
<1>0. MaxFailures \in Nat /\ MaxRestarts \in Nat
    OBVIOUS
<1>1. ASSUME NEW s \in Session, Connect(s)
      PROVE  TypeOK'
    BY <1>1, SMTT(30) DEF Connect
<1>2. ASSUME NEW s \in Session, BeginClose(s)
      PROVE  TypeOK'
    BY <1>2, SMTT(30) DEF BeginClose
<1>3. ASSUME NEW s \in Session, EndClose(s)
      PROVE  TypeOK'
    BY <1>3, SMTT(30) DEF EndClose
<1>4. ASSUME NEW s \in Session, AcceptNew(s)
      PROVE  TypeOK'
    BY <1>4, SMTT(30) DEF AcceptNew
<1>5. ASSUME NEW s \in Session, Visit(s)
      PROVE  TypeOK'
    BY <1>5, SMTT(30) DEF Visit, IsClosed, Stored
<1>6. ASSUME Dispatch
      PROVE  TypeOK'
    BY <1>6, SMTT(30) DEF Dispatch, Allowed
<1>7. ASSUME HandleVersion
      PROVE  TypeOK'
    BY <1>7, SMTT(30) DEF HandleVersion, Handling, HandlerEnds, SetState
<1>8. ASSUME NEW a \in Account, HandleLogin(a)
      PROVE  TypeOK'
    <2>1. online' = online \/ online' = [online EXCEPT ![a] = TRUE]
        BY <1>8, Zenon DEF HandleLogin
    <2>2. online' \in [Account -> BOOLEAN]
        BY <2>1, Zenon
    <2>3. muddled' \subseteq Account
        BY <1>8 DEF HandleLogin
    <2>4. failures' \in 0..MaxFailures
        BY <1>0, <1>8, SMTT(30) DEF HandleLogin
    <2>5. /\ state' \in [Session -> SessionState]
          /\ account' \in [Session -> Account \cup {NoOne}]
          /\ visit' \in [at : Session \cup {NoOne}, last : BOOLEAN,
                        doing : Packet \cup {"nothing"}]
        BY <1>8, SMTT(30) DEF HandleLogin, Handling, HandlerEnds, SetState
    <2>6. QED
        BY <1>8, <2>2, <2>3, <2>4, <2>5 DEF HandleLogin
<1>9. ASSUME RefuseEnterWorld
      PROVE  TypeOK'
    BY <1>9, SMTT(30) DEF RefuseEnterWorld, Handling, HandlerEnds, CloseSession
<1>10. ASSUME NEW c \in Character, HandleEnterWorld(c)
      PROVE  TypeOK'
    BY <1>10, SMTT(30) DEF HandleEnterWorld, Handling, HandlerEnds, SetState, AddPlayer
<1>11. ASSUME HandleChangeChar
      PROVE  TypeOK'
    BY <1>11, SMTT(30) DEF HandleChangeChar, Handling, HandlerEnds, SetState, RemovePlayer
<1>12. ASSUME HandleQuit
      PROVE  TypeOK'
    BY <1>12, SMTT(30) DEF HandleQuit, Handling, HandlerEnds, CloseSession
<1>13. ASSUME HandleDisconnect
      PROVE  TypeOK'
    <2>1. /\ bySession' \in [Session -> Character \cup {NoOne}]
          /\ byChar' \in [Character -> Session \cup {NoOne}]
        BY <1>13, SMTT(30) DEF HandleDisconnect, RemovePlayer
    <2>2. \/ online' = online
          \/ online' = [online EXCEPT ![account[visit.at]] = FALSE]
        BY <1>13, Zenon DEF HandleDisconnect, MarkOffline
    <2>3. online' \in [Account -> BOOLEAN]
        BY <2>2, Zenon
    <2>4. muddled' \subseteq Account
        BY <1>13 DEF HandleDisconnect, MarkOffline
    <2>5. stale' \subseteq Account
        BY <1>13, SMTT(30) DEF HandleDisconnect, MarkOffline
    <2>6. failures' \in 0..MaxFailures
        BY <1>0, <1>13, SMTT(30) DEF HandleDisconnect, MarkOffline
    <2>7. /\ place' \in [Session -> {"none", "queued", "stored", "gone"}]
          /\ visit' \in [at : Session \cup {NoOne}, last : BOOLEAN,
                        doing : Packet \cup {"nothing"}]
        BY <1>13, SMTT(30) DEF HandleDisconnect, NoVisit
    <2>8. QED
        BY <1>13, <2>1, <2>3, <2>4, <2>5, <2>6, <2>7 DEF HandleDisconnect
<1>14. ASSUME Restart
      PROVE  TypeOK'
    BY <1>14, SMTT(30) DEF Restart, NoVisit
<1>15. ASSUME RefuseLogin \/ Play
      PROVE  TypeOK'
    BY <1>15, SMTT(30) DEF RefuseLogin, Play, Handling, HandlerEnds
<1>16. ASSUME NextSession
      PROVE  TypeOK'
    BY <1>16, SMTT(30) DEF NextSession, NoVisit
<1>17. QED
    BY <1>1, <1>2, <1>3, <1>4, <1>5, <1>6, <1>7, <1>8, <1>9, <1>10, <1>11, <1>12, <1>13,
       <1>14, <1>15, <1>16 DEF Next, AtSession, Handle

\* handleLogin sets account and HandleEnterWorld the player before the state moves on.
LEMMA StagesStep ==
    ASSUME IInv, Next
    PROVE  StagesOK'
<1> USE LoginAssumption
   DEF IInv, sessionVars, worldVars, accountVars, boundVars, TypeOK, StagesOK, VisitOK,
       Stored
<1>1. ASSUME NEW s \in Session, Connect(s)
      PROVE  StagesOK'
    BY <1>1, SMTT(30) DEF Connect
<1>2. ASSUME NEW s \in Session, AcceptNew(s)
      PROVE  StagesOK'
    BY <1>2, SMTT(30) DEF AcceptNew
<1>3. ASSUME HandleVersion
      PROVE  StagesOK'
    BY <1>3, SMTT(30)
       DEF HandleVersion, Handling, HandlerEnds, SetState, OnePlayerPerCharacter
<1>4. ASSUME NEW a \in Account, HandleLogin(a)
      PROVE  StagesOK'
    BY <1>4, SMTT(30)
       DEF HandleLogin, Handling, HandlerEnds, SetState, OnePlayerPerCharacter
<1>5. ASSUME NEW c \in Character, HandleEnterWorld(c)
      PROVE  StagesOK'
    BY <1>5, SMTT(30) DEF HandleEnterWorld, Handling, HandlerEnds, SetState, AddPlayer
<1>6. ASSUME HandleChangeChar
      PROVE  StagesOK'
    BY <1>6, SMTT(30) DEF HandleChangeChar, Handling, HandlerEnds, SetState, RemovePlayer
<1>7. ASSUME HandleDisconnect
      PROVE  StagesOK'
    BY <1>7, SMTT(30) DEF HandleDisconnect, NoVisit, RemovePlayer, MarkOffline
<1>8. ASSUME Restart
      PROVE  StagesOK'
    BY <1>8, SMTT(30) DEF Restart, NoVisit
<1>9. ASSUME \/ \E s \in Session : BeginClose(s)
             \/ \E s \in Session : EndClose(s)
             \/ \E s \in Session : Visit(s)
             \/ Dispatch
             \/ RefuseLogin
             \/ RefuseEnterWorld
             \/ HandleQuit
             \/ Play
             \/ NextSession
      PROVE  StagesOK'
    BY <1>9, SMTT(30)
       DEF BeginClose, EndClose, Visit, IsClosed, Stored, Dispatch, Packet, Allowed,
           RefuseLogin, Handling, HandlerEnds, RefuseEnterWorld, CloseSession,
           HandleQuit, Play, NextSession, NoVisit
<1>10. QED
    BY <1>1, <1>2, <1>3, <1>4, <1>5, <1>6, <1>7, <1>8, <1>9 DEF Next, AtSession, Handle

\* Only the loop itself changes account and player of the session it is at.
LEMMA VisitStep ==
    ASSUME IInv, Next
    PROVE  VisitOK'
<1> USE LoginAssumption
   DEF IInv, sessionVars, worldVars, accountVars, boundVars, TypeOK, StagesOK, VisitOK,
       Stored, NoVisit
<1>1. ASSUME NEW s \in Session, Connect(s)
      PROVE  VisitOK'
    BY <1>1, SMTT(30) DEF Connect
<1>2. ASSUME NEW s \in Session, Visit(s)
      PROVE  VisitOK'
    BY <1>2, SMTT(30) DEF Visit, IsClosed, Stored
<1>3. ASSUME Dispatch
      PROVE  VisitOK'
    BY <1>3, SMTT(30) DEF Dispatch, Allowed
<1>4. ASSUME HandleVersion
      PROVE  VisitOK'
    BY <1>4, SMTT(30) DEF HandleVersion, Handling, HandlerEnds, SetState
<1>5. ASSUME NEW a \in Account, HandleLogin(a)
      PROVE  VisitOK'
    BY <1>5, SMTT(30) DEF HandleLogin, Handling, HandlerEnds, SetState
<1>6. ASSUME NEW c \in Character, HandleEnterWorld(c)
      PROVE  VisitOK'
    BY <1>6, SMTT(30) DEF HandleEnterWorld, Handling, HandlerEnds, SetState, AddPlayer
<1>7. ASSUME HandleChangeChar
      PROVE  VisitOK'
    BY <1>7, SMTT(30) DEF HandleChangeChar, Handling, HandlerEnds, SetState, RemovePlayer
<1>8. ASSUME HandleDisconnect
      PROVE  VisitOK'
    BY <1>8, SMTT(30) DEF HandleDisconnect, NoVisit, RemovePlayer, MarkOffline
<1>9. ASSUME Restart
      PROVE  VisitOK'
    BY <1>9, SMTT(30) DEF Restart, NoVisit
<1>10. ASSUME NEW s \in Session, BeginClose(s) \/ EndClose(s) \/ AcceptNew(s)
      PROVE  VisitOK'
    BY <1>10, SMTT(30) DEF BeginClose, EndClose, AcceptNew
<1>11. ASSUME RefuseLogin \/ Play
      PROVE  VisitOK'
    BY <1>11, SMTT(30) DEF RefuseLogin, Play, Handling, HandlerEnds
<1>12. ASSUME RefuseEnterWorld \/ HandleQuit
      PROVE  VisitOK'
    BY <1>12, SMTT(30) DEF RefuseEnterWorld, HandleQuit, Handling, HandlerEnds, CloseSession
<1>13. ASSUME NextSession
      PROVE  VisitOK'
    BY <1>13, SMTT(30) DEF NextSession
<1>14. QED
    BY <1>1, <1>2, <1>3, <1>4, <1>5, <1>6, <1>7, <1>8, <1>9, <1>10, <1>11, <1>12, <1>13
    DEF Next, AtSession, Handle

\* accounts.online is cleared and forgotten together.
LEMMA StaleStep ==
    ASSUME IInv, Next
    PROVE  StaleOK'
<1> USE LoginAssumption
   DEF IInv, StaleOK, sessionVars, worldVars, accountVars, boundVars, TypeOK
<1>1. ASSUME NEW a \in Account, HandleLogin(a)
      PROVE  StaleOK'
    BY <1>1, SMTT(30) DEF HandleLogin, Handling, HandlerEnds, SetState
<1>2. ASSUME HandleDisconnect
      PROVE  StaleOK'
    BY <1>2, SMTT(30) DEF HandleDisconnect, NoVisit, RemovePlayer, MarkOffline
<1>3. ASSUME Restart
      PROVE  StaleOK'
    BY <1>3, SMTT(30) DEF Restart, NoVisit
<1>4. ASSUME \/ \E s \in Session : Connect(s)
             \/ \E s \in Session : BeginClose(s)
             \/ \E s \in Session : EndClose(s)
             \/ \E s \in Session : AcceptNew(s)
             \/ \E s \in Session : Visit(s)
             \/ Dispatch
             \/ HandleVersion
             \/ RefuseLogin
             \/ RefuseEnterWorld
             \/ \E c \in Character : HandleEnterWorld(c)
             \/ HandleChangeChar
             \/ HandleQuit
             \/ Play
             \/ NextSession
      PROVE  UNCHANGED <<online, stale>>
    BY <1>4
       DEF Connect, BeginClose, EndClose, AcceptNew, Visit, IsClosed, Stored, Dispatch,
           Packet, Allowed, HandleVersion, Handling, HandlerEnds, SetState, RefuseLogin,
           RefuseEnterWorld, CloseSession, HandleEnterWorld, AddPlayer,
           HandleChangeChar, RemovePlayer, HandleQuit, Play, NextSession, NoVisit
<1>5. QED
    BY <1>1, <1>2, <1>3, <1>4 DEF Next, AtSession, Handle

\* The check of accounts.online and its two updates.
LEMMA LoginStep ==
    ASSUME IInv, Next
    PROVE  NoDoubleLogin' /\ OnlineIsLoggedIn'
<1> USE LoginAssumption
   DEF IInv, NoDoubleLogin, OnlineIsLoggedIn, StaleOK, LoggedIn, sessionVars, worldVars,
       accountVars, boundVars, TypeOK, StagesOK, VisitOK, Stored
<1>1. ASSUME NEW s \in Session, Connect(s)
      PROVE  NoDoubleLogin' /\ OnlineIsLoggedIn'
    BY <1>1, SMTT(30) DEF Connect
<1>2. ASSUME NEW s \in Session, AcceptNew(s)
      PROVE  NoDoubleLogin' /\ OnlineIsLoggedIn'
    BY <1>2, SMTT(30) DEF AcceptNew
<1>3. ASSUME NEW a \in Account, HandleLogin(a)
      PROVE  NoDoubleLogin' /\ OnlineIsLoggedIn'
    BY <1>3, SMTT(30) DEF HandleLogin, Handling, HandlerEnds, SetState
<1>4. ASSUME HandleDisconnect
      PROVE  NoDoubleLogin' /\ OnlineIsLoggedIn'
    BY <1>4, SMTT(30) DEF HandleDisconnect, NoVisit, RemovePlayer, MarkOffline
<1>5. ASSUME Restart
      PROVE  NoDoubleLogin' /\ OnlineIsLoggedIn'
    BY <1>5, SMTT(30) DEF Restart, NoVisit
<1>6. ASSUME \/ \E s \in Session : BeginClose(s)
             \/ \E s \in Session : EndClose(s)
             \/ \E s \in Session : Visit(s)
             \/ Dispatch
             \/ HandleVersion
             \/ RefuseLogin
             \/ RefuseEnterWorld
             \/ \E c \in Character : HandleEnterWorld(c)
             \/ HandleChangeChar
             \/ HandleQuit
             \/ Play
             \/ NextSession
      PROVE  NoDoubleLogin' /\ OnlineIsLoggedIn'
    BY <1>6, SMTT(30)
       DEF BeginClose, EndClose, Visit, IsClosed, Stored, Dispatch, Packet, Allowed,
           HandleVersion, Handling, HandlerEnds, SetState, RefuseLogin,
           RefuseEnterWorld, CloseSession, HandleEnterWorld, AddPlayer,
           HandleChangeChar, RemovePlayer, HandleQuit, Play, NextSession, NoVisit
<1>7. QED
    BY <1>1, <1>2, <1>3, <1>4, <1>5, <1>6 DEF Next, AtSession, Handle

\* AddPlayer and RemovePlayer, by the only session of the account.
LEMMA WorldStep ==
    ASSUME IInv, Next
    PROVE  OnePlayerPerCharacter' /\ InWorldHasPlayer'
<1> USE LoginAssumption
   DEF IInv, OnePlayerPerCharacter, InWorldHasPlayer, NoDoubleLogin, LoggedIn,
       sessionVars, worldVars, accountVars, boundVars, TypeOK, StagesOK, VisitOK, Stored
<1>1. ASSUME NEW s \in Session, Connect(s)
      PROVE  OnePlayerPerCharacter' /\ InWorldHasPlayer'
    BY <1>1, SMTT(30) DEF Connect
<1>2. ASSUME NEW s \in Session, EndClose(s)
      PROVE  OnePlayerPerCharacter' /\ InWorldHasPlayer'
    BY <1>2, SMTT(30) DEF EndClose
<1>3. ASSUME NEW s \in Session, AcceptNew(s)
      PROVE  OnePlayerPerCharacter' /\ InWorldHasPlayer'
    BY <1>3, SMTT(30) DEF AcceptNew
<1>4. ASSUME HandleVersion
      PROVE  OnePlayerPerCharacter' /\ InWorldHasPlayer'
    BY <1>4, SMTT(30) DEF HandleVersion, Handling, HandlerEnds, SetState
<1>5. ASSUME NEW a \in Account, HandleLogin(a)
      PROVE  OnePlayerPerCharacter' /\ InWorldHasPlayer'
    BY <1>5, SMTT(30) DEF HandleLogin, Handling, HandlerEnds, SetState
<1>6. ASSUME RefuseEnterWorld
      PROVE  OnePlayerPerCharacter' /\ InWorldHasPlayer'
    BY <1>6, SMTT(30) DEF RefuseEnterWorld, Handling, HandlerEnds, CloseSession
<1>7. ASSUME NEW c \in Character, HandleEnterWorld(c)
      PROVE  OnePlayerPerCharacter' /\ InWorldHasPlayer'
    BY <1>7, SMTT(30) DEF HandleEnterWorld, Handling, HandlerEnds, SetState, AddPlayer
<1>8. ASSUME HandleChangeChar
      PROVE  OnePlayerPerCharacter' /\ InWorldHasPlayer'
    BY <1>8, SMTT(30) DEF HandleChangeChar, Handling, HandlerEnds, SetState, RemovePlayer
<1>9. ASSUME HandleQuit
      PROVE  OnePlayerPerCharacter' /\ InWorldHasPlayer'
    BY <1>9, SMTT(30) DEF HandleQuit, Handling, HandlerEnds, CloseSession
<1>10. ASSUME HandleDisconnect
      PROVE  OnePlayerPerCharacter' /\ InWorldHasPlayer'
    BY <1>10, SMTT(30) DEF HandleDisconnect, NoVisit, RemovePlayer, MarkOffline
<1>11. ASSUME Restart
      PROVE  OnePlayerPerCharacter' /\ InWorldHasPlayer'
    BY <1>11, SMTT(30) DEF Restart, NoVisit
<1>12. ASSUME \/ \E s \in Session : BeginClose(s)
             \/ \E s \in Session : Visit(s)
             \/ Dispatch
             \/ RefuseLogin
             \/ Play
             \/ NextSession
      PROVE  OnePlayerPerCharacter' /\ InWorldHasPlayer'
    BY <1>12, SMTT(30)
       DEF BeginClose, Visit, IsClosed, Stored, Dispatch, Packet, Allowed, RefuseLogin,
           Handling, HandlerEnds, Play, NextSession, NoVisit
<1>13. QED
    BY <1>1, <1>2, <1>3, <1>4, <1>5, <1>6, <1>7, <1>8, <1>9, <1>10, <1>11, <1>12
    DEF Next, AtSession, Handle

-----------------------------------------------------------------------------
\* The invariant holds at the start.
LEMMA InvInit == Init => IInv
BY LoginAssumption
   DEF Init, IInv, TypeOK, StagesOK, VisitOK, StaleOK, NoDoubleLogin, OnlineIsLoggedIn,
       OnePlayerPerCharacter, InWorldHasPlayer, Stored, LoggedIn, NoVisit, SessionState

\* And every step keeps it.
LEMMA InvStep == IInv /\ [Next]_vars => IInv'
<1> SUFFICES ASSUME IInv, [Next]_vars PROVE IInv'
    OBVIOUS
<1>1. CASE Next
    BY <1>1, TypeStep, StagesStep, VisitStep, StaleStep, LoginStep, WorldStep DEF IInv
<1>2. CASE UNCHANGED vars
    BY <1>2
    DEF vars, sessionVars, worldVars, accountVars, boundVars, IInv, TypeOK, StagesOK,
        VisitOK, StaleOK, NoDoubleLogin, OnlineIsLoggedIn, OnePlayerPerCharacter,
        InWorldHasPlayer, Stored, LoggedIn
<1>3. QED
    BY <1>1, <1>2

\* So it holds in every reachable state.
LEMMA Invariance == Spec => []IInv
BY InvInit, InvStep, PTL DEF Spec

\* In every reachable state the variables have their types, whatever sessions,
\* restarts and lost updates there are.
THEOREM TypeCorrect == Spec => []TypeOK
<1>1. IInv => TypeOK
    BY DEF IInv
<1>2. QED
    BY <1>1, Invariance, PTL

\* Two sessions are never logged in to one account, unless a SetOnline(true) of
\* handleLogin was lost while the account was in use.
THEOREM OneLoginPerAccount == Spec => []NoDoubleLogin
<1>1. IInv => NoDoubleLogin
    BY DEF IInv
<1>2. QED
    BY <1>1, Invariance, PTL

\* accounts.online is exact in every reachable state, apart from lost updates.
THEOREM OnlineIsExact == Spec => []OnlineIsLoggedIn
<1>1. IInv => OnlineIsLoggedIn
    BY DEF IInv
<1>2. QED
    BY <1>1, Invariance, PTL

\* Every player in the world belongs to a stored session of the right account,
\* and the world's maps agree on it.
THEOREM PlayersAreOwned == Spec => []OnePlayerPerCharacter
<1>1. IInv => OnePlayerPerCharacter
    BY DEF IInv
<1>2. QED
    BY <1>1, Invariance, PTL

\* The state InWorld and a player in the world go together, also for a session
\* that is closed in the middle of a handler.
THEOREM InWorldIsExact == Spec => []InWorldHasPlayer
<1>1. IInv => InWorldHasPlayer
    BY DEF IInv
<1>2. QED
    BY <1>1, Invariance, PTL

-----------------------------------------------------------------------------
(* Tiles: persons and monsters on the map.                                 *)

\* A monster's place to return to is one its spawn list allows, and on the map it is on.
HomesOK == \A m \in Mobs : spawn[m] \in Area[m] /\ MapOf[spawn[m]] = MapOf[pos[m]]

\* The grid, tile by tile.
GridOK == \A t \in Tile, m \in Mobs : <<t, m>> \in entity <=> m \in LivingMobs /\ t = pos[m]

\* The flags, tile by tile.
FlagsOK ==
    \A t \in impassable :
        \/ \E p \in inWorld : t = pos[p]
        \/ \E m \in LivingMobs : t = pos[m]
        \/ t \in left

TilesInv == TilesTypeOK /\ HomesOK /\ GridOK /\ FlagsOK
-----------------------------------------------------------------------------
LEMMA TilesInvInit ==
    TilesInit => TilesInv
<1> SUFFICES ASSUME TilesInit
             PROVE  TilesInv
    OBVIOUS
<1> USE TilesAssumption DEF TilesInit
<1>1. TilesTypeOK
    BY SMTT(30) DEF TilesTypeOK
<1>2. HomesOK
    BY SMTT(30) DEF HomesOK
<1>3. GridOK
    BY SMTT(30) DEF GridOK, LivingMobs
<1>4. FlagsOK
    BY SMTT(30) DEF FlagsOK, LivingMobs
<1>5. QED
    BY <1>1, <1>2, <1>3, <1>4 DEF TilesInv

\* EntityGrid.Move of one leaves the others where they are in the grid, and takes a monster
\* that moves on its own map to the tile it moves to.
LEMMA MoveEntityType ==
    ASSUME TilesTypeOK, NEW e \in Persons \cup Mobs, NEW t \in Tile
    PROVE  MoveEntity(e, t) \subseteq Tile \X (Persons \cup Mobs)
BY DEF TilesTypeOK, MoveEntity

LEMMA MoveEntityOthers ==
    ASSUME NEW e \in Persons \cup Mobs, NEW t \in Tile, NEW u \in Tile, NEW o, o # e
    PROVE  <<u, o>> \in MoveEntity(e, t) <=> <<u, o>> \in entity
BY DEF MoveEntity

LEMMA MoveEntitySelf ==
    ASSUME TilesTypeOK, GridOK, NEW m \in LivingMobs, NEW t \in Tile, MapOf[t] = MapOf[pos[m]],
           NEW u \in Tile
    PROVE  <<u, m>> \in MoveEntity(m, t) <=> u = t
<1>1. m \in Mobs /\ pos[m] \in Tile
    BY DEF TilesTypeOK, LivingMobs
<1>2. <<u, m>> \in entity <=> u = pos[m]
    BY <1>1 DEF GridOK
<1>3. CASE SameSpot(pos[m], t)
    <2>1. t = pos[m]
        BY <1>1, <1>3, TilesAssumption
    <2>2. QED
        BY <1>2, <1>3, <2>1 DEF MoveEntity
<1>4. CASE ~SameSpot(pos[m], t)
    <2>1. \A v \in Tile : SameSpot(v, t) /\ MapOf[v] = MapOf[pos[m]] <=> v = t
        BY TilesAssumption
    <2>2. QED
        BY <1>2, <1>4, <2>1 DEF MoveEntity
<1>5. QED
    BY <1>3, <1>4

\* What UpdatePosition and the callers that move the flags do, for a player.
LEMMA PersonMoves ==
    ASSUME TilesInv, NEW p \in inWorld, NEW t \in Tile, MoveTo(p, t),
           inWorld' = inWorld, down' \subseteq Persons, UNCHANGED <<mobVars, left>>
    PROVE  TilesInv'
<1> USE DEF TilesInv
<1>1. p \in Persons /\ p \notin Mobs
    BY TilesAssumption DEF TilesTypeOK
<1>2. pos' \in [Persons \cup Mobs -> Tile] /\ \A m \in Mobs : pos'[m] = pos[m]
    BY <1>1 DEF MoveTo, TilesTypeOK
<1>3. TilesTypeOK'
    BY <1>1, <1>2, MoveEntityType DEF MoveTo, Reflag, TilesTypeOK, mobVars
<1>4. HomesOK'
    BY <1>2 DEF HomesOK, mobVars
<1>5. GridOK'
    BY <1>1, <1>2, MoveEntityOthers DEF MoveTo, GridOK, LivingMobs, mobVars
<1>6. FlagsOK'
    BY <1>1, <1>2 DEF MoveTo, Reflag, FlagsOK, LivingMobs, mobVars, TilesTypeOK
<1>7. QED
    BY <1>3, <1>4, <1>5, <1>6

\* The same for a monster that stays on its map.
LEMMA MobMoves ==
    ASSUME TilesInv, NEW m \in Mobs, NEW t \in Tile, MapOf[t] = MapOf[pos[m]], MobTo(m, t)
    PROVE  TilesInv'
<1> USE DEF TilesInv
<1>1. m \in LivingMobs /\ m \notin Persons /\ m \in npcs
    BY TilesAssumption DEF MobTo, LivingMobs
<1>2. /\ pos' \in [Persons \cup Mobs -> Tile] /\ pos'[m] = t
      /\ \A e \in Persons \cup Mobs : e # m => pos'[e] = pos[e]
    BY DEF MobTo, MoveTo, TilesTypeOK
<1>3. npcAoi' \subseteq npcs
    BY <1>1 DEF MobTo, TilesTypeOK
<1>4. entity' \subseteq Tile \X (Persons \cup Mobs)
    BY MoveEntityType DEF MobTo, MoveTo
<1>5. TilesTypeOK'
    BY <1>2, <1>3, <1>4 DEF MobTo, MoveTo, Reflag, TilesTypeOK, playerVars
<1>6. HomesOK'
    BY <1>2 DEF MobTo, HomesOK
<1>7. GridOK'
    <2> SUFFICES ASSUME NEW u \in Tile, NEW n \in Mobs
                 PROVE  <<u, n>> \in entity' <=> n \in LivingMobs /\ u = pos'[n]
        BY DEF GridOK, LivingMobs, MobTo
    <2>1. CASE n = m
        BY <1>1, <1>2, <2>1, MoveEntitySelf DEF MobTo, MoveTo
    <2>2. CASE n # m
        BY <1>2, <2>2, MoveEntityOthers DEF MobTo, MoveTo, GridOK
    <2>3. QED
        BY <2>1, <2>2
<1>8. FlagsOK'
    BY <1>1, <1>2 DEF MobTo, MoveTo, Reflag, FlagsOK, LivingMobs, playerVars, TilesTypeOK
<1>9. QED
    BY <1>5, <1>6, <1>7, <1>8

\* Who is no monster may be put on the grid or taken off it.
LEMMA PlayerActions ==
    ASSUME TilesInv, NEW p \in Persons,
           \/ EnterTile(p) \/ LeaveTile(p) \/ KillPlayer(p) \/ Raise(p) \/ GmHeal(p)
    PROVE  TilesInv'
<1> USE DEF TilesInv
<1>1. p \notin Mobs /\ pos[p] \in Tile
    BY TilesAssumption DEF TilesTypeOK
<1>2. TilesTypeOK'
    BY <1>1 DEF EnterTile, LeaveTile, KillPlayer, Raise, GmHeal, TilesTypeOK, mobVars
<1>3. UNCHANGED <<pos, mobVars, left>>
    BY DEF EnterTile, LeaveTile, KillPlayer, Raise, GmHeal
<1>4. HomesOK'
    BY <1>3 DEF HomesOK, mobVars
<1>5. \A u \in Tile, m \in Mobs : <<u, m>> \in entity' <=> <<u, m>> \in entity
    BY <1>1 DEF EnterTile, LeaveTile, KillPlayer, Raise, GmHeal
<1>6. GridOK'
    BY <1>3, <1>5 DEF GridOK, LivingMobs, mobVars
<1>7. FlagsOK'
    BY <1>1, <1>3
    DEF EnterTile, LeaveTile, KillPlayer, Raise, GmHeal, FlagsOK, LivingMobs, mobVars
<1>8. QED
    BY <1>2, <1>4, <1>6, <1>7

\* A step that is refused closes the tile it was to leave.
LEMMA WalkKeeps ==
    ASSUME TilesInv, NEW p \in Persons, NEW t \in Tile, NEW open \in BOOLEAN, Walk(p, t, open)
    PROVE  TilesInv'
<1>1. p \in inWorld /\ UNCHANGED <<playerVars, mobVars, left>>
    BY DEF Walk
<1>2. CASE MoveTo(p, t)
    BY <1>1, <1>2, PersonMoves DEF playerVars, TilesInv, TilesTypeOK
<1>3. CASE impassable' = impassable \cup {pos[p]} /\ UNCHANGED <<pos, entity>>
    <2> USE DEF TilesInv, mobVars, playerVars
    <2>1. pos[p] \in Tile
        BY DEF TilesTypeOK
    <2>2. TilesTypeOK'
        BY <1>1, <1>3, <2>1 DEF TilesTypeOK
    <2>3. HomesOK' /\ GridOK'
        BY <1>1, <1>3 DEF HomesOK, GridOK, LivingMobs
    <2>4. FlagsOK'
        BY <1>1, <1>3 DEF FlagsOK, LivingMobs
    <2>5. QED
        BY <2>2, <2>3, <2>4
<1>4. QED
    BY <1>2, <1>3 DEF Walk

\* A monster that dies, or is taken for a companion, leaves the grid; where it leaves its
\* flag, that is recorded.
LEMMA MobFalls ==
    ASSUME TilesInv, NEW m \in Mobs, MobDies(m) \/ GmKill(m) \/ TameToSummon(m) \/ TameToPet(m)
    PROVE  TilesInv'
<1> USE TilesAssumption DEF TilesInv
<1>1. /\ m \in npcs /\ m \notin killed /\ m \in LivingMobs /\ pos[m] \in Tile
      /\ UNCHANGED <<pos, playerVars, spawn>>
      /\ entity' = entity \ {<<pos[m], m>>}
    BY DEF MobDies, GmKill, TameToSummon, TameToPet, TilesTypeOK, LivingMobs
<1>2. LivingMobs' = LivingMobs \ {m}
    BY <1>1 DEF MobDies, GmKill, TameToSummon, TameToPet, LivingMobs
<1>3. delete' \in [Mobs -> 0..DeleteTicks] /\ respawn' \in [Mobs -> 0..(RespawnTicks + RetryTicks)]
    <2>1. /\ delete' = delete \/ delete' = [delete EXCEPT ![m] = DeleteTicks]
          /\ respawn' = respawn \/ respawn' = [respawn EXCEPT ![m] = RespawnTicks]
        BY DEF MobDies, GmKill, TameToSummon, TameToPet, TilesTypeOK
    <2>2. DeleteTicks \in 0..DeleteTicks /\ RespawnTicks \in 0..(RespawnTicks + RetryTicks)
        OBVIOUS
    <2>3. QED
        BY <2>1, <2>2 DEF TilesTypeOK
<1>4. /\ npcs' \subseteq Mobs /\ killed' \subseteq npcs' /\ npcAoi' \subseteq npcs'
      /\ impassable' \subseteq Tile /\ left' \subseteq Tile
    BY <1>1 DEF MobDies, GmKill, TameToSummon, TameToPet, TilesTypeOK
<1>5. TilesTypeOK'
    BY <1>1, <1>3, <1>4 DEF TilesTypeOK, playerVars
<1>6. HomesOK'
    BY <1>1 DEF HomesOK
<1>7. GridOK'
    BY <1>1, <1>2 DEF GridOK
<1>8. FlagsOK'
    <2>1. \/ impassable' = impassable \ {pos[m]} /\ left' = left
          \/ impassable' = impassable /\ left' = left \cup {pos[m]}
        BY DEF MobDies, GmKill, TameToSummon, TameToPet
    <2>2. QED
        BY <1>1, <1>2, <2>1 DEF FlagsOK, playerVars
<1>9. QED
    BY <1>5, <1>6, <1>7, <1>8

\* A corpse that is raised stands where it lay.
LEMMA RaiseMobKeeps ==
    ASSUME TilesInv, NEW m \in Mobs, RaiseMob(m)
    PROVE  TilesInv'
<1> USE TilesAssumption DEF TilesInv, RaiseMob, playerVars
<1>1. pos[m] \in Tile /\ LivingMobs' = LivingMobs \cup {m}
    BY DEF TilesTypeOK, LivingMobs
<1>2. TilesTypeOK'
    BY <1>1 DEF TilesTypeOK
<1>3. HomesOK'
    BY DEF HomesOK
<1>4. GridOK'
    BY <1>1 DEF GridOK
<1>5. FlagsOK'
    BY <1>1 DEF FlagsOK
<1>6. QED
    BY <1>2, <1>3, <1>4, <1>5

\* One that comes back does so at a place its spawn list allows, all of them on one map.
LEMMA RespawnKeeps ==
    ASSUME TilesInv, NEW m \in npcs \cap killed, Respawn(m)
    PROVE  TilesInv'
<1> USE TilesAssumption DEF TilesInv, playerVars
<1>0. m \in Mobs /\ m \notin LivingMobs /\ RetryTicks \in 0..(RespawnTicks + RetryTicks)
    BY DEF TilesTypeOK, LivingMobs
<1>1. CASE SpawnPoints(m) = {}
    <2>1. /\ respawn' = [respawn EXCEPT ![m] = RetryTicks]
          /\ UNCHANGED <<pos, playerVars, npcs, killed, spawn, delete, npcAoi, entity, impassable, left>>
        BY <1>1 DEF Respawn
    <2>2. TilesTypeOK'
        BY <1>0, <2>1 DEF TilesTypeOK
    <2>3. HomesOK' /\ GridOK' /\ FlagsOK'
        BY <2>1 DEF HomesOK, GridOK, FlagsOK, LivingMobs
    <2>4. QED
        BY <2>2, <2>3
<1>2. CASE SpawnPoints(m) # {}
    <2>1. PICK t \in SpawnPoints(m) :
              /\ pos' = [pos EXCEPT ![m] = t] /\ spawn' = [spawn EXCEPT ![m] = t]
              /\ entity' = entity \cup {<<t, m>>}
              /\ impassable' = impassable \cup {t}
        BY <1>2 DEF Respawn
    <2>2. /\ killed' = killed \ {m} /\ npcAoi' = npcAoi \cup {m}
          /\ respawn' = [respawn EXCEPT ![m] = 0]
          /\ UNCHANGED <<playerVars, npcs, delete, left>>
        BY <1>2 DEF Respawn
    <2>3. t \in Area[m] /\ t \in Tile
        BY <1>0, <2>1 DEF SpawnPoints
    <2>4. LivingMobs' = LivingMobs \cup {m}
        BY <1>0, <2>2 DEF LivingMobs, TilesTypeOK
    <2>5. /\ pos' \in [Persons \cup Mobs -> Tile] /\ pos'[m] = t /\ spawn'[m] = t
          /\ \A e \in Persons \cup Mobs : e # m => pos'[e] = pos[e]
          /\ \A n \in Mobs : n # m => spawn'[n] = spawn[n]
        BY <1>0, <2>1, <2>3 DEF TilesTypeOK
    <2>6. TilesTypeOK'
        BY <1>0, <2>1, <2>2, <2>3, <2>5 DEF TilesTypeOK
    <2>7. HomesOK'
        BY <2>3, <2>5 DEF HomesOK
    <2>8. GridOK'
        BY <1>0, <2>1, <2>3, <2>4, <2>5 DEF GridOK
    <2>9. FlagsOK'
        <3>1. m \notin Persons /\ inWorld \subseteq Persons /\ inWorld' = inWorld
            BY <1>0, <2>2 DEF TilesTypeOK
        <3>2. \A n \in LivingMobs : n \in Mobs /\ n # m
            BY <1>0 DEF LivingMobs, TilesTypeOK
        <3>3. QED
            BY <2>1, <2>2, <2>4, <2>5, <3>1, <3>2 DEF FlagsOK
    <2>10. QED
        BY <2>6, <2>7, <2>8, <2>9
<1>3. QED
    BY <1>1, <1>2

LEMMA TickMobKeeps ==
    ASSUME TilesInv, NEW m \in Mobs, TickMob(m)
    PROVE  TilesInv'
<1>1. m \in npcs \cap killed
    BY DEF TickMob
<1>2. CASE Respawn(m)
    BY <1>1, <1>2, RespawnKeeps
<1>3. CASE ~Respawn(m)
    <2> USE TilesAssumption DEF TilesInv, playerVars
    <2>1. /\ UNCHANGED <<pos, playerVars, npcs, killed, spawn, entity, impassable, left>>
          /\ npcAoi' \subseteq npcAoi
        BY <1>3 DEF TickMob
    <2>2. /\ delete' \in [Mobs -> 0..DeleteTicks]
          /\ respawn' \in [Mobs -> 0..(RespawnTicks + RetryTicks)]
        <3>1. \/ delete[m] > 0 /\ delete' = [delete EXCEPT ![m] = delete[m] - 1] /\ respawn' = respawn
              \/ respawn[m] > 1 /\ respawn' = [respawn EXCEPT ![m] = respawn[m] - 1] /\ delete' = delete
            BY <1>3 DEF TickMob
        <3>2. delete[m] \in 0..DeleteTicks /\ respawn[m] \in 0..(RespawnTicks + RetryTicks)
            BY DEF TilesTypeOK
        <3>3. /\ delete[m] > 0 => delete[m] - 1 \in 0..DeleteTicks
              /\ respawn[m] > 1 => respawn[m] - 1 \in 0..(RespawnTicks + RetryTicks)
            BY <3>2
        <3>4. QED
            BY <3>1, <3>3 DEF TilesTypeOK
    <2>3. TilesTypeOK'
        BY <2>1, <2>2 DEF TilesTypeOK
    <2>4. HomesOK' /\ GridOK' /\ FlagsOK'
        BY <2>1 DEF HomesOK, GridOK, FlagsOK, LivingMobs
    <2>5. QED
        BY <2>3, <2>4
<1>4. QED
    BY <1>2, <1>3

LEMMA TilesInvNext ==
    ASSUME TilesInv, [TilesNext]_tileVars
    PROVE  TilesInv'
<1>1. ASSUME NEW p \in Persons,
             EnterTile(p) \/ LeaveTile(p) \/ KillPlayer(p) \/ Raise(p) \/ GmHeal(p)
      PROVE  TilesInv'
    BY <1>1, PlayerActions
<1>2. ASSUME NEW p \in Persons, NEW t \in Tile, NEW open \in BOOLEAN, Walk(p, t, open)
      PROVE  TilesInv'
    BY <1>2, WalkKeeps
<1>3. ASSUME NEW p \in Persons, NEW t \in Tile, TeleportTo(p, t)
      PROVE  TilesInv'
    BY <1>3, PersonMoves DEF TeleportTo, playerVars, TilesInv, TilesTypeOK
<1>4. ASSUME NEW p \in Persons, NEW t \in Tile, ProcessRestart(p, t)
      PROVE  TilesInv'
    BY <1>4, PersonMoves DEF ProcessRestart, TilesInv, TilesTypeOK
<1>5. ASSUME NEW m \in Mobs, GoHome(m)
      PROVE  TilesInv'
    <2>1. spawn[m] \in Tile /\ MapOf[spawn[m]] = MapOf[pos[m]]
        BY DEF TilesInv, TilesTypeOK, HomesOK
    <2>2. QED
        BY <1>5, <2>1, MobMoves DEF GoHome
<1>6. ASSUME NEW m \in Mobs, MobDies(m) \/ GmKill(m) \/ TameToSummon(m) \/ TameToPet(m)
      PROVE  TilesInv'
    BY <1>6, MobFalls
<1>7. ASSUME NEW m \in Mobs, RaiseMob(m)
      PROVE  TilesInv'
    BY <1>7, RaiseMobKeeps
<1>8. ASSUME NEW m \in Mobs, NEW t \in Tile, MobMove(m, t)
      PROVE  TilesInv'
    BY <1>8, MobMoves DEF MobMove
<1>9. ASSUME NEW m \in Mobs, TickMob(m)
      PROVE  TilesInv'
    BY <1>9, TickMobKeeps
<1>10. CASE UNCHANGED tileVars
    BY <1>10 DEF tileVars, playerVars, mobVars, TilesInv, TilesTypeOK, HomesOK, GridOK, FlagsOK,
              LivingMobs
<1>11. QED
    BY <1>1, <1>2, <1>3, <1>4, <1>5, <1>6, <1>7, <1>8, <1>9, <1>10 DEF TilesNext, TilesStep

LEMMA TilesInvAgrees == TilesInv => TilesAgree
<1> SUFFICES ASSUME TilesInv
             PROVE  TilesAgree
    OBVIOUS
<1> USE DEF TilesInv
<1>1. MobsAreOnTheGrid
    <2>1. \A e \in entity : e = <<e[1], e[2]>> /\ e[1] \in Tile
        BY DEF TilesTypeOK
    <2>2. \A m \in LivingMobs : m \in Mobs /\ pos[m] \in Tile
        BY DEF TilesTypeOK, LivingMobs
    <2>3. QED
        BY <2>1, <2>2 DEF GridOK, MobsAreOnTheGrid
<1>2. FlagsHaveACause
    BY DEF FlagsOK, FlagsHaveACause
<1>3. QED
    BY <1>1, <1>2 DEF TilesAgree

\* The grid of every map has its living monsters where they are, and a closed tile has somebody
\* on it or was left closed by a monster taken away, however persons and monsters come and go.
THEOREM WorldIsWhereItIs == TilesSpec => []TilesAgree
<1>1. QED
    BY TilesInvInit, TilesInvNext, TilesInvAgrees, PTL DEF TilesSpec

-----------------------------------------------------------------------------
(* TimedMap: maps with a limit on the time spent there.                    *)

\* While a clock runs in the world, the time left is what the time used leaves, and the clock
\* has been started with time to record.
ClocksOK ==
    \A p \in here : clock[p] # None =>
        remaining[p] = Left(used[p][clock[p]]) /\ used[p][clock[p]] < MaxUsed

TimedInv == TimedTypeOK /\ ClocksOK
-----------------------------------------------------------------------------
LEMMA TimedInvInit ==
    TimedInit => TimedInv
BY TimedMapAssumption, SMTT(30) DEF TimedInit, TimedInv, TimedTypeOK, ClocksOK, Unused

\* A clock is started, or stopped, for one player, with u used.
LEMMA StartClockKeeps ==
    ASSUME TimedTypeOK, ClocksOK, NEW p \in Guests, NEW m \in Map, NEW u \in [Group -> 0..MaxUsed],
           used' = [used EXCEPT ![p] = u], StartClock(p, m, u), here' \subseteq here \cup {p}
    PROVE  /\ clock' \in [Guests -> Group \cup {None}]
           /\ remaining' \in [Guests -> -1..MaxTime]
           /\ used' \in [Guests -> [Group -> 0..MaxUsed]]
           /\ ClocksOK'
<1> DEFINE g == GroupOf[m]
<1>1. g \in Group \cup {None} /\ None \notin Group
    BY TimedMapAssumption
<1>2. /\ g # None => u[g] < MaxUsed
      /\ clock' = [clock EXCEPT ![p] = g]
      /\ remaining' = [remaining EXCEPT ![p] = IF g = None THEN remaining[p] ELSE Left(u[g])]
    BY DEF StartClock, TimedTypeOK
<1>3. g # None => u[g] \in 0..MaxUsed /\ Left(u[g]) \in -1..MaxTime
    BY <1>1, TimedMapAssumption, SMTT(30) DEF Left
<1> HIDE DEF g
<1>4. /\ clock' \in [Guests -> Group \cup {None}]
      /\ remaining' \in [Guests -> -1..MaxTime]
      /\ used' \in [Guests -> [Group -> 0..MaxUsed]]
    BY <1>1, <1>2, <1>3 DEF TimedTypeOK
<1>5. ClocksOK'
    <2> SUFFICES ASSUME NEW q \in here', clock'[q] # None
                 PROVE  /\ remaining'[q] = Left(used'[q][clock'[q]])
                        /\ used'[q][clock'[q]] < MaxUsed
        BY DEF ClocksOK, Left
    <2>1. CASE q = p
        BY <1>2, <2>1 DEF TimedTypeOK
    <2>2. CASE q # p
        <3>1. q \in here /\ q \in Guests
            BY <2>2 DEF TimedTypeOK
        <3>2. clock'[q] = clock[q] /\ remaining'[q] = remaining[q] /\ used'[q] = used[q]
            BY <1>2, <2>2, <3>1 DEF TimedTypeOK
        <3>3. QED
            BY <3>1, <3>2 DEF ClocksOK
    <2>3. QED
        BY <2>1, <2>2
<1>6. QED
    BY <1>4, <1>5

\* Moving, falling and being saved leave the clocks alone, death stops one.
LEMMA MoveKeeps ==
    ASSUME TimedInv, NEW p \in Guests, NEW m \in Map, Teleport(p, m) \/ MoveByDialog(p, m)
    PROVE  TimedInv'
<1> USE DEF TimedInv
<1>1. /\ mapID' = [mapID EXCEPT ![p] = m]
      /\ UNCHANGED <<used, fallen, here, dbUsed, day>>
    BY DEF Teleport, MoveByDialog, clockVars
<1>2. mapID' \in [Guests -> Map]
    BY <1>1 DEF TimedTypeOK
<1>3. CASE Teleport(p, m)
    <2>1. used[p] \in [Group -> 0..MaxUsed] /\ used' = [used EXCEPT ![p] = used[p]]
        BY <1>1 DEF TimedTypeOK
    <2>2. QED
        BY <1>1, <1>2, <1>3, <2>1, StartClockKeeps DEF Teleport, TimedTypeOK
<1>4. CASE MoveByDialog(p, m)
    BY <1>1, <1>2, <1>4 DEF MoveByDialog, clockVars, TimedTypeOK, ClocksOK, Left
<1>5. QED
    BY <1>3, <1>4

LEMMA DieKeeps ==
    ASSUME TimedInv, NEW p \in Guests, Die(p)
    PROVE  TimedInv'
<1>1. 0 \in -1..MaxTime
    BY TimedMapAssumption
<1>2. \/ clock' = [clock EXCEPT ![p] = None] /\ remaining' = [remaining EXCEPT ![p] = 0]
      \/ UNCHANGED <<clock, remaining>>
    BY DEF Die
<1>3. fallen' = fallen \cup {p} /\ UNCHANGED <<used, mapID, here, dbUsed, day>>
    BY DEF Die
<1>4. TimedTypeOK'
    BY <1>1, <1>2, <1>3 DEF TimedInv, TimedTypeOK
<1>5. ClocksOK'
    BY <1>2, <1>3 DEF TimedInv, TimedTypeOK, ClocksOK, Left
<1>6. QED
    BY <1>4, <1>5 DEF TimedInv

LEMMA RestartAtHomeKeeps ==
    ASSUME TimedInv, NEW p \in Guests, RestartAtHome(p)
    PROVE  TimedInv'
<1> USE DEF TimedInv
<1>1. used[p] \in [Group -> 0..MaxUsed] /\ used' = [used EXCEPT ![p] = used[p]]
    BY DEF TimedTypeOK, RestartAtHome
<1>2. Outside \in Map
    BY TimedMapAssumption
<1>3. /\ clock' \in [Guests -> Group \cup {None}]
      /\ remaining' \in [Guests -> -1..MaxTime]
      /\ used' \in [Guests -> [Group -> 0..MaxUsed]]
      /\ ClocksOK'
    BY <1>1, <1>2, StartClockKeeps DEF RestartAtHome
<1>4. TimedTypeOK'
    BY <1>2, <1>3 DEF RestartAtHome, TimedTypeOK
<1>5. QED
    BY <1>3, <1>4

\* A second passes for one player.
LEMMA TickKeeps ==
    ASSUME TimedInv, NEW p \in Guests, Tick(p)
    PROVE  TimedInv'
<1> DEFINE g == clock[p]
           expired == remaining[p] <= 1
<1>1. /\ p \in here /\ g # None
      /\ used' = [used EXCEPT ![p][g] = @ + 1]
      /\ remaining' = [remaining EXCEPT ![p] = remaining[p] - 1]
      /\ clock' = [clock EXCEPT ![p] = IF expired THEN None ELSE g]
      /\ mapID' = [mapID EXCEPT ![p] = IF expired /\ GroupOf[mapID[p]] # None THEN Outside ELSE mapID[p]]
      /\ UNCHANGED <<fallen, here, dbUsed, day>>
    BY DEF Tick, TimedInv, TimedTypeOK
<1>2. /\ g \in Group /\ used[p] \in [Group -> 0..MaxUsed]
      /\ remaining[p] = Left(used[p][g]) /\ used[p][g] < MaxUsed
    BY <1>1 DEF TimedInv, TimedTypeOK, ClocksOK
<1> DEFINE u == used[p][g]
<1>3. u \in Nat /\ u + 1 \in 0..MaxUsed /\ remaining[p] - 1 \in -1..MaxTime
    BY <1>2, TimedMapAssumption DEF Left
<1>4. ~expired => remaining[p] - 1 = Left(u + 1) /\ u + 1 < MaxUsed
    BY <1>2, <1>3, TimedMapAssumption DEF Left
<1>5. /\ used'[p] = [used[p] EXCEPT ![g] = u + 1]
      /\ \A q \in Guests : q # p => used'[q] = used[q]
      /\ used' \in [Guests -> [Group -> 0..MaxUsed]]
    <2>1. used' = [used EXCEPT ![p] = [used[p] EXCEPT ![g] = u + 1]]
        BY <1>1
    <2>2. [used[p] EXCEPT ![g] = u + 1] \in [Group -> 0..MaxUsed]
        BY <1>2, <1>3
    <2>3. QED
        BY <2>1, <2>2 DEF TimedInv, TimedTypeOK
<1> HIDE DEF g, u, expired
<1>6. TimedTypeOK'
    <2>1. remaining' \in [Guests -> -1..MaxTime]
        BY <1>1, <1>3 DEF TimedInv, TimedTypeOK
    <2>2. clock' \in [Guests -> Group \cup {None}]
        BY <1>1, <1>2 DEF TimedInv, TimedTypeOK
    <2>3. mapID' \in [Guests -> Map]
        BY <1>1, TimedMapAssumption DEF TimedInv, TimedTypeOK
    <2>4. QED
        BY <1>1, <1>5, <2>1, <2>2, <2>3 DEF TimedInv, TimedTypeOK
<1>7. ClocksOK'
    <2> SUFFICES ASSUME NEW q \in here', clock'[q] # None
                 PROVE  /\ remaining'[q] = Left(used'[q][clock'[q]])
                        /\ used'[q][clock'[q]] < MaxUsed
        BY DEF ClocksOK, Left
    <2>0. q \in here /\ q \in Guests
        BY <1>1 DEF TimedInv, TimedTypeOK
    <2>1. CASE q = p
        <3>1. ~expired /\ clock'[q] = g /\ remaining'[q] = remaining[p] - 1
            BY <1>1, <2>1 DEF TimedInv, TimedTypeOK
        <3>2. used'[q][g] = u + 1
            BY <1>2, <1>5, <2>1
        <3>3. QED
            BY <1>4, <3>1, <3>2
    <2>2. CASE q # p
        <3>1. clock'[q] = clock[q] /\ remaining'[q] = remaining[q] /\ used'[q] = used[q]
            BY <1>1, <1>5, <2>0, <2>2 DEF TimedInv, TimedTypeOK
        <3>2. QED
            BY <2>0, <3>1 DEF TimedInv, ClocksOK
    <2>3. QED
        BY <2>1, <2>2
<1>8. QED
    BY <1>6, <1>7 DEF TimedInv

\* At midnight nobody in the world has used any time.
LEMMA NewDayKeeps ==
    ASSUME TimedInv, NewDay
    PROVE  TimedInv'
<1> USE TimedMapAssumption DEF TimedInv, NewDay, ResetClocks
<1>1. Unused \in [Group -> 0..MaxUsed] /\ \A g \in Group : Unused[g] = 0
    BY DEF Unused
<1> HIDE DEF Unused
<1>2. /\ used' \in [Guests -> [Group -> 0..MaxUsed]]
      /\ clock' \in [Guests -> Group \cup {None}]
      /\ remaining' \in [Guests -> -1..MaxTime]
    BY <1>1 DEF TimedTypeOK
<1>3. dbUsed' \in [Guests -> [Group -> 0..MaxUsed]] /\ day' \in 1..MaxDay
    BY <1>1 DEF TimedTypeOK
<1>4. TimedTypeOK'
    BY <1>2, <1>3 DEF TimedTypeOK
<1>5. ClocksOK'
    <2> SUFFICES ASSUME NEW q \in here', clock'[q] # None
                 PROVE  /\ remaining'[q] = Left(used'[q][clock'[q]])
                        /\ used'[q][clock'[q]] < MaxUsed
        BY DEF ClocksOK, Left
    <2>1. q \in here /\ q \in Guests
        BY DEF TimedTypeOK
    <2>2. /\ clock'[q] = GroupOf[mapID[q]] /\ clock'[q] \in Group
          /\ remaining'[q] = MaxTime /\ used'[q] = Unused
        BY <2>1 DEF TimedTypeOK
    <2>3. QED
        BY <1>1, <2>2 DEF Left
<1>6. QED
    BY <1>4, <1>5

LEMMA SavedType ==
    ASSUME TimedTypeOK, NEW p \in Guests, Saved(p)
    PROVE  dbUsed' \in [Guests -> [Group -> 0..MaxUsed]]
BY DEF TimedTypeOK, Saved

LEMMA LeaveKeeps ==
    ASSUME TimedInv, NEW p \in Guests, AutoSave(p) \/ LeaveTimed(p) \/ Resurrect(p)
    PROVE  TimedInv'
<1>1. /\ UNCHANGED <<used, clock, remaining, mapID, day>>
      /\ here' \subseteq here /\ fallen' \subseteq fallen
    BY DEF AutoSave, LeaveTimed, Resurrect, clockVars
<1>2. dbUsed' \in [Guests -> [Group -> 0..MaxUsed]]
    BY SavedType DEF AutoSave, LeaveTimed, Resurrect, TimedInv, TimedTypeOK
<1>3. QED
    BY <1>1, <1>2 DEF TimedInv, TimedTypeOK, ClocksOK, Left

LEMMA EnterTimedKeeps ==
    ASSUME TimedInv, NEW p \in Guests, EnterTimed(p)
    PROVE  TimedInv'
<1> DEFINE m == IF p \in fallen THEN Outside ELSE mapID[p]
<1>1. PICK u \in {dbUsed[p], Unused} :
          /\ used' = [used EXCEPT ![p] = u]
          /\ mapID' = [mapID EXCEPT ![p] = m]
          /\ StartClock(p, m, u)
    BY DEF EnterTimed
<1>2. /\ here' = here \cup {p} /\ fallen' = fallen \ {p}
      /\ UNCHANGED <<dbUsed, day>>
    BY DEF EnterTimed
<1>3. m \in Map /\ u \in [Group -> 0..MaxUsed]
    BY TimedMapAssumption DEF TimedInv, TimedTypeOK, Unused
<1> HIDE DEF m
<1>4. /\ clock' \in [Guests -> Group \cup {None}]
      /\ remaining' \in [Guests -> -1..MaxTime]
      /\ used' \in [Guests -> [Group -> 0..MaxUsed]]
      /\ ClocksOK'
    BY <1>1, <1>2, <1>3, StartClockKeeps DEF TimedInv
<1>5. QED
    BY <1>1, <1>2, <1>3, <1>4 DEF TimedInv, TimedTypeOK

LEMMA TimedInvNext ==
    ASSUME TimedInv, [TimedNext]_timedVars
    PROVE  TimedInv'
<1>1. CASE UNCHANGED timedVars
    BY <1>1 DEF timedVars, clockVars, TimedInv, TimedTypeOK, ClocksOK, Left
<1>2. CASE NewDay
    BY <1>2, NewDayKeeps
<1>3. ASSUME NEW p \in Guests, Tick(p)
      PROVE  TimedInv'
    BY <1>3, TickKeeps
<1>4. ASSUME NEW p \in Guests, NEW m \in Map, Teleport(p, m) \/ MoveByDialog(p, m)
      PROVE  TimedInv'
    BY <1>4, MoveKeeps
<1>5. ASSUME NEW p \in Guests, 
             \/ Die(p) \/ RestartAtHome(p) \/ Resurrect(p)
             \/ AutoSave(p) \/ LeaveTimed(p) \/ EnterTimed(p)
      PROVE  TimedInv'
    BY <1>5, DieKeeps, RestartAtHomeKeeps, LeaveKeeps, EnterTimedKeeps
<1>6. QED
    BY <1>1, <1>2, <1>3, <1>4, <1>5 DEF TimedNext, TimedStep

LEMMA TimedInvAgrees ==
    TimedInv => TimedTypeOK /\ CountdownAgrees
BY DEF TimedInv, ClocksOK, CountdownAgrees

\* The countdown a player sees is what his time used leaves of the limit, whatever the groups of
\* maps, across deaths, days, saves and sessions.
THEOREM CountdownAlwaysAgrees == TimedSpec => [](TimedTypeOK /\ CountdownAgrees)
<1>1. QED
    BY TimedInvInit, TimedInvNext, TimedInvAgrees, PTL DEF TimedSpec

-----------------------------------------------------------------------------
(* HauntedHouse: the race and its prizes.                                  *)

\* The clock has not run out, and those who run are a finite number.
RaceOK ==
    /\ IsFiniteSet(members)
    /\ status = "ready" => timer < ReadyTicks
    /\ status = "playing" => timer < PlayingTicks

\* In a race every prize is for a goal, and who got one runs no more.
PrizesOK ==
    /\ IsFiniteSet(prizeOf) /\ prizes = Cardinality(prizeOf)
    /\ prizes \in Nat /\ places \in Nat /\ prizes <= places
    /\ status = "playing" => places = winners /\ prizes <= goals /\ members \cap prizeOf = {}

HouseInv == HouseTypeOK /\ RaceOK /\ PrizesOK
-----------------------------------------------------------------------------
LEMMA HouseInvInit ==
    HouseInit => HouseInv
BY HouseAssumption, FS_EmptySet
DEF HouseInit, HouseInv, HouseTypeOK, RaceOK, PrizesOK

\* Fewer members are still few.
LEMMA FewerMembers ==
    ASSUME HouseTypeOK, RaceOK, NEW S \in SUBSET members
    PROVE  S \subseteq Runners /\ IsFiniteSet(S) /\ Cardinality(S) <= MaxMembers
<1>1. IsFiniteSet(S) /\ Cardinality(S) <= Cardinality(members)
    BY FS_Subset DEF RaceOK
<1>2. Cardinality(S) \in Nat /\ Cardinality(members) \in Nat
    BY <1>1, FS_CardinalityType DEF RaceOK
<1>3. QED
    BY <1>1, <1>2, HouseAssumption DEF HouseTypeOK

LEMMA AddMemberKeeps ==
    ASSUME HouseInv, NEW p \in Runners, AddMember(p)
    PROVE  HouseInv'
<1> USE HouseAssumption DEF HouseInv
<1>1. /\ IsFiniteSet(members \cup {p}) /\ Cardinality(members) \in Nat
      /\ Cardinality(members \cup {p}) = Cardinality(members) + 1
    BY FS_AddElement, FS_CardinalityType DEF AddMember, RaceOK
<1>2. members' = members \cup {p} /\ Cardinality(members) < MaxMembers /\ status # "playing"
    BY DEF AddMember
<1>3. \/ status' = "ready" /\ timer' = 0
      \/ UNCHANGED <<status, timer>>
    BY DEF AddMember
<1>4. HouseTypeOK'
    BY <1>1, <1>2, <1>3 DEF AddMember, HouseTypeOK
<1>5. RaceOK'
    BY <1>1, <1>2, <1>3 DEF RaceOK
<1>6. PrizesOK'
    BY <1>2, <1>3 DEF AddMember, prizeVars, PrizesOK
<1>7. QED
    BY <1>4, <1>5, <1>6

\* A goal gives a prize at most, to one who had none in this race.
LEMMA GoalKeeps ==
    ASSUME HouseInv, NEW p \in Runners, OnGoalReached(p)
    PROVE  HouseInv'
<1> USE HouseAssumption DEF HouseInv
<1>1. /\ p \in members /\ status = "playing" /\ goals + 1 <= winners
      /\ winners \in 0..3 /\ goals \in 0..3 /\ goals < winners
      /\ UNCHANGED <<timer, present, places>>
    BY DEF OnGoalReached, HouseTypeOK
<1>2. /\ p \notin prizeOf /\ places = winners /\ prizes <= goals /\ prizes \in Nat
      /\ IsFiniteSet(prizeOf) /\ prizes = Cardinality(prizeOf) /\ members \cap prizeOf = {}
    BY <1>1 DEF PrizesOK
<1>3. /\ IsFiniteSet(prizeOf') /\ prizes' = Cardinality(prizeOf') /\ prizes' \in Nat
      /\ prizes' <= goals + 1 /\ prizeOf' \subseteq prizeOf \cup {p}
    <2>1. IsFiniteSet(prizeOf \cup {p}) /\ Cardinality(prizeOf \cup {p}) = Cardinality(prizeOf) + 1
        BY <1>2, FS_AddElement
    <2>2. \/ prizes' = prizes + 1 /\ prizeOf' = prizeOf \cup {p}
          \/ UNCHANGED <<prizes, prizeOf>>
        BY DEF OnGoalReached, Reward
    <2>3. QED
        BY <1>1, <1>2, <2>1, <2>2
<1>4. /\ members' \subseteq members /\ inHouse' \subseteq inHouse
      /\ \/ status' = "none" /\ winners' = 0 /\ goals' = 0
         \/ /\ goals + 1 # winners /\ goals' = goals + 1 /\ members' = members \ {p}
            /\ UNCHANGED <<status, winners>>
    BY DEF OnGoalReached, EndGame, Win
<1>5. members' \subseteq Runners /\ IsFiniteSet(members') /\ Cardinality(members') <= MaxMembers
    BY <1>4, FewerMembers
<1>6. HouseTypeOK'
    BY <1>1, <1>4, <1>5 DEF HouseTypeOK
<1>7. RaceOK'
    BY <1>1, <1>4, <1>5 DEF RaceOK
<1>8. PrizesOK'
    BY <1>1, <1>2, <1>3, <1>4 DEF PrizesOK
<1>9. QED
    BY <1>6, <1>7, <1>8

LEMMA RunnerKeeps ==
    ASSUME HouseInv, NEW p \in Runners,
           LeaveHouse(p) \/ DropRunner(p) \/ ChangeRunner(p) \/ EnterRunner(p)
    PROVE  HouseInv'
<1> USE DEF HouseInv, LeaveHouse, DropRunner, ChangeRunner, EnterRunner, raceVars, prizeVars
<1>1. /\ members' \subseteq members
      /\ UNCHANGED <<status, winners, goals, timer, prizeVars>>
      /\ present' \subseteq present \cup {p} /\ inHouse' \subseteq inHouse
    OBVIOUS
<1>2. members' \subseteq Runners /\ IsFiniteSet(members') /\ Cardinality(members') <= MaxMembers
    BY <1>1, FewerMembers
<1>3. HouseTypeOK'
    BY <1>1, <1>2 DEF HouseTypeOK
<1>4. RaceOK' /\ PrizesOK'
    BY <1>1, <1>2 DEF RaceOK, PrizesOK
<1>5. QED
    BY <1>3, <1>4

LEMMA HouseTickKeeps ==
    ASSUME HouseInv, HouseTick
    PROVE  HouseInv'
<1> USE HouseAssumption DEF HouseInv
<1>1. CASE /\ status = "ready" /\ timer + 1 < ReadyTicks
           /\ timer' = timer + 1
           /\ UNCHANGED <<status, members, winners, goals, present, inHouse, prizeVars>>
    BY <1>1 DEF HouseTypeOK, RaceOK, PrizesOK, prizeVars
<1>2. CASE StartGame /\ UNCHANGED present
    <2>1. winners' \in 1..3
        BY <1>2 DEF StartGame, Quota
    <2>2. HouseTypeOK' /\ RaceOK'
        BY <1>2, <2>1 DEF StartGame, HouseTypeOK, RaceOK
    <2>3. PrizesOK'
        BY <1>2, <2>1, FS_EmptySet DEF StartGame, PrizesOK
    <2>4. QED
        BY <2>2, <2>3
<1>3. CASE /\ status = "playing" /\ timer + 1 < PlayingTicks
           /\ timer' = timer + 1 /\ members' = members \ Retired
           /\ UNCHANGED <<status, winners, goals, present, inHouse, prizeVars>>
    <2>1. members' \subseteq Runners /\ IsFiniteSet(members') /\ Cardinality(members') <= MaxMembers
        BY <1>3, FewerMembers
    <2>2. QED
        BY <1>3, <2>1 DEF HouseTypeOK, RaceOK, PrizesOK, prizeVars
<1>4. CASE /\ status = "playing" /\ timer + 1 >= PlayingTicks
           /\ timer' = timer + 1
           /\ EndGame(members \ Retired) /\ UNCHANGED <<present, prizeVars>>
    <2>1. timer' \in 0..ReadyTicks + PlayingTicks
        BY <1>4 DEF HouseTypeOK, RaceOK
    <2>2. members' = {} /\ Cardinality(members') <= MaxMembers /\ IsFiniteSet(members')
        BY <1>4, FS_EmptySet DEF EndGame
    <2>3. QED
        BY <1>4, <2>1, <2>2 DEF EndGame, HouseTypeOK, RaceOK, PrizesOK, prizeVars
<1>5. QED
    BY <1>1, <1>2, <1>3, <1>4 DEF HouseTick

LEMMA HouseInvNext ==
    ASSUME HouseInv, [HouseNext]_houseVars
    PROVE  HouseInv'
<1>1. CASE UNCHANGED houseVars
    BY <1>1 DEF houseVars, raceVars, prizeVars, HouseInv, HouseTypeOK, RaceOK, PrizesOK
<1>2. CASE HouseTick
    BY <1>2, HouseTickKeeps
<1>3. ASSUME NEW p \in Runners,
             \/ AddMember(p) \/ OnGoalReached(p) \/ LeaveHouse(p)
             \/ DropRunner(p) \/ ChangeRunner(p) \/ EnterRunner(p)
      PROVE  HouseInv'
    BY <1>3, AddMemberKeeps, GoalKeeps, RunnerKeeps
<1>4. QED
    BY <1>1, <1>2, <1>3 DEF HouseNext, HouseStep

LEMMA HouseInvAgrees ==
    HouseInv => HouseTypeOK /\ PrizesAreLimited
BY DEF HouseInv, PrizesOK, PrizesAreLimited

\* No race gives more prizes than it has places, nor two to one player, with any number of
\* runners and whoever comes, leaves or changes character.
THEOREM PrizesAreAlwaysLimited == HouseSpec => [](HouseTypeOK /\ PrizesAreLimited)
<1>1. QED
    BY HouseInvInit, HouseInvNext, HouseInvAgrees, PTL DEF HouseSpec

-----------------------------------------------------------------------------
(* DragonDoor: its keepers.                                                *)

Entry == [kind : Kind, lifetime : 1..Lifetime, steps : 0..Distance, arrived : BOOLEAN]

\* One that has not arrived has steps to take.
KeepersOK ==
    /\ called \in Nat /\ keepers \in [DOMAIN keepers -> Entry]
    /\ \A k \in DOMAIN keepers : keepers[k].arrived \/ keepers[k].steps # 0

DragonInv == DragonTypeOK /\ KeepersOK
-----------------------------------------------------------------------------
LEMMA DragonInvInit ==
    DragonInit => DragonInv
BY DEF DragonInit, DragonInv, DragonTypeOK, KeepersOK

LEMMA EntriesFit ==
    ASSUME NEW S, NEW f, f \in [S -> Entry]
    PROVE  \A k \in S : 
              /\ f[k].kind \in Kind /\ f[k].lifetime \in 1..Lifetime
              /\ f[k].steps \in 0..Distance /\ f[k].arrived \in BOOLEAN
BY DEF Entry

LEMMA SpawnKeeperKeeps ==
    ASSUME DragonInv, NEW kind \in Kind, SpawnKeeper(kind)
    PROVE  DragonInv'
<1> DEFINE new == [kind |-> kind, lifetime |-> Lifetime, steps |-> Distance, arrived |-> FALSE]
<1>1. /\ called' = called + 1 /\ called \in Nat
      /\ keepers' = [k \in DOMAIN keepers \cup {called'} |-> IF k = called' THEN new ELSE keepers[k]]
      /\ standing' = standing \cup {called'}
      /\ UNCHANGED <<corpses, bridges, dropped>>
    BY DEF SpawnKeeper, DragonInv, KeepersOK
<1>2. new \in Entry /\ ~new.arrived /\ new.steps # 0
    BY DragonAssumption DEF Entry
<1> HIDE DEF new
<1>3. /\ DOMAIN keepers' = DOMAIN keepers \cup {called'}
      /\ DOMAIN keepers \cup DOMAIN dropped \subseteq 1..called
      /\ called' \notin DOMAIN dropped \cup corpses
    BY <1>1 DEF DragonInv, DragonTypeOK
<1>4. /\ keepers' \in [DOMAIN keepers' -> Entry]
      /\ \A k \in DOMAIN keepers' : keepers'[k].arrived \/ keepers'[k].steps # 0
    BY <1>1, <1>2, <1>3 DEF DragonInv, KeepersOK
<1>5. KeepersOK'
    <2>1. called' \in Nat
        BY <1>1
    <2>2. QED
        BY <1>4, <2>1 DEF KeepersOK
<1>6. DragonTypeOK'
    BY <1>1, <1>3, <1>4, EntriesFit DEF DragonInv, DragonTypeOK
<1>7. QED
    BY <1>5, <1>6 DEF DragonInv

\* One that falls or is raised is followed as much as before.
LEMMA FallenAndRaised ==
    ASSUME DragonInv, NEW k, \/ k \in standing /\ KillKeeper(k)
                             \/ k \in corpses /\ RaiseKeeper(k)
    PROVE  DragonInv'
BY DEF KillKeeper, RaiseKeeper, DragonInv, DragonTypeOK, KeepersOK

\* A tick: what is kept is one of those there were, a tick older.
LEMMA TickKeepersKeeps ==
    ASSUME DragonInv, TickKeepers
    PROVE  DragonInv'
<1> DEFINE kept == {k \in DOMAIN keepers : k \in standing \cup corpses}
           old == {k \in kept : keepers[k].lifetime = 1}
           fell == {k \in kept \ old : keepers[k].kind \in Fighting /\ k \in corpses}
           walkers == Walkers(kept \ old)
           stay == kept \ (old \cup fell)
<1>1. PICK moved \in SUBSET (walkers \cap standing) :
          LET there == Arriving(moved) IN
          /\ keepers' = [k \in stay |->
                 [keepers[k] EXCEPT
                     !.lifetime = @ - 1,
                     !.steps = IF k \in moved THEN @ - 1 ELSE @,
                     !.arrived = @ \/ k \in there \cup (walkers \cap corpses)]]
          /\ standing' = standing \ TakenAway(old, there)
          /\ bridges' = bridges \cup {keepers[k].kind : k \in there \cup fell}
    BY DEF TickKeepers
<1>13. dropped' = [k \in DOMAIN dropped \cup fell |-> IF k \in fell THEN keepers[k].kind ELSE dropped[k]]
    BY DEF TickKeepers
<1> DEFINE there == Arriving(moved)
<1>2. /\ keepers \in [DOMAIN keepers -> Entry] /\ called' = called /\ corpses' = corpses \ old
      /\ standing \cup corpses \subseteq DOMAIN keepers \cup DOMAIN dropped
      /\ DOMAIN keepers \cup DOMAIN dropped \subseteq 1..called
      /\ DOMAIN keepers \cap DOMAIN dropped = {} /\ standing \cap corpses = {}
      /\ \A k \in DOMAIN dropped : dropped[k] \in Fighting \cap bridges
    BY DEF DragonInv, KeepersOK, DragonTypeOK, TickKeepers
<1>3. /\ moved \subseteq stay /\ there \subseteq moved
      /\ \A k \in moved : ~keepers[k].arrived /\ (k \notin there => keepers[k].steps # 1)
    BY <1>2 DEF Walkers, Arriving
<1>4. /\ DOMAIN keepers' = stay /\ DOMAIN dropped' = DOMAIN dropped \cup fell
      /\ standing' \cup corpses' \subseteq stay \cup DOMAIN dropped'
      /\ standing' \cap corpses' = {} /\ DOMAIN keepers' \cap DOMAIN dropped' = {}
    BY <1>1, <1>2, <1>13 DEF TakenAway
<1>5. ASSUME NEW k \in stay
      PROVE  keepers'[k] \in Entry /\ (keepers'[k].arrived \/ keepers'[k].steps # 0)
    <2>1. /\ keepers[k] \in Entry /\ keepers[k].lifetime # 1
          /\ keepers[k].arrived \/ keepers[k].steps # 0
        BY <1>2 DEF DragonInv, KeepersOK
    <2>2. keepers'[k] =
              [kind |-> keepers[k].kind, lifetime |-> keepers[k].lifetime - 1,
               steps |-> IF k \in moved THEN keepers[k].steps - 1 ELSE keepers[k].steps,
               arrived |-> keepers[k].arrived \/ k \in there \cup (walkers \cap corpses)]
        <3>1. keepers'[k] = [keepers[k] EXCEPT
                  !.lifetime = @ - 1,
                  !.steps = IF k \in moved THEN @ - 1 ELSE @,
                  !.arrived = @ \/ k \in there \cup (walkers \cap corpses)]
            BY <1>1
        <3> HIDE DEF stay, walkers, there
        <3>2. QED
            BY <2>1, <3>1 DEF Entry
    <2> DEFINE a == keepers[k].arrived \/ k \in there \cup (walkers \cap corpses)
               l == keepers[k].lifetime - 1
               n == IF k \in moved THEN keepers[k].steps - 1 ELSE keepers[k].steps
    <2>3. l \in 1..Lifetime /\ keepers[k].kind \in Kind /\ a \in BOOLEAN
        BY <2>1, DragonAssumption DEF Entry
    <2>4. n \in 0..Distance /\ (a \/ n # 0)
        BY <1>3, <2>1, DragonAssumption DEF Entry
    <2> HIDE DEF a, l, n, stay
    <2>5. keepers'[k] = [kind |-> keepers[k].kind, lifetime |-> l, steps |-> n, arrived |-> a]
        BY <2>2 DEF a, l, n
    <2>6. QED
        BY <2>3, <2>4, <2>5 DEF Entry
<1>6. bridges' \subseteq Kind
    BY <1>1, <1>2, <1>3 DEF Entry, DragonInv, DragonTypeOK
<1> HIDE DEF stay
<1>7. keepers' \in [stay -> Entry]
    <2>1. keepers' = [k \in stay |-> keepers'[k]]
        BY <1>1
    <2>2. QED
        BY <1>5, <2>1
<1>8. \A k \in DOMAIN dropped' : dropped'[k] \in Fighting \cap bridges'
    <2> HIDE DEF there
    <2>1. QED
        BY <1>1, <1>2, <1>13
<1>9. DOMAIN keepers' \cup DOMAIN dropped' \subseteq 1..called'
    BY <1>2, <1>4 DEF stay
<1>10. KeepersOK'
    BY <1>2, <1>4, <1>5, <1>7 DEF DragonInv, KeepersOK
<1>11. DragonTypeOK'
    BY <1>4, <1>6, <1>7, <1>8, <1>9, EntriesFit DEF DragonTypeOK
<1>12. QED
    BY <1>10, <1>11 DEF DragonInv

LEMMA DragonInvNext ==
    ASSUME DragonInv, [DragonNext]_dragonVars
    PROVE  DragonInv'
<1>1. CASE UNCHANGED dragonVars
    BY <1>1 DEF dragonVars, DragonInv, DragonTypeOK, KeepersOK
<1>2. CASE TickKeepers
    BY <1>2, TickKeepersKeeps
<1>3. ASSUME NEW kind \in Kind, SpawnKeeper(kind)
      PROVE  DragonInv'
    BY <1>3, SpawnKeeperKeeps
<1>4. ASSUME NEW k \in standing, KillKeeper(k)
      PROVE  DragonInv'
    BY <1>4, FallenAndRaised
<1>5. ASSUME NEW k \in corpses, RaiseKeeper(k)
      PROVE  DragonInv'
    BY <1>5, FallenAndRaised
<1>6. QED
    BY <1>1, <1>2, <1>3, <1>4, <1>5 DEF DragonNext, DragonStep

LEMMA DragonInvAgrees ==
    DragonInv => DragonTypeOK
BY DEF DragonInv

\* Every keeper in the world is on the list that takes it away, with time left, however many
\* were called before, unless it fell in a fight and opened its bridge: whoever raises that one
\* leaves it to nobody.
THEOREM KeepersAreFollowed == DragonSpec => []DragonTypeOK
<1>1. QED
    BY DragonInvInit, DragonInvNext, DragonInvAgrees, PTL DEF DragonSpec

-----------------------------------------------------------------------------
(* Dungeon: instances, their players and their monsters.                   *)

\* What an instance i is: a record of the code's fields, its monsters those of the rounds
\* that have been spawned.
ListsOK(i, inst) ==
    \A m \in inst.npcs \cup inst.auxNpcs :
        m[1] = i /\ m \in Monsters(i, inst.quest, m[2]) /\ m[2] \in inst.spawnedRounds

Npc == Nat \X Nat \X Nat
Instance == [quest : Dungeon, players : SUBSET Players, npcs : SUBSET Npc, auxNpcs : SUBSET Npc,
             spawnedRounds : SUBSET Nat, age : Nat]

InstOK(i, inst) ==
    /\ inst \in Instance
    /\ inst.spawnedRounds \subseteq DOMAIN Def[inst.quest].rounds
    /\ inst.age \in 0..Def[inst.quest].limit - 1
    /\ ListsOK(i, inst)

PlacesOK ==
    /\ nextID \in 1..MaxShow + 1
    /\ DOMAIN instances \subseteq 1..nextID - 1
    /\ showID \in [Players -> 0..MaxShow]
    /\ playing \subseteq Players
    /\ at \in [Players -> Dungeon \cup {Town}]

InstancesOK == \A i \in DOMAIN instances : InstOK(i, instances[i])

\* A tag names an instance that lists its player, and one who is away has none.
TagsOK ==
    \A p \in Players : showID[p] # 0 =>
        /\ p \in playing
        /\ showID[p] \in DOMAIN instances /\ p \in instances[showID[p]].players

\* A monster that never fell in a fight is on the list of its instance.
Lists(insts, m) ==
    m[1] \in DOMAIN insts /\ m \in insts[m[1]].npcs \cup insts[m[1]].auxNpcs

Unslain == (alive \cup dead) \ slain

ListedOK == \A m \in Unslain : Lists(instances, m)

\* One that fell is on no list: its round was spawned by an instance that was made, and will
\* not be spawned again.
SlainOK ==
    /\ \A m \in slain : m[1] \in 1..nextID - 1
    /\ \A m \in slain : m[1] \in DOMAIN instances =>
          m[2] \in instances[m[1]].spawnedRounds /\ m \notin instances[m[1]].npcs

DungeonInv == PlacesOK /\ InstancesOK /\ TagsOK /\ ListedOK /\ SlainOK
-----------------------------------------------------------------------------
LEMMA DungeonInvInit ==
    DungeonInit => DungeonInv
BY DungeonAssumption
DEF DungeonInit, DungeonInv, PlacesOK, InstancesOK, TagsOK, ListedOK, Unslain, SlainOK

LEMMA MonstersNamed ==
    ASSUME NEW i \in Nat, NEW d \in Dungeon, NEW r \in DOMAIN Def[d].rounds, NEW m \in Monsters(i, d, r)
    PROVE  m \in Npc /\ m[1] = i /\ m[2] = r
<1>1. /\ r \in Nat /\ Def[d].rounds[r].mobs \in Nat
      /\ Monsters(i, d, r) =
             {<<i, r, k>> : k \in (IF Def[d].rounds[r].helper THEN 0 ELSE 1)..Def[d].rounds[r].mobs}
    BY DungeonAssumption DEF Monsters
<1>2. PICK k \in (IF Def[d].rounds[r].helper THEN 0 ELSE 1)..Def[d].rounds[r].mobs : m = <<i, r, k>>
    BY <1>1
<1>3. k \in Nat
    BY <1>1, <1>2
<1>4. QED
    BY <1>1, <1>2, <1>3 DEF Npc

\* The round that comes next is one that waits for the monsters to be gone.
LEMMA NextRoundWaits ==
    ASSUME NEW inst, inst.quest \in Dungeon
    PROVE  NextRound(inst) \subseteq RoundsOn(inst.quest, "clear") \ inst.spawnedRounds
<1> DEFINE waiting == RoundsOn(inst.quest, "clear") \ inst.spawnedRounds
<1>1. CASE waiting = {}
    BY <1>1 DEF NextRound
<1>2. CASE waiting # {}
    <2>1. waiting \subseteq Nat
        BY DungeonAssumption DEF RoundsOn
    <2>2. \E x \in waiting : \A y \in waiting : x <= y
        <3> HIDE DEF waiting
        <3>1. QED
            BY <1>2, <2>1, LeastNumber
    <2>4. Min(waiting) \in waiting
        <3> HIDE DEF waiting
        <3>1. QED
            BY <2>2 DEF Min
    <2>5. QED
        BY <1>2, <2>4 DEF NextRound
<1>3. QED
    BY <1>1, <1>2

\* The monsters born are some of those of the rounds.
BornIn(i, d, rounds, born) == \A m \in born : \E r \in rounds : m \in Monsters(i, d, r)

\* Rounds that are spawned list their monsters, and leave the rest of the instance alone.
LEMMA GrownFits ==
    ASSUME NEW i \in Nat, NEW inst, InstOK(i, inst),
           NEW rounds \in SUBSET DOMAIN Def[inst.quest].rounds,
           NEW born, BornIn(i, inst.quest, rounds, born)
    PROVE  /\ InstOK(i, Grown(inst, rounds, born))
           /\ Grown(inst, rounds, born).quest = inst.quest
           /\ Grown(inst, rounds, born).players = inst.players
           /\ Grown(inst, rounds, born).npcs \cup Grown(inst, rounds, born).auxNpcs
                  = inst.npcs \cup inst.auxNpcs \cup born
<1> DEFINE new == Grown(inst, rounds, born)
<1>1. inst \in Instance /\ inst.quest \in Dungeon /\ DOMAIN Def[inst.quest].rounds \subseteq Nat
    BY DungeonAssumption DEF InstOK, Instance
<1>2. \A m \in born : m \in Npc /\ m[1] = i /\ m \in Monsters(i, inst.quest, m[2]) /\ m[2] \in rounds
    BY <1>1, MonstersNamed DEF BornIn
<1>3. rounds \in SUBSET Nat /\ Counted(born) \in SUBSET Npc /\ Helpers(born) \in SUBSET Npc
    BY <1>1, <1>2 DEF Counted, Helpers
<1>4. /\ new \in Instance /\ new.quest = inst.quest /\ new.players = inst.players
      /\ new.npcs = inst.npcs \cup Counted(born) /\ new.auxNpcs = inst.auxNpcs \cup Helpers(born)
      /\ new.spawnedRounds = inst.spawnedRounds \cup rounds /\ new.age = inst.age
    BY <1>1, <1>3 DEF Grown, Instance
<1> HIDE DEF new
<1>5. new.npcs \cup new.auxNpcs = inst.npcs \cup inst.auxNpcs \cup born
    BY <1>4 DEF Counted, Helpers
<1>6. ListsOK(i, new)
    <2> SUFFICES ASSUME NEW m \in new.npcs \cup new.auxNpcs
                 PROVE  m[1] = i /\ m \in Monsters(i, new.quest, m[2]) /\ m[2] \in new.spawnedRounds
        BY DEF ListsOK
    <2>1. CASE m \in born
        BY <1>2, <1>4, <2>1
    <2>2. CASE m \in inst.npcs \cup inst.auxNpcs
        BY <1>4, <2>2 DEF InstOK, ListsOK
    <2>3. QED
        BY <1>5, <2>1, <2>2
<1>7. InstOK(i, new)
    BY <1>4, <1>6 DEF InstOK
<1>8. QED
    BY <1>4, <1>5, <1>7 DEF new
-----------------------------------------------------------------------------
(* What the end of the instances in C leaves, when the players in out have left already. *)

LEMMA TagsAfterEnd ==
    ASSUME PlacesOK, TagsOK, NEW C \in SUBSET DOMAIN instances, NEW out \in SUBSET Players
    PROVE  /\ TagsAfter(C, out) \in [Players -> 0..MaxShow]
           /\ \A q \in Players : TagsAfter(C, out)[q] # 0 =>
                  /\ TagsAfter(C, out)[q] = showID[q] /\ showID[q] # 0
                  /\ q \notin out /\ showID[q] \notin C
           /\ \A q \in out : TagsAfter(C, out)[q] = 0
<1>1. 0 \in 0..MaxShow
    BY DungeonAssumption
<1>2. TagsAfter(C, out) \in [Players -> 0..MaxShow]
    BY <1>1 DEF TagsAfter, PlacesOK
<1>3. ASSUME NEW q \in Players, TagsAfter(C, out)[q] # 0
      PROVE  /\ TagsAfter(C, out)[q] = showID[q] /\ showID[q] # 0
             /\ q \notin out /\ showID[q] \notin C
    <2>1. ~(q \in out \/ Guest(q, C)) /\ TagsAfter(C, out)[q] = showID[q]
        BY <1>3 DEF TagsAfter
    <2>2. QED
        BY <1>3, <2>1 DEF TagsOK, Guest
<1>4. \A q \in out : TagsAfter(C, out)[q] = 0
    BY DEF TagsAfter
<1>5. QED
    BY <1>2, <1>3, <1>4

LEMMA PlacesAfterEnd ==
    ASSUME PlacesOK, NEW C, NEW out
    PROVE  PlacesAfter(C, out) \in [Players -> Dungeon \cup {Town}]
BY DEF PlacesOK, PlacesAfter

\* What is left of the instances when p leaves the one its tag names.
LEMMA LeftByFits ==
    ASSUME DungeonInv, NEW p \in Players
    PROVE  /\ EndedBy(p) \subseteq DOMAIN instances
           /\ DOMAIN LeftBy(p) = DOMAIN instances \ EndedBy(p)
           /\ \A i \in DOMAIN LeftBy(p) :
                  /\ InstOK(i, LeftBy(p)[i])
                  /\ LeftBy(p)[i].npcs = instances[i].npcs
                  /\ LeftBy(p)[i].auxNpcs = instances[i].auxNpcs
                  /\ LeftBy(p)[i].spawnedRounds = instances[i].spawnedRounds
                  /\ instances[i].players \ {p} \subseteq LeftBy(p)[i].players
<1>1. EndedBy(p) \subseteq DOMAIN instances
    BY DEF EndedBy
<1>2. DOMAIN LeftBy(p) = DOMAIN instances \ EndedBy(p)
    BY DEF LeftBy
<1>3. ASSUME NEW i \in DOMAIN LeftBy(p)
      PROVE  /\ InstOK(i, LeftBy(p)[i])
             /\ LeftBy(p)[i].npcs = instances[i].npcs
             /\ LeftBy(p)[i].auxNpcs = instances[i].auxNpcs
             /\ LeftBy(p)[i].spawnedRounds = instances[i].spawnedRounds
             /\ instances[i].players \ {p} \subseteq LeftBy(p)[i].players
    <2>1. i \in DOMAIN instances /\ InstOK(i, instances[i])
        BY <1>2, <1>3 DEF DungeonInv, InstancesOK
    <2>2. CASE i = showID[p]
        <3> DEFINE inst == instances[i]
                   less == [inst EXCEPT !.players = @ \ {p}]
        <3>1. LeftBy(p)[i] = less
            BY <1>2, <2>2 DEF LeftBy
        <3>2. /\ less \in Instance /\ less.quest = inst.quest /\ less.players = inst.players \ {p}
              /\ less.npcs = inst.npcs /\ less.auxNpcs = inst.auxNpcs
              /\ less.spawnedRounds = inst.spawnedRounds /\ less.age = inst.age
            BY <2>1 DEF InstOK, Instance
        <3> HIDE DEF less
        <3>3. InstOK(i, less)
            BY <2>1, <3>2 DEF InstOK, ListsOK
        <3>4. QED
            BY <3>1, <3>2, <3>3
    <2>3. CASE i # showID[p]
        <3>1. LeftBy(p)[i] = instances[i]
            BY <1>2, <2>3 DEF LeftBy
        <3>2. QED
            BY <2>1, <3>1
    <2>4. QED
        BY <2>2, <2>3
<1>4. QED
    BY <1>1, <1>2, <1>3

\* cleanupDungeonNpcs leaves no monster of an instance that ended, but those that fell.
LEMMA CleanedUpAll ==
    ASSUME ListedOK, NEW C \in SUBSET DOMAIN instances, NEW m \in Unslain \ CleanedUp(C)
    PROVE  m[1] \in DOMAIN instances \ C /\ m \in instances[m[1]].npcs \cup instances[m[1]].auxNpcs
BY DEF ListedOK, Lists, CleanedUp

\* Somebody leaves his dungeon, and perhaps the world.
LEMMA DepartureKeeps ==
    ASSUME DungeonInv, NEW p \in Players, Departure(p), at' = PlacesAfter(EndedBy(p), {p}),
           UNCHANGED <<nextID, slain>>, playing' = playing \/ playing' = playing \ {p}
    PROVE  DungeonInv'
<1> USE DEF DungeonInv
<1>1. /\ instances' = LeftBy(p) /\ showID' = TagsAfter(EndedBy(p), {p})
      /\ Unslain' \subseteq Unslain \ CleanedUp(EndedBy(p))
    BY DEF Departure, Unslain
<1>2. /\ EndedBy(p) \subseteq DOMAIN instances
      /\ DOMAIN instances' = DOMAIN instances \ EndedBy(p)
      /\ \A i \in DOMAIN instances' :
             /\ InstOK(i, instances'[i])
             /\ instances'[i].npcs = instances[i].npcs
             /\ instances'[i].auxNpcs = instances[i].auxNpcs
             /\ instances'[i].spawnedRounds = instances[i].spawnedRounds
             /\ instances[i].players \ {p} \subseteq instances'[i].players
    BY <1>1, LeftByFits
<1>3. /\ showID' \in [Players -> 0..MaxShow]
      /\ \A q \in Players : showID'[q] # 0 =>
             showID'[q] = showID[q] /\ showID[q] # 0 /\ q # p /\ showID[q] \notin EndedBy(p)
    <2> DEFINE C == EndedBy(p)
               out == {p}
    <2>1. showID' = TagsAfter(C, out) /\ C \in SUBSET DOMAIN instances /\ out \in SUBSET Players
        BY <1>1, <1>2
    <2> HIDE DEF C, out
    <2>2. /\ showID' \in [Players -> 0..MaxShow]
          /\ \A q \in Players : showID'[q] # 0 =>
                 showID'[q] = showID[q] /\ showID[q] # 0 /\ q \notin out /\ showID[q] \notin C
        BY <2>1, TagsAfterEnd
    <2>3. QED
        BY <2>2 DEF C, out
<1>4. PlacesOK'
    BY <1>2, <1>3, PlacesAfterEnd DEF PlacesOK
<1>5. InstancesOK'
    BY <1>2 DEF InstancesOK
<1>6. TagsOK'
    BY <1>2, <1>3 DEF TagsOK
<1>7. ListedOK'
    BY <1>1, <1>2, CleanedUpAll DEF ListedOK, Lists
<1>8. SlainOK'
    BY <1>2 DEF SlainOK
<1>9. QED
    BY <1>4, <1>5, <1>6, <1>7, <1>8

\* Somebody leaves his dungeon for a new one.
LEMMA EnterKeeps ==
    ASSUME DungeonInv, NEW p \in Players, NEW d \in Dungeon, Enter(p, d)
    PROVE  DungeonInv'
<1> USE DEF DungeonInv
<1> DEFINE n == nextID
           rounds == RoundsOn(d, "enter")
           gone == EndedBy(p)
           rest == LeftBy(p)
<1>1. PICK born \in SUBSET UNION {Monsters(n, d, r) : r \in rounds} :
          /\ instances' = [i \in DOMAIN rest \cup {n} |->
                               IF i = n THEN Grown(Fresh(p, d), rounds, born) ELSE rest[i]]
          /\ Unslain' \subseteq (Unslain \ CleanedUp(gone)) \cup born
    BY DEF Enter, Unslain
<1>2. /\ p \in playing /\ n <= MaxShow /\ nextID' = n + 1 /\ UNCHANGED <<playing, slain>>
      /\ showID' = [TagsAfter(gone, {p}) EXCEPT ![p] = n]
      /\ at' = [at EXCEPT ![p] = d]
    BY DEF Enter
<1>3. n \in 1..MaxShow /\ n \in Nat /\ MaxShow \in Nat /\ n \notin DOMAIN instances
    BY <1>2, DungeonAssumption DEF PlacesOK
<1>4. /\ gone \subseteq DOMAIN instances /\ DOMAIN rest = DOMAIN instances \ gone
      /\ \A i \in DOMAIN rest :
             /\ InstOK(i, rest[i])
             /\ rest[i].npcs = instances[i].npcs /\ rest[i].auxNpcs = instances[i].auxNpcs
             /\ rest[i].spawnedRounds = instances[i].spawnedRounds
             /\ instances[i].players \ {p} \subseteq rest[i].players
    BY LeftByFits
<1> HIDE DEF rest
<1> DEFINE new == Grown(Fresh(p, d), rounds, born)
<1>5. /\ InstOK(n, new) /\ new.players = {p} /\ born \subseteq new.npcs \cup new.auxNpcs
    <2> DEFINE fresh == Fresh(p, d)
    <2>1. /\ fresh.quest = d /\ fresh.players = {p} /\ fresh.npcs = {} /\ fresh.auxNpcs = {}
          /\ fresh.spawnedRounds = {} /\ fresh.age = 0 /\ fresh \in Instance
        BY DEF Fresh, Instance
    <2> HIDE DEF fresh
    <2>2. InstOK(n, fresh)
        BY <2>1, DungeonAssumption DEF InstOK, ListsOK
    <2>3. rounds \in SUBSET DOMAIN Def[fresh.quest].rounds
        BY <2>1 DEF RoundsOn
    <2>4. BornIn(n, fresh.quest, rounds, born)
        BY <2>1 DEF BornIn
    <2> DEFINE grown == Grown(fresh, rounds, born)
    <2>5. InstOK(n, grown) /\ grown.players = {p} /\ born \subseteq grown.npcs \cup grown.auxNpcs
        <3> HIDE DEF rounds, n
        <3>1. /\ InstOK(n, grown) /\ grown.players = fresh.players
              /\ grown.npcs \cup grown.auxNpcs = fresh.npcs \cup fresh.auxNpcs \cup born
            BY <1>3, <2>2, <2>3, <2>4, GrownFits
        <3>2. QED
            BY <2>1, <3>1
    <2>6. QED
        BY <2>5 DEF fresh
<1> HIDE DEF new
<1>6. /\ DOMAIN instances' = DOMAIN rest \cup {n} /\ instances'[n] = new
      /\ \A i \in DOMAIN rest : i # n /\ instances'[i] = rest[i]
    BY <1>1, <1>3, <1>4 DEF new
<1>7. /\ showID' \in [Players -> 0..MaxShow] /\ showID'[p] = n
      /\ \A q \in Players : q # p /\ showID'[q] # 0 =>
             showID'[q] = showID[q] /\ showID[q] # 0 /\ showID[q] \notin gone
    <2> DEFINE tags == TagsAfter(gone, {p})
               out == {p}
    <2> HIDE DEF gone, out
    <2>1. /\ tags \in [Players -> 0..MaxShow]
          /\ \A q \in Players : tags[q] # 0 =>
                 tags[q] = showID[q] /\ showID[q] # 0 /\ showID[q] \notin gone
        <3>1. gone \in SUBSET DOMAIN instances /\ out \in SUBSET Players
            BY <1>4 DEF out
        <3>2. QED
            BY <3>1, TagsAfterEnd DEF out
    <2> HIDE DEF tags
    <2>2. showID' = [tags EXCEPT ![p] = n]
        BY <1>2 DEF tags
    <2>3. QED
        BY <1>3, <2>1, <2>2
<1>8. PlacesOK'
    <2>1. DOMAIN instances' \subseteq 1..nextID' - 1
        BY <1>2, <1>3, <1>4, <1>6 DEF PlacesOK
    <2>2. at' \in [Players -> Dungeon \cup {Town}]
        BY <1>2 DEF PlacesOK
    <2>3. nextID' \in 1..MaxShow + 1
        BY <1>2, <1>3
    <2>4. QED
        BY <1>2, <1>7, <2>1, <2>2, <2>3 DEF PlacesOK
<1>9. InstancesOK'
    BY <1>4, <1>5, <1>6 DEF InstancesOK
<1>10. TagsOK'
    <2> SUFFICES ASSUME NEW q \in Players, showID'[q] # 0
                 PROVE  /\ q \in playing' /\ showID'[q] \in DOMAIN instances'
                        /\ q \in instances'[showID'[q]].players
        BY DEF TagsOK
    <2>1. CASE q = p
        BY <1>2, <1>5, <1>6, <1>7, <2>1
    <2>2. CASE q # p
        BY <1>2, <1>4, <1>6, <1>7, <2>2 DEF TagsOK
    <2>3. QED
        BY <2>1, <2>2
<1>11. ListedOK'
    <2> SUFFICES ASSUME NEW m \in Unslain'
                 PROVE  Lists(instances', m)
        BY DEF ListedOK
    <2>1. CASE m \in born
        <3>1. m[1] = n
            BY <1>3, <2>1, MonstersNamed DEF RoundsOn
        <3>2. QED
            BY <1>5, <1>6, <2>1, <3>1 DEF Lists
    <2>2. CASE m \in Unslain \ CleanedUp(gone)
        BY <1>4, <1>6, <2>2, CleanedUpAll DEF Lists
    <2>3. QED
        BY <1>1, <2>1, <2>2
<1>12. SlainOK'
    <2>1. \A m \in slain : m[1] \in 1..n - 1
        BY DEF SlainOK
    <2>2. \A m \in slain : m[1] \in 1..nextID' - 1 /\ m[1] # n
        BY <1>2, <1>3, <2>1
    <2>3. QED
        BY <1>2, <1>4, <1>6, <2>2 DEF SlainOK
<1>13. QED
    BY <1>8, <1>9, <1>10, <1>11, <1>12

\* Changing the character takes the tag away with the player, and leaves the instance.
LEMMA ComingAndGoing ==
    ASSUME DungeonInv, NEW p \in Players, ChangeChar(p) \/ EnterWorld(p) \/ TeleportOut(p)
    PROVE  DungeonInv'
<1> USE DEF DungeonInv
<1>1. UNCHANGED <<instances, nextID, alive, dead, slain>>
    BY DEF ChangeChar, EnterWorld, TeleportOut
<1>2. 0 \in 0..MaxShow
    BY DungeonAssumption
<1>3. showID' \in [Players -> 0..MaxShow]
    BY <1>2 DEF ChangeChar, EnterWorld, TeleportOut, PlacesOK
<1>4. PlacesOK'
    BY <1>1, <1>3 DEF PlacesOK, ChangeChar, EnterWorld, TeleportOut
<1>5. InstancesOK' /\ ListedOK' /\ SlainOK'
    BY <1>1 DEF InstancesOK, ListedOK, Unslain, SlainOK
<1>6. TagsOK'
    BY <1>1 DEF TagsOK, PlacesOK, ChangeChar, EnterWorld, TeleportOut
<1>7. QED
    BY <1>4, <1>5, <1>6

\* A monster that is killed where nobody is told, or that is tamed, stays on the list; one that
\* is raised comes back on none.
LEMMA NobodyIsTold ==
    ASSUME DungeonInv, UNCHANGED <<instances, nextID, showID, playing, at, slain>>,
           alive' \cup dead' \subseteq alive \cup dead
    PROVE  DungeonInv'
<1>1. Unslain' \subseteq Unslain
    BY DEF Unslain
<1>2. QED
    BY <1>1 DEF DungeonInv, PlacesOK, InstancesOK, TagsOK, ListedOK, Lists, SlainOK

\* The death of a monster takes it off the list, and brings a round or ends the instance.
LEMMA KillKeeps ==
    ASSUME DungeonInv, NEW p \in Players, NEW m \in Counted(alive), Kill(p, m)
    PROVE  DungeonInv'
<1> USE DEF DungeonInv
<1> DEFINE i == m[1]
           rest == [instances[i] EXCEPT !.npcs = @ \ {m}]
           coming == IF rest.npcs = {} THEN NextRound(rest) ELSE {}
<1>1. /\ m \in alive /\ i \in DOMAIN instances /\ InstOK(i, instances[i]) /\ i \in Nat
      /\ m[2] \in instances[i].spawnedRounds
    <2>1. m \in alive /\ showID[p] = i
        BY DEF Counted, Kill
    <2>2. CASE m \in slain
        <3>1. i # 0
            BY <2>2 DEF SlainOK, PlacesOK
        <3>2. i \in DOMAIN instances
            BY <2>1, <3>1 DEF TagsOK
        <3>3. QED
            BY <2>1, <2>2, <3>2 DEF SlainOK, InstancesOK, PlacesOK
    <2>3. CASE m \notin slain
        <3>1. Lists(instances, m)
            BY <2>1, <2>3 DEF ListedOK, Unslain
        <3>2. QED
            BY <2>1, <3>1 DEF Lists, InstancesOK, PlacesOK, InstOK, ListsOK
    <2>4. QED
        BY <2>2, <2>3
<1>2. /\ rest \in Instance /\ rest.quest = instances[i].quest /\ rest.players = instances[i].players
      /\ rest.npcs = instances[i].npcs \ {m} /\ rest.auxNpcs = instances[i].auxNpcs
      /\ rest.spawnedRounds = instances[i].spawnedRounds /\ rest.age = instances[i].age
    BY <1>1 DEF InstOK, Instance
<1>3. /\ UNCHANGED <<nextID, playing>> /\ slain' = slain \cup {m}
      /\ \A a \in slain' : a[1] \in 1..nextID' - 1
    <2>1. UNCHANGED <<nextID, playing>> /\ slain' = slain \cup {m}
        BY DEF Kill
    <2>2. QED
        BY <1>1, <2>1 DEF SlainOK, PlacesOK
<1>4. CASE rest.npcs = {} /\ coming = {}
    <2> DEFINE C == {i}
               out == {}
               listed == CleanedUp(C) \ {m}
    <2>1. /\ instances' = Restrict(instances, DOMAIN instances \ C)
          /\ showID' = TagsAfter(C, out) /\ at' = PlacesAfter(C, out)
          /\ alive' = alive \ (listed \cup {m}) /\ dead' = (dead \ listed) \cup {m}
        BY <1>4 DEF Kill
    <2>2. C \in SUBSET DOMAIN instances /\ out \in SUBSET Players
        BY <1>1
    <2> HIDE DEF C, out
    <2>3. /\ showID' \in [Players -> 0..MaxShow]
          /\ \A q \in Players : showID'[q] # 0 =>
                 showID'[q] = showID[q] /\ showID[q] # 0 /\ q \notin out /\ showID[q] \notin C
        BY <2>1, <2>2, TagsAfterEnd
    <2>4. /\ DOMAIN instances' = DOMAIN instances \ C
          /\ \A j \in DOMAIN instances \ C : instances'[j] = instances[j]
        BY <2>1 DEF Restrict
    <2>5. Unslain' \subseteq Unslain \ CleanedUp(C)
        BY <1>3, <2>1 DEF Unslain
    <2>6. PlacesOK'
        BY <1>3, <2>1, <2>3, <2>4, PlacesAfterEnd DEF PlacesOK
    <2>7. InstancesOK'
        BY <2>4 DEF InstancesOK
    <2>8. TagsOK'
        BY <1>3, <2>3, <2>4 DEF TagsOK
    <2>9. ListedOK'
        <3> SUFFICES ASSUME NEW a \in Unslain'
                     PROVE  Lists(instances', a)
            BY DEF ListedOK
        <3>1. a \in Unslain \ CleanedUp(C)
            BY <2>5
        <3>2. a[1] \in DOMAIN instances \ C /\ a \in instances[a[1]].npcs \cup instances[a[1]].auxNpcs
            BY <2>2, <3>1, CleanedUpAll
        <3>3. QED
            BY <2>4, <3>2 DEF Lists
    <2>10. SlainOK'
        BY <1>3, <2>4 DEF SlainOK, C
    <2>11. QED
        BY <2>6, <2>7, <2>8, <2>9, <2>10
<1>5. CASE ~(rest.npcs = {} /\ coming = {})
    <2>1. PICK born \in SUBSET UNION {Monsters(i, rest.quest, r) : r \in coming} :
              /\ instances' = [instances EXCEPT ![i] = Grown(rest, coming, born)]
              /\ alive' = (alive \ {m}) \cup born /\ dead' = dead \cup {m}
              /\ UNCHANGED <<showID, at>>
        BY <1>5 DEF Kill
    <2>2. rest.quest \in Dungeon
        BY <1>2 DEF Instance
    <2>3. InstOK(i, rest)
        <3> HIDE DEF rest, i
        <3>1. QED
            BY <1>1, <1>2 DEF InstOK, ListsOK
    <2>4. coming \in SUBSET DOMAIN Def[rest.quest].rounds
        <3> HIDE DEF rest
        <3>1. NextRound(rest) \subseteq DOMAIN Def[rest.quest].rounds
            BY <2>2, NextRoundWaits DEF RoundsOn
        <3>2. QED
            BY <3>1
    <2>15. coming \cap rest.spawnedRounds = {}
        <3> HIDE DEF rest
        <3>1. NextRound(rest) \cap rest.spawnedRounds = {}
            BY <2>2, NextRoundWaits
        <3>2. QED
            BY <3>1
    <2>5. BornIn(i, rest.quest, coming, born)
        BY DEF BornIn
    <2> HIDE DEF coming, rest, i
    <2> DEFINE new == Grown(rest, coming, born)
    <2>6. /\ InstOK(i, new) /\ new.players = rest.players
          /\ new.npcs \cup new.auxNpcs = rest.npcs \cup rest.auxNpcs \cup born
        BY <1>1, <2>3, <2>4, <2>5, GrownFits
    <2>14. /\ new.npcs \subseteq rest.npcs \cup born
           /\ new.spawnedRounds = rest.spawnedRounds \cup coming
           /\ \A a \in born : a[1] = i /\ a[2] \in coming
        <3> HIDE DEF new
        <3> DEFINE grown == Grown(rest, coming, born)
        <3>1. grown.npcs \subseteq rest.npcs \cup born
            BY <2>3 DEF Grown, Counted, InstOK, Instance
        <3>2. grown.spawnedRounds = rest.spawnedRounds \cup coming
            BY <2>3 DEF Grown, InstOK, Instance
        <3>3. \A a \in born : a[1] = i /\ a[2] \in coming
            BY <1>1, <2>2, <2>4, <2>5, MonstersNamed DEF BornIn
        <3>4. QED
            BY <3>1, <3>2, <3>3 DEF new
    <2> HIDE DEF new
    <2>7. /\ DOMAIN instances' = DOMAIN instances /\ instances'[i] = new
          /\ \A j \in DOMAIN instances : j # i => instances'[j] = instances[j]
        BY <1>1, <2>1 DEF new
    <2>8. PlacesOK'
        BY <1>3, <2>1, <2>7 DEF PlacesOK
    <2>9. InstancesOK'
        BY <2>6, <2>7 DEF InstancesOK
    <2>10. TagsOK'
        BY <1>2, <1>3, <2>1, <2>6, <2>7 DEF TagsOK
    <2>11. ListedOK'
        <3> SUFFICES ASSUME NEW a \in Unslain'
                     PROVE  Lists(instances', a)
            BY DEF ListedOK
        <3>1. CASE a \in born
            BY <1>1, <2>6, <2>7, <2>14, <3>1 DEF Lists
        <3>2. CASE a \in Unslain \ {m}
            <4>1. a[1] \in DOMAIN instances /\ a \in instances[a[1]].npcs \cup instances[a[1]].auxNpcs
                BY <3>2 DEF ListedOK, Lists
            <4>2. CASE a[1] = i
                BY <1>2, <2>6, <2>7, <3>2, <4>1, <4>2 DEF Lists
            <4>3. CASE a[1] # i
                BY <2>7, <4>1, <4>3 DEF Lists
            <4>4. QED
                BY <4>2, <4>3
        <3>3. QED
            BY <1>3, <2>1, <3>1, <3>2 DEF Unslain
    <2>12. SlainOK'
        <3> SUFFICES ASSUME NEW a \in slain', a[1] \in DOMAIN instances'
                     PROVE  a[2] \in instances'[a[1]].spawnedRounds /\ a \notin instances'[a[1]].npcs
            BY <1>3 DEF SlainOK
        <3>1. CASE a[1] = i
            <4>1. a[2] \in rest.spawnedRounds /\ a \notin rest.npcs
                BY <1>1, <1>2, <1>3, <3>1 DEF SlainOK
            <4>2. QED
                BY <2>7, <2>14, <2>15, <3>1, <4>1
        <3>2. CASE a[1] # i
            BY <1>3, <2>7, <3>2 DEF SlainOK, i
        <3>3. QED
            BY <3>1, <3>2
    <2>13. QED
        BY <2>8, <2>9, <2>10, <2>11, <2>12
<1>6. QED
    BY <1>4, <1>5

\* A second passes in all instances: rounds come, and those that have expired end.
LEMMA UpdateKeeps ==
    ASSUME DungeonInv, Update
    PROVE  DungeonInv'
<1> USE DEF DungeonInv
<1> DEFINE C == Expired
           out == {}
           stays == DOMAIN instances \ C
<1>1. PICK born \in SUBSET UNION {UNION {Monsters(i, instances[i].quest, r) : r \in DueRounds(i)} :
                                    i \in stays} :
          /\ instances' = [i \in stays |->
                 [Grown(instances[i], DueRounds(i), {m \in born : m[1] = i})
                     EXCEPT !.age = Elapsed(i)]]
          /\ Unslain' \subseteq (Unslain \ CleanedUp(C)) \cup born
    BY DEF Update, Unslain
<1>2. /\ showID' = TagsAfter(C, out) /\ at' = PlacesAfter(C, out)
      /\ UNCHANGED <<nextID, playing, slain>>
    BY DEF Update
<1>3. C \in SUBSET DOMAIN instances /\ out \in SUBSET Players
    BY DEF Expired
<1>4. ASSUME NEW i \in stays
      PROVE  /\ InstOK(i, instances'[i])
             /\ instances'[i].players = instances[i].players
             /\ instances'[i].npcs \cup instances'[i].auxNpcs
                    = instances[i].npcs \cup instances[i].auxNpcs \cup {m \in born : m[1] = i}
             /\ instances[i].spawnedRounds \subseteq instances'[i].spawnedRounds
             /\ \A m \in instances'[i].npcs :
                   m \in instances[i].npcs \/ m[2] \notin instances[i].spawnedRounds
    <2> DEFINE inst == instances[i]
               rounds == DueRounds(i)
               mine == {m \in born : m[1] = i}
               grown == Grown(inst, rounds, mine)
               new == [grown EXCEPT !.age = Elapsed(i)]
    <2>1. i \in DOMAIN instances /\ i \in Nat /\ InstOK(i, inst) /\ inst.quest \in Dungeon
        BY DEF InstancesOK, PlacesOK, InstOK, Instance
    <2>2. \A j \in stays : j \in Nat /\ instances[j].quest \in Dungeon
        BY DEF InstancesOK, PlacesOK, InstOK, Instance
    <2>3. \A j \in stays : DueRounds(j) \subseteq DOMAIN Def[instances[j].quest].rounds
        BY DEF DueRounds, RoundsOn
    <2>4. BornIn(i, inst.quest, rounds, mine)
        <3> SUFFICES ASSUME NEW m \in born, m[1] = i
                     PROVE  \E r \in rounds : m \in Monsters(i, inst.quest, r)
            BY DEF BornIn
        <3>1. PICK j \in stays : \E r \in DueRounds(j) : m \in Monsters(j, instances[j].quest, r)
            BY <1>1
        <3>2. PICK r \in DueRounds(j) : m \in Monsters(j, instances[j].quest, r)
            BY <3>1
        <3>3. m[1] = j
            BY <2>2, <2>3, <3>2, MonstersNamed
        <3>4. QED
            BY <3>2, <3>3
    <2>5. instances'[i] = new
        BY <1>1
    <2>6. inst.age \in Nat /\ Def[inst.quest].limit \in Nat /\ Elapsed(i) < Def[inst.quest].limit
        BY <2>1, DungeonAssumption DEF InstOK, Instance, Elapsed, Expired
    <2> HIDE DEF rounds, mine, inst
    <2>7. /\ InstOK(i, grown) /\ grown.quest = inst.quest /\ grown.players = inst.players
          /\ grown.npcs \cup grown.auxNpcs = inst.npcs \cup inst.auxNpcs \cup mine
        BY <2>1, <2>3, <2>4, GrownFits DEF inst, rounds
    <2>13. /\ grown.npcs \subseteq inst.npcs \cup mine
           /\ grown.spawnedRounds = inst.spawnedRounds \cup rounds
           /\ \A m \in mine : m[2] \in rounds
        <3>1. rounds \in SUBSET DOMAIN Def[inst.quest].rounds
            BY <2>3 DEF inst, rounds
        <3>2. grown.npcs \subseteq inst.npcs \cup mine
            BY <2>1 DEF Grown, Counted, InstOK, Instance
        <3>3. grown.spawnedRounds = inst.spawnedRounds \cup rounds
            BY <2>1 DEF Grown, InstOK, Instance
        <3>4. \A m \in mine : m[2] \in rounds
            <4>1. inst.quest \in Dungeon
                BY <2>1 DEF inst
            <4>2. QED
                BY <2>1, <2>4, <3>1, <4>1, MonstersNamed DEF BornIn
        <3>5. QED
            BY <3>2, <3>3, <3>4
    <2>12. rounds \cap inst.spawnedRounds = {}
        BY DEF rounds, inst, DueRounds
    <2>8. Elapsed(i) \in 0..Def[inst.quest].limit - 1 /\ Elapsed(i) \in Nat
        BY <2>6 DEF inst, Elapsed
    <2> HIDE DEF grown
    <2>9. /\ new \in Instance /\ new.quest = grown.quest /\ new.players = grown.players
          /\ new.npcs = grown.npcs /\ new.auxNpcs = grown.auxNpcs
          /\ new.spawnedRounds = grown.spawnedRounds /\ new.age = Elapsed(i)
        BY <2>7, <2>8 DEF InstOK, Instance
    <2> HIDE DEF new
    <2>10. InstOK(i, new)
        BY <2>7, <2>8, <2>9 DEF InstOK, ListsOK
    <2>11. QED
        BY <2>5, <2>7, <2>9, <2>10, <2>12, <2>13 DEF inst, mine
<1>5. DOMAIN instances' = stays
    BY <1>1
<1> HIDE DEF C, out
<1>6. /\ showID' \in [Players -> 0..MaxShow]
      /\ \A q \in Players : showID'[q] # 0 =>
             showID'[q] = showID[q] /\ showID[q] # 0 /\ showID[q] \notin C
    BY <1>2, <1>3, TagsAfterEnd
<1>7. PlacesOK'
    BY <1>2, <1>5, <1>6, PlacesAfterEnd DEF PlacesOK
<1>8. InstancesOK'
    BY <1>4, <1>5 DEF InstancesOK
<1>9. TagsOK'
    BY <1>2, <1>4, <1>5, <1>6 DEF TagsOK
<1>10. ListedOK'
    <2> SUFFICES ASSUME NEW a \in Unslain'
                 PROVE  Lists(instances', a)
        BY DEF ListedOK
    <2>1. CASE a \in Unslain \ CleanedUp(C)
        <3>1. a[1] \in stays /\ a \in instances[a[1]].npcs \cup instances[a[1]].auxNpcs
            BY <1>3, <2>1, CleanedUpAll
        <3>2. QED
            BY <1>4, <1>5, <3>1 DEF Lists
    <2>2. CASE a \in born
        <3>1. PICK j \in stays : \E r \in DueRounds(j) : a \in Monsters(j, instances[j].quest, r)
            BY <1>1, <2>2
        <3>2. PICK r \in DueRounds(j) : a \in Monsters(j, instances[j].quest, r)
            BY <3>1
        <3>3. j \in Nat /\ instances[j].quest \in Dungeon /\ r \in DOMAIN Def[instances[j].quest].rounds
            BY DEF InstancesOK, PlacesOK, InstOK, Instance, DueRounds, RoundsOn
        <3>4. a[1] = j
            BY <3>2, <3>3, MonstersNamed
        <3>5. QED
            BY <1>4, <1>5, <2>2, <3>4 DEF Lists
    <2>3. QED
        BY <1>1, <2>1, <2>2
<1>11. SlainOK'
    BY <1>2, <1>4, <1>5 DEF SlainOK
<1>12. QED
    BY <1>7, <1>8, <1>9, <1>10, <1>11

LEMMA DungeonInvNext ==
    ASSUME DungeonInv, [DungeonNext]_dungeonVars
    PROVE  DungeonInv'
<1>1. CASE UNCHANGED dungeonVars
    BY <1>1, NobodyIsTold DEF dungeonVars
<1>2. CASE Update
    BY <1>2, UpdateKeeps
<1>3. ASSUME NEW p \in Players, NEW d \in Dungeon, Enter(p, d)
      PROVE  DungeonInv'
    BY <1>3, EnterKeeps
<1>4. ASSUME NEW p \in Players, NEW m \in Counted(alive), Kill(p, m)
      PROVE  DungeonInv'
    BY <1>4, KillKeeps
<1>5. ASSUME NEW p \in Players, NEW m \in Counted(alive), Tame(p, m)
      PROVE  DungeonInv'
    BY <1>5, NobodyIsTold DEF Tame
<1>6. ASSUME NEW p \in Players, Exit(p) \/ Disconnect(p)
      PROVE  DungeonInv'
    BY <1>6, DepartureKeeps DEF Exit, Disconnect
<1>7. ASSUME NEW p \in Players, ChangeChar(p) \/ EnterWorld(p) \/ TeleportOut(p)
      PROVE  DungeonInv'
    BY <1>7, ComingAndGoing
<1>8. ASSUME NEW m \in alive, KillUnnoticed(m)
      PROVE  DungeonInv'
    BY <1>8, NobodyIsTold DEF KillUnnoticed
<1>9. ASSUME NEW p \in Players, NEW m \in dead, RaiseFallen(p, m)
      PROVE  DungeonInv'
    BY <1>9, NobodyIsTold DEF RaiseFallen
<1>10. QED
    BY <1>1, <1>2, <1>3, <1>4, <1>5, <1>6, <1>7, <1>8, <1>9 DEF DungeonNext, DungeonStep

LEMMA DungeonInvAgrees ==
    DungeonInv => DungeonTypeOK /\ InstancesAgree
<1>1. DungeonInv => DungeonTypeOK
    BY DEF DungeonInv, PlacesOK, InstancesOK, InstOK, Instance, ListsOK, DungeonTypeOK
<1>2. ASSUME DungeonInv
      PROVE  InstancesAgree
    <2>1. /\ \A p \in playing : showID[p] # 0 =>
                showID[p] \in DOMAIN instances /\ p \in instances[showID[p]].players
          /\ \A m \in Unslain : Lists(instances, m)
        BY <1>2 DEF DungeonInv, PlacesOK, TagsOK, ListedOK
    <2>2. ASSUME NEW i \in DOMAIN instances, NEW m \in instances[i].npcs \cap slain
          PROVE  FALSE
        <3>1. m[1] = i
            BY <1>2, <2>2 DEF DungeonInv, InstancesOK, InstOK, ListsOK
        <3>2. QED
            BY <1>2, <2>2, <3>1 DEF DungeonInv, SlainOK
    <2>3. QED
        BY <2>1, <2>2 DEF InstancesAgree, Unslain, Lists
<1>3. QED
    BY <1>1, <1>2

\* A player's tag is of an instance that runs and lists him; every monster of a dungeon that
\* never fell in a fight is listed by the instance it belongs to, and no round waits for one
\* that fell, whoever raises it, for any dungeons and rounds.
THEOREM InstancesAlwaysAgree == DungeonSpec => [](DungeonTypeOK /\ InstancesAgree)
<1>1. QED
    BY DungeonInvInit, DungeonInvNext, DungeonInvAgrees, PTL DEF DungeonSpec

-----------------------------------------------------------------------------
(* Companions.  Charisma is asked for when a pet or a creature comes and   *)
(* never again, so the invariant counts the pets it was asked for and the  *)
(* prices of the creatures; what pets wear, whose place they have in the   *)
(* match and which collar is whose go along.                               *)

\* A pet; a weapon is no armour.
Pet == [owner : Owner, collar : 1..MaxCollars, grade : 0..2, dead : BOOLEAN, place : 0..2,
        paid : BOOLEAN, items : SUBSET Gear, weapon : (Gear \ Armour) \cup {0},
        armour : Armour \cup {0}, add : Int, ac : Int]
Slot == [status : {"none", "ready1", "playing"}, pc : [{1, 2} -> Owner \cup {NoChar}], clock : Nat]

Worth(g) == IF g = 0 THEN 0 ELSE Bonus[g]

\* What a pet wears it carries, and its statistics are raised by just that.
Fitted(pet) ==
    /\ pet \in Pet /\ {pet.weapon, pet.armour} \ {0} \subseteq pet.items
    /\ pet.add = Worth(pet.weapon) + Worth(pet.armour)

\* The pets ps, when n collars have been made: each fitted and of a collar that was made, none
\* of its master's of the same collar or in the same place of a match, none with what another has.
HerdOK(ps, n) ==
    /\ DOMAIN ps \subseteq PetId
    /\ \A p \in DOMAIN ps : Fitted(ps[p]) /\ ps[p].collar <= n
    /\ \A p, q \in DOMAIN ps :
        p # q => /\ ~(ps[p].owner = ps[q].owner /\ ps[p].collar = ps[q].collar)
                 /\ ~(ps[p].place # 0 /\ ps[p].place = ps[q].place)
                 /\ ps[p].items \cap ps[q].items = {}

\* What players carry nobody else has.
BagsOK(ps, bag) ==
    /\ bag \in [Owner -> SUBSET Gear]
    /\ \A p \in DOMAIN ps, o \in Owner : ps[p].items \cap bag[o] = {}
    /\ \A o, q \in Owner : o # q => bag[o] \cap bag[q] = {}

\* The pets charisma was asked for, and what creatures cost.
Charged(ps, o) == {p \in DOMAIN ps : ps[p].owner = o /\ ps[p].paid}
Prices(s) == [k \in Origin |-> s[k] * PetCost(k)]
Cost(s) == SumFunctionOnSet(Prices(s), Origin)

\* A player's companions cost no more than he has charisma for, and who has an elemental has
\* nothing else that costs any.
CharismaOK(ps, s) ==
    /\ s \in [Owner -> [Origin -> Nat]]
    /\ \A o \in Owner :
        /\ \E x \in {7, TameBonus[o], SpellBonus[o]} :
              6 * Cardinality(Charged(ps, o)) + Cost(s[o]) <= Charisma + x
        /\ s[o]["elemental"] > 0 =>
              /\ Charged(ps, o) = {} /\ s[o]["elemental"] = 1
              /\ \A k \in Origin \ {"elemental"} : s[o][k] = 0

\* The slot of the match, and the pets that stand for its players.
SlotOK(m) ==
    /\ m \in Slot
    /\ m.pc[1] # NoChar => m.pc[1] # m.pc[2]
    /\ m.status = "none" => m = NoMatch
Follows(ps, m) == \A p \in DOMAIN ps : ps[p].place # 0 => ps[p].owner = m.pc[ps[p].place]

RowsOK(h, r) ==
    /\ h \in Seq(Owner \cup {NoChar}) /\ r \in Seq({NoRow, 0, 1, 2})
    /\ Len(r) = Len(h) /\ Len(r) <= MaxCollars

PlayersOK == masters \subseteq Owner /\ inArena \subseteq Owner /\ priests \subseteq Owner

CompanionsInv ==
    /\ PlayersOK /\ RowsOK(holder, row) /\ HerdOK(pets, Len(row)) /\ BagsOK(pets, petBag)
    /\ CharismaOK(pets, summons) /\ SlotOK(match) /\ Follows(pets, match)
-----------------------------------------------------------------------------
LEMMA NewInv ==
    ASSUME PlayersOK', RowsOK(holder', row'), HerdOK(pets', Len(row')), BagsOK(pets', petBag'),
           CharismaOK(pets', summons'), SlotOK(match'), Follows(pets', match')
    PROVE  CompanionsInv'
BY DEF CompanionsInv, PlayersOK, RowsOK, HerdOK, BagsOK, CharismaOK, SlotOK, Follows

\* The pets qs are of the pets ps; some may be dead, or have no place in the match any more.
Lessens(qs, ps) ==
    /\ DOMAIN qs \subseteq DOMAIN ps
    /\ \A p \in DOMAIN qs :
        /\ Fitted(qs[p])
        /\ qs[p].owner = ps[p].owner /\ qs[p].collar = ps[p].collar /\ qs[p].paid = ps[p].paid
        /\ qs[p].items = ps[p].items /\ qs[p].place \in {0, ps[p].place}

LEMMA LessensTwice ==
    ASSUME NEW ps, NEW qs, NEW rs, Lessens(rs, qs), Lessens(qs, ps)
    PROVE  Lessens(rs, ps)
BY DEF Lessens

LEMMA HerdLess ==
    ASSUME NEW ps, NEW qs, NEW n, HerdOK(ps, n), Lessens(qs, ps)
    PROVE  HerdOK(qs, n)
<1>1. DOMAIN qs \subseteq PetId
    BY DEF HerdOK, Lessens
<1>2. \A p \in DOMAIN qs : Fitted(qs[p]) /\ qs[p].collar <= n
    BY DEF HerdOK, Lessens
<1>3. ASSUME NEW p \in DOMAIN qs, NEW q \in DOMAIN qs, p # q
      PROVE  /\ ~(qs[p].owner = qs[q].owner /\ qs[p].collar = qs[q].collar)
             /\ ~(qs[p].place # 0 /\ qs[p].place = qs[q].place)
             /\ qs[p].items \cap qs[q].items = {}
    BY <1>3 DEF HerdOK, Lessens
<1>4. QED
    BY <1>1, <1>2, <1>3 DEF HerdOK

LEMMA BagsLess ==
    ASSUME NEW ps, NEW qs, NEW bag, BagsOK(ps, bag), Lessens(qs, ps)
    PROVE  BagsOK(qs, bag)
BY DEF BagsOK, Lessens

LEMMA FollowsLess ==
    ASSUME NEW ps, NEW qs, NEW m, Follows(ps, m), Lessens(qs, ps)
    PROVE  Follows(qs, m)
BY DEF Follows, Lessens

LEMMA PaidIsFinite ==
    ASSUME NEW ps, DOMAIN ps \subseteq PetId, NEW o
    PROVE  IsFiniteSet(Charged(ps, o)) /\ Cardinality(Charged(ps, o)) \in Nat
<1>1. IsFiniteSet(PetId)
    BY FS_Interval, CompanionAssumption DEF PetId
<1>2. QED
    BY <1>1, FS_Subset, FS_CardinalityType DEF Charged
-----------------------------------------------------------------------------
LEMMA PricesFit ==
    ASSUME NEW s \in [Origin -> Nat]
    PROVE  /\ \A k \in Origin : PetCost(k) \in Nat \ {0}
           /\ \A k \in Origin : Prices(s)[k] \in Nat /\ Prices(s)[k] = s[k] * PetCost(k)
           /\ Origin \in FiniteSubsetsOf(Origin) /\ IsFiniteSet(Origin)
           /\ Cost(s) \in Nat
<1>1. \A k \in Origin : PetCost(k) \in Nat \ {0}
    BY CompanionAssumption DEF PetCost, Origin
<1>3. \A k \in Origin : Prices(s)[k] \in Nat /\ Prices(s)[k] = s[k] * PetCost(k)
    BY <1>1 DEF Prices
<1>4. IsFiniteSet(Origin)
  <2>1. IsFiniteSet({"level"})
      BY FS_Singleton
  <2>2. IsFiniteSet({"level"} \cup {"ring"})
      BY <2>1, FS_AddElement
  <2>3. IsFiniteSet(({"level"} \cup {"ring"}) \cup {"special"})
      BY <2>2, FS_AddElement
  <2>4. IsFiniteSet((({"level"} \cup {"ring"}) \cup {"special"}) \cup {"elemental"})
      BY <2>3, FS_AddElement
  <2>5. IsFiniteSet(((({"level"} \cup {"ring"}) \cup {"special"}) \cup {"elemental"}) \cup {"tamed"})
      BY <2>4, FS_AddElement
  <2>6. Origin = ((({"level"} \cup {"ring"}) \cup {"special"}) \cup {"elemental"}) \cup {"tamed"}
      BY DEF Origin
  <2>7. QED
      BY <2>5, <2>6
<1>5. Origin \in FiniteSubsetsOf(Origin)
    BY <1>4 DEF FiniteSubsetsOf
<1>6. Cost(s) \in Nat
    BY <1>3, <1>5, SumNat DEF Cost
<1>7. QED
    BY <1>1, <1>3, <1>4, <1>5, <1>6

\* Fewer creatures cost less.
LEMMA CostLess ==
    ASSUME NEW s \in [Origin -> Nat], NEW r \in [Origin -> Nat], \A k \in Origin : r[k] <= s[k]
    PROVE  Cost(r) <= Cost(s)
<1>1. ASSUME NEW k \in Origin
      PROVE  /\ Prices(r)[k] \in Int /\ Prices(s)[k] \in Int
             /\ Prices(r)[k] <= Prices(s)[k]
    <2>1. PetCost(k) \in Nat /\ r[k] \in Nat /\ s[k] \in Nat
        BY PricesFit
    <2>2. \A a, b, c \in Nat : a <= b => a * c <= b * c
        OBVIOUS
    <2>3. QED
        BY <2>1, <2>2, PricesFit
<1>2. QED
    BY <1>1, PricesFit, SumLess DEF Cost

LEMMA CostMore ==
    ASSUME NEW s \in [Origin -> Nat], NEW k \in Origin, NEW d \in Nat
    PROVE  /\ [s EXCEPT ![k] = @ + d] \in [Origin -> Nat]
           /\ Cost([s EXCEPT ![k] = @ + d]) = Cost(s) + d * PetCost(k)
<1> DEFINE r == [s EXCEPT ![k] = @ + d]
           D == Origin \ {k}
<1>1. r \in [Origin -> Nat] /\ r[k] = s[k] + d /\ \A j \in D : r[j] = s[j]
    OBVIOUS
<1>2. D \in FiniteSubsetsOf(D)
    BY PricesFit, FS_RemoveElement DEF FiniteSubsetsOf
<1> HIDE DEF r
<1>3. SumFunctionOnSet(Prices(r), D) = SumFunctionOnSet(Prices(s), D)
    <2>1. \A j \in D : Prices(r)[j] = Prices(s)[j]
        BY <1>1, PricesFit
    <2> HIDE DEF D
    <2>2. QED
        BY <1>2, <2>1, SumEqual
<1>4. /\ Cost(s) = Prices(s)[k] + SumFunctionOnSet(Prices(s), D)
      /\ SumFunctionOnSet(Prices(s), D) \in Int
    BY PricesFit, SumWithout DEF Cost
<1>5. Cost(r) = Prices(r)[k] + SumFunctionOnSet(Prices(r), D)
    BY <1>1, PricesFit, SumWithout DEF Cost
<1>6. Prices(r)[k] = Prices(s)[k] + d * PetCost(k)
    <2>1. PetCost(k) \in Nat /\ s[k] \in Nat
        BY PricesFit
    <2>2. \A a, b, c \in Nat : (a + b) * c = a * c + b * c
        OBVIOUS
    <2>3. QED
        BY <1>1, <2>1, <2>2, PricesFit
<1>7. d * PetCost(k) \in Nat
    BY PricesFit
<1>8. QED
    BY <1>1, <1>3, <1>4, <1>5, <1>6, <1>7, PricesFit DEF r

\* An elemental alone, and nothing at all.
LEMMA CostOfNone ==
    /\ NoSummons \in [Origin -> Nat] /\ Cost(NoSummons) = 0
    /\ \A s \in [Origin -> Nat] :
        s["elemental"] = 1 /\ (\A k \in Origin \ {"elemental"} : s[k] = 0) => Cost(s) = Charisma + 7
<1>1. NoSummons \in [Origin -> Nat] /\ \A k \in Origin : NoSummons[k] = 0
    BY DEF NoSummons
<1>2. \A k \in Origin : Prices(NoSummons)[k] = 0
    <2>1. \A c \in Nat : 0 * c = 0
        OBVIOUS
    <2>2. QED
        BY <1>1, <2>1, PricesFit
<1>3. Cost(NoSummons) = 0
    BY <1>1, <1>2, PricesFit, SumOfZeros DEF Cost
<1>4. ASSUME NEW s \in [Origin -> Nat], s["elemental"] = 1,
             \A k \in Origin \ {"elemental"} : s[k] = 0
      PROVE  Cost(s) = Charisma + 7
    <2>1. s = [NoSummons EXCEPT !["elemental"] = @ + 1]
        BY <1>1, <1>4
    <2>2. "elemental" \in Origin /\ PetCost("elemental") = Charisma + 7 /\ Charisma \in Nat
        BY CompanionAssumption DEF Origin, PetCost
    <2>3. Cost(s) = Cost(NoSummons) + 1 * PetCost("elemental")
        BY <1>1, <2>1, <2>2, CostMore
    <2>4. QED
        BY <1>3, <2>2, <2>3
<1>5. QED
    BY <1>1, <1>3, <1>4
-----------------------------------------------------------------------------
\* With fewer pets and fewer creatures.
LEMMA CharismaLess ==
    ASSUME NEW ps, NEW qs, NEW n, HerdOK(ps, n), Lessens(qs, ps),
           NEW s, NEW r \in [Owner -> [Origin -> Nat]], CharismaOK(ps, s),
           \A o \in Owner, k \in Origin : r[o][k] <= s[o][k]
    PROVE  CharismaOK(qs, r)
<1> SUFFICES ASSUME NEW o \in Owner
             PROVE  /\ \E x \in {7, TameBonus[o], SpellBonus[o]} :
                          6 * Cardinality(Charged(qs, o)) + Cost(r[o]) <= Charisma + x
                    /\ r[o]["elemental"] > 0 =>
                          /\ Charged(qs, o) = {} /\ r[o]["elemental"] = 1
                          /\ \A k \in Origin \ {"elemental"} : r[o][k] = 0
    BY DEF CharismaOK
<1>1. Charged(qs, o) \subseteq Charged(ps, o)
    BY DEF Lessens, Charged
<1>2. /\ IsFiniteSet(Charged(ps, o)) /\ Cardinality(Charged(ps, o)) \in Nat
      /\ Cardinality(Charged(qs, o)) \in Nat
    BY PaidIsFinite DEF HerdOK, Lessens
<1>3. Cardinality(Charged(qs, o)) <= Cardinality(Charged(ps, o))
    BY <1>1, <1>2, FS_Subset
<1>4. s[o] \in [Origin -> Nat] /\ r[o] \in [Origin -> Nat]
    BY DEF CharismaOK
<1>5. Cost(r[o]) <= Cost(s[o]) /\ Cost(r[o]) \in Nat /\ Cost(s[o]) \in Nat
    BY <1>4, CostLess, PricesFit
<1>6. PICK x \in {7, TameBonus[o], SpellBonus[o]} :
            6 * Cardinality(Charged(ps, o)) + Cost(s[o]) <= Charisma + x
    BY DEF CharismaOK
<1>7. x \in Nat /\ Charisma \in Nat
    BY CompanionAssumption
<1>8. 6 * Cardinality(Charged(qs, o)) + Cost(r[o]) <= Charisma + x
    BY <1>2, <1>3, <1>5, <1>6, <1>7
<1>9. ASSUME r[o]["elemental"] > 0
      PROVE  /\ Charged(qs, o) = {} /\ r[o]["elemental"] = 1
             /\ \A k \in Origin \ {"elemental"} : r[o][k] = 0
    <2>1. r[o]["elemental"] <= s[o]["elemental"] /\ "elemental" \in Origin
        BY DEF Origin
    <2>2. /\ Charged(ps, o) = {} /\ s[o]["elemental"] = 1
          /\ \A k \in Origin \ {"elemental"} : s[o][k] = 0
        BY <1>4, <1>9, <2>1 DEF CharismaOK
    <2>3. \A k \in Origin : r[o][k] <= s[o][k] /\ r[o][k] \in Nat
        BY <1>4
    <2>4. QED
        BY <1>1, <1>9, <2>1, <2>2, <2>3
<1>10. QED
    BY <1>8, <1>9

\* What the code computes, and the cost charisma was asked for.
LEMMA UsedIsMore ==
    ASSUME CompanionsInv, NEW o \in Owner
    PROVE  LET unpaid == {p \in PetsOf(o) : ~pets[p].paid}
           IN  /\ Cardinality(unpaid) \in Nat /\ Cardinality(Charged(pets, o)) \in Nat
               /\ Cost(summons[o]) \in Nat
               /\ UsedPetCost(o)
                    = 6 * Cardinality(Charged(pets, o)) + Cost(summons[o]) + 6 * Cardinality(unpaid)
<1> DEFINE unpaid == {p \in PetsOf(o) : ~pets[p].paid}
<1>1. PetsOf(o) = Charged(pets, o) \cup unpaid /\ Charged(pets, o) \cap unpaid = {}
    BY DEF PetsOf, Charged
<1>2. IsFiniteSet(PetsOf(o))
  <2>1. IsFiniteSet(PetId)
      BY FS_Interval, CompanionAssumption DEF PetId
  <2>2. PetsOf(o) \subseteq PetId
      BY DEF CompanionsInv, HerdOK, PetsOf
  <2>3. QED
      BY <2>1, <2>2, FS_Subset
<1>3. IsFiniteSet(unpaid) /\ IsFiniteSet(Charged(pets, o))
    BY <1>1, <1>2, FS_Subset
<1>4. Cardinality(unpaid) \in Nat /\ Cardinality(Charged(pets, o)) \in Nat
    BY <1>3, FS_CardinalityType
<1>5. Cardinality(PetsOf(o)) = Cardinality(Charged(pets, o)) + Cardinality(unpaid)
  <2> HIDE DEF unpaid
  <2>1. Cardinality(Charged(pets, o) \cap unpaid) = 0
      BY <1>1, FS_EmptySet
  <2>2. Cardinality(Charged(pets, o) \cup unpaid)
          = Cardinality(Charged(pets, o)) + Cardinality(unpaid) - Cardinality(Charged(pets, o) \cap unpaid)
      BY <1>3, FS_Union
  <2>3. QED
      BY <1>1, <1>4, <2>1, <2>2
<1>6. Cost(summons[o]) \in Nat
    BY PricesFit DEF CompanionsInv, CharismaOK
<1>7. UsedPetCost(o) = 6 * Cardinality(PetsOf(o)) + Cost(summons[o])
    BY DEF UsedPetCost, Cost, Prices
<1> HIDE DEF unpaid
<1>8. 6 * (Cardinality(Charged(pets, o)) + Cardinality(unpaid)) + Cost(summons[o])
        = 6 * Cardinality(Charged(pets, o)) + Cost(summons[o]) + 6 * Cardinality(unpaid)
    BY <1>4, <1>6
<1>9. QED
    BY <1>4, <1>5, <1>6, <1>7, <1>8 DEF unpaid

\* A pet may be called, and has been: one more, and the others as they were.
MayCall(ps, n, o, c, grade, k) ==
    /\ n \in 1..MaxCollars /\ HerdOK(ps, n) /\ PetId \ DOMAIN ps # {}
    /\ o \in Owner /\ c \in 1..n /\ grade \in 0..2 /\ k \in 0..2
    /\ \A q \in DOMAIN ps : ~(ps[q].owner = o /\ ps[q].collar = c) /\ (k = 0 \/ ps[q].place # k)
IsMore(qs, ps, o, k) ==
    \E p \in PetId \ DOMAIN ps :
        /\ DOMAIN qs = DOMAIN ps \cup {p} /\ \A q \in DOMAIN ps : qs[q] = ps[q]
        /\ qs[p].owner = o /\ qs[p].place = k /\ (k # 0 => ~qs[p].paid) /\ qs[p].items = {}

\* A pet more, and d creatures more.
LEMMA CharismaMorePets ==
    ASSUME CompanionsInv, NEW o \in Owner, NEW qs, NEW x \in {7, TameBonus[o], SpellBonus[o]},
           IsMore(qs, pets, o, 0), Charisma + x - UsedPetCost(o) >= 6
    PROVE  CharismaOK(qs, summons)
<1> PICK p \in PetId \ DOMAIN pets :
        /\ DOMAIN qs = DOMAIN pets \cup {p} /\ \A q \in DOMAIN pets : qs[q] = pets[q]
        /\ qs[p].owner = o
    BY DEF IsMore
<1> SUFFICES ASSUME NEW w \in Owner
             PROVE  /\ \E y \in {7, TameBonus[w], SpellBonus[w]} :
                          6 * Cardinality(Charged(qs, w)) + Cost(summons[w]) <= Charisma + y
                    /\ summons[w]["elemental"] > 0 =>
                          /\ Charged(qs, w) = {} /\ summons[w]["elemental"] = 1
                          /\ \A k \in Origin \ {"elemental"} : summons[w][k] = 0
    BY DEF CharismaOK, CompanionsInv
<1>1. CASE w # o \/ ~qs[p].paid
    <2>1. Charged(qs, w) = Charged(pets, w)
        BY <1>1 DEF Charged
    <2>2. QED
        BY <2>1 DEF CharismaOK, CompanionsInv
<1>2. CASE w = o /\ qs[p].paid
  <2>1. Charged(qs, o) = Charged(pets, o) \cup {p} /\ p \notin Charged(pets, o)
      BY <1>2 DEF Charged
  <2>2. IsFiniteSet(Charged(pets, o)) /\ Cardinality(Charged(pets, o)) \in Nat
      BY PaidIsFinite DEF CompanionsInv, HerdOK
  <2>3. Cardinality(Charged(qs, o)) = Cardinality(Charged(pets, o)) + 1
      BY <2>1, <2>2, FS_AddElement
  <2>4. x \in Nat /\ x <= 12 /\ Charisma \in Nat
      BY CompanionAssumption
  <2>5. PICK u \in Nat : UsedPetCost(o) = 6 * Cardinality(Charged(pets, o)) + Cost(summons[o]) + 6 * u
      BY UsedIsMore
  <2>6. Cost(summons[o]) \in Nat
      BY UsedIsMore
  <2>7. Charisma + x - UsedPetCost(o) >= 6
      BY <1>2
  <2>8. 6 * Cardinality(Charged(qs, o)) + Cost(summons[o]) <= Charisma + x
      BY <2>2, <2>3, <2>4, <2>5, <2>6, <2>7
  <2>9. ~(summons[o]["elemental"] > 0)
    <3> SUFFICES ASSUME summons[o]["elemental"] > 0
                 PROVE  FALSE
        OBVIOUS
    <3>1. Cost(summons[o]) = Charisma + 7
        BY CostOfNone DEF CompanionsInv, CharismaOK
    <3>2. QED
        BY <2>2, <2>4, <2>5, <2>7, <3>1
  <2>10. QED
      BY <1>2, <2>8, <2>9
<1>3. QED
    BY <1>1, <1>2

LEMMA CharismaMoreCreatures ==
    ASSUME CompanionsInv, NEW o \in Owner, NEW x \in {7, TameBonus[o], SpellBonus[o], 6},
           NEW k \in Origin, NEW d \in Nat, k # "elemental",
           Charisma + x - UsedPetCost(o) >= d * PetCost(k),
           Charisma + x - UsedPetCost(o) >= 6 \/ (x = 6 /\ Charisma + x - UsedPetCost(o) >= 0)
    PROVE  CharismaOK(pets, [summons EXCEPT ![o][k] = @ + d])
<1> DEFINE r == [summons EXCEPT ![o][k] = @ + d]
<1>1. summons \in [Owner -> [Origin -> Nat]]
    BY DEF CompanionsInv, CharismaOK
<1>2. /\ r \in [Owner -> [Origin -> Nat]]
      /\ r[o] = [summons[o] EXCEPT ![k] = @ + d]
      /\ \A w \in Owner \ {o} : r[w] = summons[w]
    BY <1>1
<1>3. Cost(r[o]) = Cost(summons[o]) + d * PetCost(k) /\ summons[o] \in [Origin -> Nat]
    BY <1>1, <1>2, CostMore
<1>4. d * PetCost(k) \in Nat
    BY PricesFit, <1>3
<1>5. PICK u \in Nat : UsedPetCost(o) = 6 * Cardinality(Charged(pets, o)) + Cost(summons[o]) + 6 * u
    BY UsedIsMore
<1>6. Cost(summons[o]) \in Nat /\ Cardinality(Charged(pets, o)) \in Nat
    BY UsedIsMore
<1>7. x \in Nat /\ x <= 12 /\ Charisma \in Nat
    BY CompanionAssumption
<1>8. 6 * Cardinality(Charged(pets, o)) + Cost(r[o]) <= Charisma + x
  <2> DEFINE e == d * PetCost(k)
  <2>1. Charisma + x - UsedPetCost(o) >= e /\ Cost(r[o]) = Cost(summons[o]) + e /\ e \in Nat
      BY <1>3, <1>4
  <2> HIDE DEF e, r
  <2>2. QED
      BY <1>5, <1>6, <1>7, <2>1
<1>9. \E y \in {7, TameBonus[o], SpellBonus[o]} : 6 * Cardinality(Charged(pets, o)) + Cost(r[o]) <= Charisma + y
  <2>1. CASE x = 6
    <3>1. Cost(r[o]) \in Nat
        BY <1>3, <1>4, <1>6
    <3> HIDE DEF r
    <3>2. QED
        BY <1>6, <1>7, <1>8, <2>1, <3>1
  <2>2. CASE x # 6
      BY <1>8, <2>2
  <2>3. QED
      BY <2>1, <2>2
<1>10. ~(summons[o]["elemental"] > 0)
  <2> SUFFICES ASSUME summons[o]["elemental"] > 0
               PROVE  FALSE
      OBVIOUS
  <2>1. Cost(summons[o]) = Charisma + 7
      BY CostOfNone DEF CompanionsInv, CharismaOK
  <2>2. QED
      BY <1>5, <1>6, <1>7, <2>1
<1>11. r[o]["elemental"] = summons[o]["elemental"]
    BY <1>2, <1>3
<1>12. ASSUME NEW w \in Owner
       PROVE  /\ \E y \in {7, TameBonus[w], SpellBonus[w]} :
                    6 * Cardinality(Charged(pets, w)) + Cost(r[w]) <= Charisma + y
              /\ r[w]["elemental"] > 0 =>
                    /\ Charged(pets, w) = {} /\ r[w]["elemental"] = 1
                    /\ \A j \in Origin \ {"elemental"} : r[w][j] = 0
  <2> HIDE DEF r
  <2>1. CASE w = o
      BY <1>9, <1>10, <1>11, <2>1
  <2>2. CASE w # o
      BY <1>2, <2>2 DEF CompanionsInv, CharismaOK
  <2>3. QED
      BY <2>1, <2>2
<1> HIDE DEF r
<1>13. CharismaOK(pets, r)
    BY <1>2, <1>12 DEF CharismaOK
<1>14. QED
    BY <1>13 DEF r

\* One's pets are the same in number and owner.
LEMMA CharismaSame ==
    ASSUME NEW ps, NEW qs, NEW s, CharismaOK(ps, s), DOMAIN qs = DOMAIN ps,
           \A p \in DOMAIN ps : qs[p].owner = ps[p].owner /\ qs[p].paid = ps[p].paid
    PROVE  CharismaOK(qs, s)
<1>1. \A o : Charged(qs, o) = Charged(ps, o)
    BY DEF Charged
<1>2. QED
    BY <1>1 DEF CharismaOK
-----------------------------------------------------------------------------
\* A number that is free.
LEMMA FreeNumber ==
    ASSUME NEW ps, PetId \ DOMAIN ps # {}
    PROVE  Min(PetId \ DOMAIN ps) \in PetId \ DOMAIN ps
<1>1. \E x \in PetId \ DOMAIN ps : \A y \in PetId \ DOMAIN ps : x <= y
  <2> DEFINE N == PetId \ DOMAIN ps
  <2>1. N \in SUBSET Nat /\ N # {}
      BY CompanionAssumption DEF PetId
  <2> HIDE DEF N
  <2>2. \E x \in N : \A y \in N : x <= y
      BY <2>1, LeastNumber
  <2>3. QED
      BY <2>2 DEF N
<1>2. QED
    BY <1>1 DEF Min

LEMMA CalledFits ==
    ASSUME NEW ps, NEW n, NEW o, NEW c, NEW grade, NEW k, MayCall(ps, n, o, c, grade, k)
    PROVE  /\ HerdOK(Called(ps, o, c, grade, k), n)
           /\ IsMore(Called(ps, o, c, grade, k), ps, o, k)
<1> DEFINE p == Min(PetId \ DOMAIN ps)
           new == [owner |-> o, collar |-> c, grade |-> grade, dead |-> FALSE, place |-> k,
                   paid |-> k = 0, items |-> {}, weapon |-> 0, armour |-> 0, add |-> 0, ac |-> 0]
           qs == Called(ps, o, c, grade, k)
<1>1. p \in PetId \ DOMAIN ps
    BY FreeNumber DEF MayCall
<1>2. qs = [q \in DOMAIN ps \cup {p} |-> IF q \in DOMAIN ps THEN ps[q] ELSE new]
    BY DEF Called
<1>3. Fitted(new)
    <2>1. c \in 1..MaxCollars
        BY CompanionAssumption DEF MayCall
    <2>2. new \in Pet
        BY <2>1 DEF Pet, MayCall
    <2>3. QED
        BY <2>2 DEF Fitted, Worth
<1>4. new.owner = o /\ new.collar = c /\ new.place = k /\ new.items = {} /\ (k # 0 => ~new.paid)
    OBVIOUS
<1> HIDE DEF p, new, qs
<1>5. DOMAIN qs = DOMAIN ps \cup {p} /\ (\A q \in DOMAIN ps : qs[q] = ps[q]) /\ qs[p] = new
    BY <1>1, <1>2
<1>6. HerdOK(qs, n)
  <2>1. DOMAIN qs \subseteq PetId
      BY <1>1, <1>5 DEF HerdOK, MayCall
  <2>2. \A q \in DOMAIN qs : Fitted(qs[q]) /\ qs[q].collar <= n
      BY <1>3, <1>4, <1>5, CompanionAssumption DEF HerdOK, MayCall
  <2>3. ASSUME NEW q \in DOMAIN qs, NEW r \in DOMAIN qs, q # r
        PROVE  /\ ~(qs[q].owner = qs[r].owner /\ qs[q].collar = qs[r].collar)
               /\ ~(qs[q].place # 0 /\ qs[q].place = qs[r].place)
               /\ qs[q].items \cap qs[r].items = {}
    <3>1. CASE q # p /\ r # p
        BY <1>5, <2>3, <3>1 DEF HerdOK, MayCall
    <3>2. CASE q = p
        BY <1>4, <1>5, <2>3, <3>2 DEF MayCall
    <3>3. CASE r = p
        BY <1>4, <1>5, <2>3, <3>3 DEF MayCall
    <3>4. QED
        BY <3>1, <3>2, <3>3
  <2>4. QED
      BY <2>1, <2>2, <2>3 DEF HerdOK
<1>7. IsMore(qs, ps, o, k)
    BY <1>1, <1>4, <1>5 DEF IsMore
<1>8. QED
    BY <1>6, <1>7 DEF qs

LEMMA MoreFits ==
    ASSUME NEW ps, NEW qs, NEW o, NEW k, IsMore(qs, ps, o, k)
    PROVE  /\ \A bag : BagsOK(ps, bag) => BagsOK(qs, bag)
           /\ \A m : Follows(ps, m) /\ (k # 0 => m.pc[k] = o) => Follows(qs, m)
BY DEF IsMore, BagsOK, Follows
-----------------------------------------------------------------------------
LEMMA PetFields ==
    ASSUME NEW pet \in Pet
    PROVE  /\ pet.owner \in Owner /\ pet.collar \in 1..MaxCollars /\ pet.grade \in 0..2
           /\ pet.dead \in BOOLEAN /\ pet.place \in 0..2 /\ pet.paid \in BOOLEAN
           /\ pet.items \in SUBSET Gear /\ pet.weapon \in (Gear \ Armour) \cup {0}
           /\ pet.armour \in Armour \cup {0} /\ pet.add \in Int /\ pet.ac \in Int
BY DEF Pet

LEMMA WorthIsWhole ==
    /\ \A g \in Gear : g # 0 /\ Bonus[g] \in Int /\ Worth(g) = Bonus[g]
    /\ \A g \in Gear \cup {0} : Worth(g) \in Int
    /\ Worth(0) = 0 /\ Armour \subseteq Gear
BY CompanionAssumption DEF Worth

\* What is taken off, and what is put on.
SameTags(x, pet) ==
    x.owner = pet.owner /\ x.collar = pet.collar /\ x.place = pet.place /\ x.paid = pet.paid

LEMMA WeaponComesOff ==
    ASSUME NEW pet, Fitted(pet)
    PROVE  LET x == UnequipPetWeapon(pet)
           IN  Fitted(x) /\ SameTags(x, pet) /\ x.items = pet.items /\ x.weapon = 0
               /\ x.armour = pet.armour
<1>1. CASE pet.weapon = 0
    BY <1>1 DEF UnequipPetWeapon, SameTags
<1>2. CASE pet.weapon # 0
  <2> DEFINE x == [pet EXCEPT !.weapon = 0, !.add = @ - Bonus[pet.weapon]]
  <2>1. pet \in Pet /\ pet.weapon \in Gear /\ Bonus[pet.weapon] \in Int /\ pet.add \in Int
      BY <1>2, PetFields, WorthIsWhole DEF Fitted
  <2>2. x \in Pet
    <3>1. pet.add - Bonus[pet.weapon] \in Int
        BY <2>1, PetFields
    <3>2. QED
        BY <2>1, <3>1, Zenon DEF Pet
  <2>3. /\ x.owner = pet.owner /\ x.collar = pet.collar /\ x.place = pet.place
        /\ x.paid = pet.paid /\ x.items = pet.items
        /\ x.weapon = 0 /\ x.armour = pet.armour /\ x.add = pet.add - Bonus[pet.weapon]
      BY <2>1 DEF Pet
  <2>4. /\ Worth(pet.armour) \in Int /\ Worth(0) = 0
        /\ pet.add = Bonus[pet.weapon] + Worth(pet.armour)
      BY <2>1, PetFields, WorthIsWhole DEF Fitted
  <2>5. UnequipPetWeapon(pet) = x
      BY <1>2 DEF UnequipPetWeapon
  <2> HIDE DEF x
  <2>6. x.add = Worth(x.weapon) + Worth(x.armour)
      BY <2>1, <2>3, <2>4
  <2>7. {x.weapon, x.armour} \ {0} \subseteq x.items
      BY <2>3 DEF Fitted
  <2>8. QED
      BY <2>2, <2>3, <2>5, <2>6, <2>7 DEF Fitted, SameTags
<1>3. QED
    BY <1>1, <1>2

LEMMA ArmorComesOff ==
    ASSUME NEW pet, Fitted(pet)
    PROVE  LET x == UnequipPetArmor(pet)
           IN  Fitted(x) /\ SameTags(x, pet) /\ x.items = pet.items /\ x.armour = 0
               /\ x.weapon = pet.weapon
<1>1. CASE pet.armour = 0
    BY <1>1 DEF UnequipPetArmor, SameTags
<1>2. CASE pet.armour # 0
  <2> DEFINE x == [pet EXCEPT !.armour = 0, !.add = @ - Bonus[pet.armour], !.ac = @ + Bonus[pet.armour]]
  <2>1. pet \in Pet /\ pet.armour \in Gear /\ Bonus[pet.armour] \in Int /\ pet.add \in Int
      BY <1>2, PetFields, WorthIsWhole DEF Fitted
  <2>2. x \in Pet
    <3>1. pet.add - Bonus[pet.armour] \in Int /\ pet.ac + Bonus[pet.armour] \in Int
        BY <2>1, PetFields
    <3>2. QED
        BY <2>1, <3>1, Zenon DEF Pet
  <2>3. /\ x.owner = pet.owner /\ x.collar = pet.collar /\ x.place = pet.place
        /\ x.paid = pet.paid /\ x.items = pet.items
        /\ x.armour = 0 /\ x.weapon = pet.weapon /\ x.add = pet.add - Bonus[pet.armour]
      BY <2>1 DEF Pet
  <2>4. /\ Worth(pet.weapon) \in Int /\ Worth(0) = 0
        /\ pet.add = Bonus[pet.armour] + Worth(pet.weapon)
      BY <2>1, PetFields, WorthIsWhole DEF Fitted
  <2>5. UnequipPetArmor(pet) = x
      BY <1>2 DEF UnequipPetArmor
  <2> HIDE DEF x
  <2>6. x.add = Worth(x.weapon) + Worth(x.armour)
      BY <2>1, <2>3, <2>4
  <2>7. {x.weapon, x.armour} \ {0} \subseteq x.items
      BY <2>3 DEF Fitted
  <2>8. QED
      BY <2>2, <2>3, <2>5, <2>6, <2>7 DEF Fitted, SameTags
<1>3. QED
    BY <1>1, <1>2

LEMMA WeaponGoesOn ==
    ASSUME NEW pet, Fitted(pet), NEW g \in pet.items, g \notin Armour
    PROVE  LET x == EquipPetWeapon(pet, g)
           IN  Fitted(x) /\ SameTags(x, pet) /\ x.items = pet.items
<1> DEFINE bare == UnequipPetWeapon(pet)
           x == [bare EXCEPT !.weapon = g, !.add = @ + Bonus[g]]
<1>1. /\ Fitted(bare) /\ SameTags(bare, pet) /\ bare.items = pet.items /\ bare.weapon = 0
      /\ bare.armour = pet.armour
    BY WeaponComesOff
<1>2. g \in Gear /\ g # 0 /\ Bonus[g] \in Int
    BY PetFields, WorthIsWhole DEF Fitted
<1>3. EquipPetWeapon(pet, g) = x
    BY DEF EquipPetWeapon
<1> HIDE DEF bare
<1>4. bare \in Pet
    BY <1>1 DEF Fitted
<1>5. x \in Pet
  <2>1. bare.add + Bonus[g] \in Int
      BY <1>2, <1>4, PetFields
  <2>2. QED
      BY <1>2, <1>4, <2>1, Zenon DEF Pet
<1>6. /\ x.owner = bare.owner /\ x.collar = bare.collar /\ x.place = bare.place
      /\ x.paid = bare.paid /\ x.items = bare.items
      /\ x.weapon = g /\ x.armour = bare.armour /\ x.add = bare.add + Bonus[g]
    BY <1>4 DEF Pet
<1>7. Worth(bare.armour) \in Int /\ Worth(g) = Bonus[g] /\ bare.add = Worth(bare.armour)
  <2>1. bare.add = Worth(bare.weapon) + Worth(bare.armour)
      BY <1>1 DEF Fitted
  <2>2. bare.armour \in Gear \cup {0}
      BY <1>4, PetFields, WorthIsWhole
  <2>3. QED
      BY <1>1, <1>2, <2>1, <2>2, WorthIsWhole
<1> HIDE DEF x
<1>8. x.add = Worth(x.weapon) + Worth(x.armour)
    BY <1>2, <1>6, <1>7
<1>9. {x.weapon, x.armour} \ {0} \subseteq x.items
    BY <1>1, <1>6 DEF Fitted
<1>10. QED
    BY <1>1, <1>3, <1>5, <1>6, <1>8, <1>9 DEF Fitted, SameTags

LEMMA ArmorGoesOn ==
    ASSUME NEW pet, Fitted(pet), NEW g \in pet.items, g \in Armour
    PROVE  LET x == EquipPetArmor(pet, g)
           IN  Fitted(x) /\ SameTags(x, pet) /\ x.items = pet.items
<1> DEFINE bare == UnequipPetArmor(pet)
           x == [bare EXCEPT !.armour = g, !.add = @ + Bonus[g], !.ac = @ - Bonus[g]]
<1>1. /\ Fitted(bare) /\ SameTags(bare, pet) /\ bare.items = pet.items /\ bare.armour = 0
      /\ bare.weapon = pet.weapon
    BY ArmorComesOff
<1>2. g \in Gear /\ g # 0 /\ Bonus[g] \in Int
    BY PetFields, WorthIsWhole DEF Fitted
<1>3. EquipPetArmor(pet, g) = x
    BY DEF EquipPetArmor
<1> HIDE DEF bare
<1>4. bare \in Pet
    BY <1>1 DEF Fitted
<1>5. x \in Pet
  <2>1. bare.add + Bonus[g] \in Int /\ bare.ac - Bonus[g] \in Int
      BY <1>2, <1>4, PetFields
  <2>2. QED
      BY <1>2, <1>4, <2>1, Zenon DEF Pet
<1>6. /\ x.owner = bare.owner /\ x.collar = bare.collar /\ x.place = bare.place
      /\ x.paid = bare.paid /\ x.items = bare.items
      /\ x.armour = g /\ x.weapon = bare.weapon /\ x.add = bare.add + Bonus[g]
    BY <1>4 DEF Pet
<1>7. Worth(bare.weapon) \in Int /\ Worth(g) = Bonus[g] /\ bare.add = Worth(bare.weapon)
  <2>1. bare.add = Worth(bare.weapon) + Worth(bare.armour)
      BY <1>1 DEF Fitted
  <2>2. bare.weapon \in Gear \cup {0}
      BY <1>4, PetFields, WorthIsWhole
  <2>3. QED
      BY <1>1, <1>2, <2>1, <2>2, WorthIsWhole
<1> HIDE DEF x
<1>8. x.add = Worth(x.weapon) + Worth(x.armour)
    BY <1>2, <1>6, <1>7
<1>9. {x.weapon, x.armour} \ {0} \subseteq x.items
    BY <1>1, <1>6 DEF Fitted
<1>10. QED
    BY <1>1, <1>3, <1>5, <1>6, <1>8, <1>9 DEF Fitted, SameTags

\* One pet changes; it may get another collar, which is new.
LEMMA OneChanges ==
    ASSUME NEW ps, NEW n, NEW m \in 1..MaxCollars, n <= m, n \in Nat, HerdOK(ps, n), NEW p \in DOMAIN ps,
           NEW x, Fitted(x), x.collar <= m,
           x.owner = ps[p].owner, x.place = ps[p].place, x.paid = ps[p].paid,
           x.collar = ps[p].collar \/ x.collar > n,
           \A q \in DOMAIN ps \ {p} : x.items \cap ps[q].items = {}
    PROVE  LET qs == [ps EXCEPT ![p] = x]
           IN  /\ HerdOK(qs, m)
               /\ \A slot : Follows(ps, slot) => Follows(qs, slot)
               /\ \A s : CharismaOK(ps, s) => CharismaOK(qs, s)
               /\ qs[p] = x /\ DOMAIN qs = DOMAIN ps /\ \A q \in DOMAIN ps \ {p} : qs[q] = ps[q]
<1> DEFINE qs == [ps EXCEPT ![p] = x]
<1>1. qs[p] = x /\ DOMAIN qs = DOMAIN ps /\ \A q \in DOMAIN ps \ {p} : qs[q] = ps[q]
    OBVIOUS
<1> HIDE DEF qs
<1>2. \A q \in DOMAIN ps : ps[q].collar \in Nat /\ ps[q].collar <= n
    BY CompanionAssumption DEF HerdOK, Fitted, Pet
<1>3. HerdOK(qs, m)
  <2>1. \A q \in DOMAIN qs : Fitted(qs[q]) /\ qs[q].collar <= m
      BY <1>1, <1>2 DEF HerdOK
  <2>2. ASSUME NEW q \in DOMAIN qs, NEW r \in DOMAIN qs, q # r
        PROVE  /\ ~(qs[q].owner = qs[r].owner /\ qs[q].collar = qs[r].collar)
               /\ ~(qs[q].place # 0 /\ qs[q].place = qs[r].place)
               /\ qs[q].items \cap qs[r].items = {}
    <3>1. CASE q # p /\ r # p
        BY <1>1, <2>2, <3>1 DEF HerdOK
    <3>2. CASE q = p
      <4>1. qs[q] = x /\ qs[r] = ps[r] /\ r \in DOMAIN ps \ {p}
          BY <1>1, <2>2, <3>2
      <4>2. x.collar = ps[p].collar \/ x.collar # ps[r].collar
          BY <1>2, <4>1
      <4>3. QED
          BY <4>1, <4>2 DEF HerdOK
    <3>3. CASE r = p
      <4>1. qs[r] = x /\ qs[q] = ps[q] /\ q \in DOMAIN ps \ {p}
          BY <1>1, <2>2, <3>3
      <4>2. x.collar = ps[p].collar \/ x.collar # ps[q].collar
          BY <1>2, <4>1
      <4>3. QED
          BY <4>1, <4>2 DEF HerdOK
    <3>4. QED
        BY <3>1, <3>2, <3>3
  <2>3. DOMAIN qs \subseteq PetId
      BY <1>1 DEF HerdOK
  <2>4. QED
      BY <2>1, <2>2, <2>3 DEF HerdOK
<1>4. ASSUME NEW slot, Follows(ps, slot)
      PROVE  Follows(qs, slot)
    BY <1>1, <1>4 DEF Follows
<1>5. ASSUME NEW s, CharismaOK(ps, s)
      PROVE  CharismaOK(qs, s)
    BY <1>1, <1>5, CharismaSame
<1>6. QED
    BY <1>1, <1>3, <1>4, <1>5 DEF qs

\* With more collars made.
LEMMA HerdMore ==
    ASSUME NEW ps, NEW n \in Nat, NEW m \in 1..MaxCollars, n <= m, HerdOK(ps, n)
    PROVE  HerdOK(ps, m)
<1>1. \A q \in DOMAIN ps : ps[q].collar \in Nat /\ ps[q].collar <= n
    BY CompanionAssumption DEF HerdOK, Fitted, Pet
<1>2. QED
    BY <1>1 DEF HerdOK
-----------------------------------------------------------------------------
\* A pet that dies, is raised or has no place any more.
LEMMA StateFits ==
    ASSUME NEW pet, Fitted(pet)
    PROVE  \A x \in {[pet EXCEPT !.place = 0], [pet EXCEPT !.dead = TRUE], [pet EXCEPT !.dead = FALSE]} :
              /\ Fitted(x) /\ x.owner = pet.owner /\ x.collar = pet.collar /\ x.paid = pet.paid
              /\ x.items = pet.items /\ x.place \in {0, pet.place}
<1>1. pet \in Pet
    BY DEF Fitted
<1>2. /\ [pet EXCEPT !.place = 0] \in Pet /\ [pet EXCEPT !.dead = TRUE] \in Pet
      /\ [pet EXCEPT !.dead = FALSE] \in Pet
  <2>1. 0 \in 0..2
      OBVIOUS
  <2>2. QED
      BY <1>1, <2>1, Zenon DEF Pet
<1>3. ASSUME NEW x \in {[pet EXCEPT !.place = 0], [pet EXCEPT !.dead = TRUE], [pet EXCEPT !.dead = FALSE]}
      PROVE  /\ x.owner = pet.owner /\ x.collar = pet.collar /\ x.paid = pet.paid
             /\ x.items = pet.items /\ x.place \in {0, pet.place}
             /\ x.weapon = pet.weapon /\ x.armour = pet.armour /\ x.add = pet.add
    BY <1>1 DEF Pet
<1>4. QED
    BY <1>2, <1>3 DEF Fitted

LEMMA PlacedFits ==
    ASSUME NEW ps, NEW n, HerdOK(ps, n), NEW m
    PROVE  /\ Lessens(Placed(ps, m), ps) /\ DOMAIN Placed(ps, m) = DOMAIN ps
           /\ Follows(Placed(ps, m), m)
<1>1. ASSUME NEW p \in DOMAIN ps
      PROVE  /\ Fitted(Placed(ps, m)[p]) /\ Placed(ps, m)[p].owner = ps[p].owner
             /\ Placed(ps, m)[p].collar = ps[p].collar /\ Placed(ps, m)[p].paid = ps[p].paid
             /\ Placed(ps, m)[p].items = ps[p].items /\ Placed(ps, m)[p].place \in {0, ps[p].place}
             /\ Placed(ps, m)[p].place # 0 => ps[p].owner = m.pc[ps[p].place]
  <2>1. Fitted(ps[p])
      BY DEF HerdOK
  <2>2. CASE ps[p].place # 0 /\ m.pc[ps[p].place] # ps[p].owner
    <3>1. Placed(ps, m)[p] = [ps[p] EXCEPT !.place = 0]
        BY <2>2 DEF Placed
    <3>2. [ps[p] EXCEPT !.place = 0].place = 0
        BY <2>1 DEF Fitted, Pet
    <3>3. QED
        BY <2>1, <3>1, <3>2, StateFits
  <2>3. CASE ~(ps[p].place # 0 /\ m.pc[ps[p].place] # ps[p].owner)
      BY <2>1, <2>3 DEF Placed
  <2>4. QED
      BY <2>2, <2>3
<1>2. DOMAIN Placed(ps, m) = DOMAIN ps
    BY DEF Placed
<1>3. QED
    BY <1>1, <1>2 DEF Lessens, Follows

LEMMA NoPetFits ==
    ASSUME NEW ps, NEW n, HerdOK(ps, n), NEW S
    PROVE  Lessens(NoPet(ps, S), ps) /\ DOMAIN NoPet(ps, S) = DOMAIN ps \ S
BY DEF HerdOK, Lessens, NoPet

LEMMA FallenFits ==
    ASSUME NEW n, HerdOK(pets, n), NEW S
    PROVE  Lessens(Fallen(S), pets)
<1>1. ASSUME NEW p \in DOMAIN pets
      PROVE  /\ Fitted(Fallen(S)[p]) /\ Fallen(S)[p].owner = pets[p].owner
             /\ Fallen(S)[p].collar = pets[p].collar /\ Fallen(S)[p].paid = pets[p].paid
             /\ Fallen(S)[p].items = pets[p].items /\ Fallen(S)[p].place \in {0, pets[p].place}
  <2>1. Fitted(pets[p])
      BY DEF HerdOK
  <2>2. CASE p \in S
    <3>1. Fallen(S)[p] = [pets[p] EXCEPT !.dead = TRUE]
        BY <2>2 DEF Fallen
    <3>2. QED
        BY <2>1, <3>1, StateFits
  <2>3. CASE p \notin S
    <3>1. Fallen(S)[p] = pets[p]
        BY <2>3 DEF Fallen
    <3>2. QED
        BY <2>1, <3>1
  <2>4. QED
      BY <2>2, <2>3
<1>2. DOMAIN Fallen(S) = DOMAIN pets
    BY DEF Fallen
<1>3. QED
    BY <1>1, <1>2 DEF Lessens

\* Fewer pets and nothing else that matters to them.
LEMMA FewerPets ==
    ASSUME CompanionsInv, Lessens(pets', pets), PlayersOK', holder' = holder, petBag' = petBag,
           RowsOK(holder, row'), Len(row') = Len(row),
           summons' \in [Owner -> [Origin -> Nat]],
           \A o \in Owner, k \in Origin : summons'[o][k] <= summons[o][k],
           SlotOK(match'), match' = match \/ Follows(pets', match')
    PROVE  CompanionsInv'
<1>1. HerdOK(pets', Len(row'))
    BY HerdLess DEF CompanionsInv
<1>2. BagsOK(pets', petBag')
    BY BagsLess DEF CompanionsInv
<1>3. CharismaOK(pets', summons')
    BY CharismaLess DEF CompanionsInv
<1>4. Follows(pets', match')
    BY FollowsLess DEF CompanionsInv
<1>5. RowsOK(holder', row')
    OBVIOUS
<1>6. QED
    BY <1>1, <1>2, <1>3, <1>4, <1>5, NewInv
-----------------------------------------------------------------------------
LEMMA NoMatchFits ==
    SlotOK(NoMatch)
BY DEF SlotOK, NoMatch, Slot

\* Who is there, whatever the slot says.
LEMMA StatusTells ==
    LET there(k) == match.pc[k] \in masters \cap inArena
    IN  /\ SlotStatus = "none" => ~there(1) /\ ~there(2)
        /\ SlotStatus = "ready1" => there(1) /\ ~there(2)
        /\ SlotStatus = "ready2" => there(2) /\ ~there(1)
        /\ SlotStatus = "playing" => there(1) /\ there(2)
        /\ SlotStatus \in {"none", "ready1", "ready2", "playing"}
<1> DEFINE whoIsThere == {k \in {1, 2} : match.pc[k] \in masters \cap inArena}
<1>1. CASE whoIsThere = {}
    BY <1>1 DEF SlotStatus
<1>2. CASE whoIsThere = {1, 2}
    BY <1>2 DEF SlotStatus
<1>3. CASE whoIsThere = {1}
    BY <1>3 DEF SlotStatus
<1>4. CASE whoIsThere = {2}
    BY <1>4 DEF SlotStatus
<1>5. QED
    BY <1>1, <1>2, <1>3, <1>4

LEMMA ViewFits ==
    ASSUME CompanionsInv
    PROVE  /\ SlotOK(SlotView)
           /\ SlotStatus # "none" =>
                \A k \in {1, 2} : SlotView.pc[k] \in {NoChar, match.pc[k]}
                                  /\ (match.pc[k] \in inArena => SlotView.pc[k] = match.pc[k])
<1>1. CASE SlotStatus = "none"
    BY <1>1, NoMatchFits DEF SlotView
<1>2. CASE SlotStatus # "none"
  <2> DEFINE pc == [k \in {1, 2} |-> IF match.pc[k] \in masters \ inArena THEN NoChar ELSE match.pc[k]]
  <2>1. SlotView = [match EXCEPT !.pc = pc]
      BY <1>2 DEF SlotView
  <2>2. match \in Slot /\ SlotOK(match)
      BY DEF CompanionsInv, SlotOK
  <2>3. pc \in [{1, 2} -> Owner \cup {NoChar}]
      BY <2>2 DEF Slot
  <2>4. \A k \in {1, 2} : pc[k] \in {NoChar, match.pc[k]} /\ (match.pc[k] \in inArena => pc[k] = match.pc[k])
      OBVIOUS
  <2> HIDE DEF pc
  <2>5. SlotView \in Slot /\ SlotView.pc = pc /\ SlotView.status = match.status
      BY <2>1, <2>2, <2>3 DEF Slot
  <2>6. match.status # "none"
    <3>1. match = NoMatch => match.pc[1] = NoChar /\ match.pc[2] = NoChar
        BY DEF NoMatch
    <3>2. NoChar \notin masters
        BY CompanionAssumption DEF CompanionsInv, PlayersOK
    <3>3. QED
        BY <1>2, <2>2, <3>1, <3>2, StatusTells DEF SlotOK
  <2>7. SlotView.pc[1] # NoChar => SlotView.pc[1] # SlotView.pc[2]
      BY <2>2, <2>4, <2>5 DEF SlotOK
  <2>8. QED
      BY <2>4, <2>5, <2>6, <2>7 DEF SlotOK
<1>3. QED
    BY <1>1, <1>2

LEMMA EndMatchFits ==
    ASSUME NEW ps, NEW n, HerdOK(ps, n), NEW m, NEW there, there \subseteq Owner, EndMatch(ps, m, there)
    PROVE  Lessens(pets', ps) /\ Follows(pets', match') /\ SlotOK(match') /\ inArena' \subseteq Owner
<1> DEFINE home == {m.pc[1], m.pc[2]} \cap masters \cap there
           S == {p \in DOMAIN ps : ps[p].owner \in home}
<1>1. pets' = Placed(NoPet(ps, S), NoMatch) /\ match' = NoMatch /\ inArena' \subseteq Owner
    BY DEF EndMatch
<1> HIDE DEF S
<1>2. Lessens(NoPet(ps, S), ps)
    BY NoPetFits
<1>3. HerdOK(NoPet(ps, S), n)
    BY <1>2, HerdLess
<1>4. Lessens(pets', NoPet(ps, S)) /\ Follows(pets', NoMatch)
    BY <1>1, <1>3, PlacedFits
<1>5. QED
    BY <1>1, <1>2, <1>4, LessensTwice, NoMatchFits
-----------------------------------------------------------------------------
\* Collars and rows.
LEMMA SeqAsFunction ==
    ASSUME NEW S, NEW s, NEW n \in Nat, s \in [1..n -> S]
    PROVE  s \in Seq(S) /\ Len(s) = n /\ DOMAIN s = 1..n
OBVIOUS

LEMMA SavedRowsFit ==
    ASSUME CompanionsInv, NEW S \in SUBSET DOMAIN pets
    PROVE  RowsOK(holder, SavedRows(S)) /\ Len(SavedRows(S)) = Len(row)
<1>1. row \in Seq({NoRow, 0, 1, 2}) /\ Len(row) \in Nat /\ DOMAIN row = 1..Len(row)
    BY DEF CompanionsInv, RowsOK
<1>2. ASSUME NEW c \in 1..Len(row)
      PROVE  SavedRows(S)[c] \in {NoRow, 0, 1, 2}
  <2>1. CASE S \cap OutFor(c) = {}
      BY <1>1, <2>1 DEF SavedRows
  <2>2. CASE S \cap OutFor(c) # {}
    <3> DEFINE p == CHOOSE p \in S \cap OutFor(c) : TRUE
    <3>1. p \in S
        BY <2>2
    <3>2. Fitted(pets[p])
        BY <3>1 DEF CompanionsInv, HerdOK
    <3>3. SavedRows(S)[c] = pets[p].grade
        BY <1>1, <2>2 DEF SavedRows
    <3>4. pets[p].grade \in 0..2
        BY <3>2, PetFields DEF Fitted
    <3>5. QED
        BY <3>3, <3>4
  <2>3. QED
      BY <2>1, <2>2
<1>3. SavedRows(S) \in [1..Len(row) -> {NoRow, 0, 1, 2}]
    BY <1>1, <1>2 DEF SavedRows
<1>4. SavedRows(S) \in Seq({NoRow, 0, 1, 2}) /\ Len(SavedRows(S)) = Len(row)
    BY <1>1, <1>3, SeqAsFunction
<1>5. QED
    BY <1>4 DEF CompanionsInv, RowsOK

LEMMA RowEdits ==
    ASSUME NEW h, NEW r, RowsOK(h, r), NEW c \in 1..Len(r)
    PROVE  /\ DOMAIN h = 1..Len(r) /\ DOMAIN r = 1..Len(r) /\ Len(r) \in 1..MaxCollars
           /\ Len(h) = Len(r) /\ r[c] \in {NoRow, 0, 1, 2}
           /\ RowsOK(h, [r EXCEPT ![c] = NoRow]) /\ Len([r EXCEPT ![c] = NoRow]) = Len(r)
           /\ \A o \in Owner \cup {NoChar} : RowsOK([h EXCEPT ![c] = o], r)
<1>1. /\ r \in Seq({NoRow, 0, 1, 2}) /\ Len(r) \in Nat /\ DOMAIN r = 1..Len(r)
      /\ h \in Seq(Owner \cup {NoChar}) /\ DOMAIN h = 1..Len(r) /\ Len(h) = Len(r)
      /\ Len(r) <= MaxCollars /\ MaxCollars \in Nat
    BY CompanionAssumption DEF RowsOK
<1>2. /\ [r EXCEPT ![c] = NoRow] \in Seq({NoRow, 0, 1, 2}) /\ Len([r EXCEPT ![c] = NoRow]) = Len(r)
  <2>1. [r EXCEPT ![c] = NoRow] \in [1..Len(r) -> {NoRow, 0, 1, 2}]
      BY <1>1
  <2>2. QED
      BY <1>1, <2>1, SeqAsFunction
<1>3. ASSUME NEW o \in Owner \cup {NoChar}
      PROVE  [h EXCEPT ![c] = o] \in Seq(Owner \cup {NoChar}) /\ Len([h EXCEPT ![c] = o]) = Len(h)
  <2>1. [h EXCEPT ![c] = o] \in [1..Len(h) -> Owner \cup {NoChar}]
      BY <1>1
  <2>2. QED
      BY <1>1, <2>1, SeqAsFunction
<1>4. r[c] \in {NoRow, 0, 1, 2}
    BY <1>1
<1>5. QED
    BY <1>1, <1>2, <1>3, <1>4 DEF RowsOK

LEMMA RowMore ==
    ASSUME NEW h, NEW r, RowsOK(h, r), Len(h) < MaxCollars, NEW o \in Owner, NEW g \in 0..2
    PROVE  /\ RowsOK(Append(h, o), Append(r, g)) /\ Len(Append(r, g)) = Len(r) + 1
           /\ Len(r) + 1 \in 1..MaxCollars /\ Len(r) \in Nat /\ Len(h) = Len(r)
BY CompanionAssumption DEF RowsOK

LEMMA HolderWithout ==
    ASSUME NEW r, RowsOK(holder, r), NEW o, NEW c \in 1..Len(r)
    PROVE  RowsOK(CollarFrom(o, c), r)
BY RowEdits DEF CollarFrom

\* What every action says of a pet and its collar.
LEMMA PetFacts ==
    ASSUME CompanionsInv
    PROVE  /\ \A p \in DOMAIN pets :
                /\ Fitted(pets[p]) /\ pets[p] \in Pet /\ pets[p].owner \in Owner
                /\ pets[p].collar \in 1..Len(row) /\ pets[p].items \subseteq Gear
                /\ pets[p].grade \in 0..2
           /\ Len(row) \in Nat /\ Len(row) = Len(holder) /\ Len(row) <= MaxCollars
           /\ DOMAIN holder = 1..Len(row) /\ DOMAIN row = 1..Len(row)
<1>1. /\ Len(row) \in Nat /\ Len(row) = Len(holder) /\ Len(row) <= MaxCollars
      /\ DOMAIN holder = 1..Len(row) /\ DOMAIN row = 1..Len(row)
    BY DEF CompanionsInv, RowsOK
<1>2. \A p \in DOMAIN pets : Fitted(pets[p]) /\ pets[p] \in Pet /\ pets[p].collar <= Len(row)
    BY DEF CompanionsInv, HerdOK, Fitted
<1>3. QED
    BY <1>1, <1>2, PetFields, CompanionAssumption
-----------------------------------------------------------------------------
LEMMA CompanionsInvInit ==
    CompanionsInit => CompanionsInv
<1> SUFFICES ASSUME CompanionsInit
             PROVE  CompanionsInv
    OBVIOUS
<1>1. PlayersOK
    BY DEF CompanionsInit, PlayersOK
<1>2. RowsOK(holder, row) /\ Len(row) = 2
  <2>1. PICK f \in [{1, 2} -> Owner] : holder = <<f[1], f[2]>>
      BY DEF CompanionsInit
  <2>2. f[1] \in Owner /\ f[2] \in Owner
      OBVIOUS
  <2>3. row = <<0, 1>>
      BY DEF CompanionsInit
  <2>4. MaxCollars >= 2
      BY CompanionAssumption
  <2>5. QED
      BY <2>1, <2>2, <2>3, <2>4 DEF RowsOK
<1>3. DOMAIN pets = {}
    BY DEF CompanionsInit
<1>4. HerdOK(pets, Len(row)) /\ Follows(pets, match)
    BY <1>3 DEF HerdOK, Follows
<1>5. BagsOK(pets, petBag)
  <2>1. PICK o \in Owner \cup {NoChar} : petBag = [q \in Owner |-> IF q = o THEN Gear ELSE {}]
      BY DEF CompanionsInit
  <2>2. QED
      BY <1>3, <2>1 DEF BagsOK
<1>6. CharismaOK(pets, summons)
  <2>1. summons = [o \in Owner |-> NoSummons] /\ NoSummons \in [Origin -> Nat]
      BY CostOfNone DEF CompanionsInit
  <2>2. ASSUME NEW o \in Owner
        PROVE  /\ \E x \in {7, TameBonus[o], SpellBonus[o]} :
                    6 * Cardinality(Charged(pets, o)) + Cost(summons[o]) <= Charisma + x
               /\ ~(summons[o]["elemental"] > 0)
    <3>1. Charged(pets, o) = {}
        BY <1>3 DEF Charged
    <3>2. Cardinality(Charged(pets, o)) = 0
        BY <3>1, FS_EmptySet
    <3>3. Cost(summons[o]) = 0
        BY <2>1, CostOfNone
    <3>4. summons[o]["elemental"] = 0
        BY <2>1 DEF NoSummons, Origin
    <3>5. QED
        BY <3>2, <3>3, <3>4, CompanionAssumption
  <2>3. QED
      BY <2>1, <2>2 DEF CharismaOK
<1>7. SlotOK(match)
    BY NoMatchFits DEF CompanionsInit
<1>8. QED
    BY <1>1, <1>2, <1>4, <1>5, <1>6, <1>7 DEF CompanionsInv
-----------------------------------------------------------------------------
\* The steps.
LEMMA SameSummons ==
    ASSUME CompanionsInv, summons' = summons
    PROVE  summons' \in [Owner -> [Origin -> Nat]] /\ \A o \in Owner, k \in Origin : summons'[o][k] <= summons[o][k]
BY DEF CompanionsInv, CharismaOK

LEMMA SamePets ==
    ASSUME CompanionsInv, pets' = pets
    PROVE  Lessens(pets', pets)
BY PetFacts DEF Lessens

LEMMA UsedIsWhole ==
    ASSUME CompanionsInv, NEW o \in Owner
    PROVE  /\ UsedPetCost(o) \in Nat /\ Charisma \in Nat
           /\ TameBonus[o] \in Nat /\ SpellBonus[o] \in Nat
<1>1. PICK u \in Nat : UsedPetCost(o) = 6 * Cardinality(Charged(pets, o)) + Cost(summons[o]) + 6 * u
    BY UsedIsMore
<1>2. Cost(summons[o]) \in Nat /\ Cardinality(Charged(pets, o)) \in Nat
    BY UsedIsMore
<1>3. Charisma \in Nat /\ TameBonus[o] \in Nat /\ SpellBonus[o] \in Nat
    BY CompanionAssumption
<1>4. QED
    BY <1>1, <1>2, <1>3

LEMMA UsePetCollarKeeps ==
    ASSUME CompanionsInv, NEW o \in Owner, NEW c \in DOMAIN holder, UsePetCollar(o, c)
    PROVE  CompanionsInv'
<1> USE DEF UsePetCollar
<1>1. c \in 1..Len(row) /\ row[c] \in 0..2 /\ RowsOK(holder, row) /\ Len(row) \in 1..MaxCollars
  <2>1. c \in 1..Len(row) /\ RowsOK(holder, row)
      BY PetFacts DEF CompanionsInv
  <2>2. row[c] \in {NoRow, 0, 1, 2} /\ row[c] # NoRow /\ Len(row) \in 1..MaxCollars
      BY <2>1, RowEdits
  <2>3. QED
      BY <2>1, <2>2
<1>2. \A q \in DOMAIN pets : pets[q].collar # c
    BY DEF OutFor
<1>3. PetId \ DOMAIN pets # {}
    BY DEF Room
<1>4. pets' = Called(pets, o, c, row[c], 0)
    OBVIOUS
<1> HIDE DEF UsePetCollar
<1>5. MayCall(pets, Len(row), o, c, row[c], 0)
    BY <1>1, <1>2, <1>3 DEF MayCall, CompanionsInv
<1>6. HerdOK(pets', Len(row)) /\ IsMore(pets', pets, o, 0)
    BY <1>4, <1>5, CalledFits
<1>7. BagsOK(pets', petBag) /\ Follows(pets', match)
    BY <1>6, MoreFits DEF CompanionsInv
<1>8. CharismaOK(pets', summons)
  <2>1. Charisma + 7 - UsedPetCost(o) >= 6
    <3>1. UsedPetCost(o) \in Nat /\ Charisma \in Nat
        BY UsedIsWhole
    <3>2. QED
        BY <3>1 DEF UsePetCollar
  <2>2. QED
      BY <1>6, <2>1, CharismaMorePets
<1>9. QED
    BY <1>1, <1>6, <1>7, <1>8, NewInv DEF UsePetCollar, CompanionsInv, PlayersOK

LEMMA CollectPetKeeps ==
    ASSUME CompanionsInv, NEW o \in Owner, NEW c \in DOMAIN holder, CollectPet(o, c)
    PROVE  CompanionsInv'
<1>1. PICK p \in DOMAIN pets : row' = SavedRows({p}) /\ pets' = NoPet(pets, {p})
    BY DEF CollectPet, OutFor
<1>2. Lessens(pets', pets)
    BY <1>1, NoPetFits DEF CompanionsInv
<1>3. RowsOK(holder, row') /\ Len(row') = Len(row)
    BY <1>1, SavedRowsFit
<1>4. QED
    BY <1>2, <1>3, FewerPets, SameSummons DEF CollectPet, CompanionsInv, PlayersOK

LEMMA PassCollarKeeps ==
    ASSUME CompanionsInv, NEW o \in Owner, NEW q \in Owner, NEW c \in DOMAIN holder, PassCollar(o, q, c)
    PROVE  CompanionsInv'
<1>1. RowsOK(holder', row)
    BY RowEdits, PetFacts DEF PassCollar, CompanionsInv
<1>2. QED
    BY <1>1, NewInv DEF PassCollar, CompanionsInv, PlayersOK

LEMMA DismissPetKeeps ==
    ASSUME CompanionsInv, NEW o \in Owner, NEW p \in DOMAIN pets, DismissPet(o, p)
    PROVE  CompanionsInv'
<1> DEFINE c == pets[p].collar
<1>1. c \in 1..Len(row)
    BY PetFacts
<1>2. RowsOK(holder, row') /\ Len(row') = Len(row)
    BY <1>1, RowEdits DEF DismissPet, CompanionsInv
<1>3. RowsOK(holder', row')
    BY <1>1, <1>2, HolderWithout DEF DismissPet
<1>4. Lessens(pets', pets)
    BY NoPetFits DEF DismissPet, CompanionsInv
<1>5. /\ HerdOK(pets', Len(row)) /\ BagsOK(pets', petBag) /\ Follows(pets', match)
    BY <1>4, HerdLess, BagsLess, FollowsLess DEF CompanionsInv
<1>6. CharismaOK(pets', summons')
  <2>1. summons' = summons
      BY DEF DismissPet
  <2>2. QED
      BY <1>4, <2>1, CharismaLess, SameSummons DEF CompanionsInv
<1>7. QED
    BY <1>2, <1>3, <1>5, <1>6, NewInv DEF DismissPet, CompanionsInv, PlayersOK

LEMMA TameNpcKeeps ==
    ASSUME CompanionsInv, NEW o \in Owner, TameNpc(o)
    PROVE  CompanionsInv'
<1> DEFINE n == Len(row) + 1
<1>1. /\ RowsOK(holder', row') /\ Len(row') = n /\ n \in 1..MaxCollars
      /\ Len(row) \in Nat /\ Len(holder) = Len(row)
    BY RowMore DEF TameNpc, CompanionsInv
<1>2. HerdOK(pets, n)
    BY <1>1, HerdMore DEF CompanionsInv
<1>3. \A q \in DOMAIN pets : pets[q].collar # n
    BY PetFacts
<1>4. PetId \ DOMAIN pets # {} /\ pets' = Called(pets, o, n, 0, 0)
    BY <1>1 DEF TameNpc, Room
<1> HIDE DEF n
<1>5. MayCall(pets, n, o, n, 0, 0)
    BY <1>1, <1>2, <1>3, <1>4 DEF MayCall
<1>6. HerdOK(pets', n) /\ IsMore(pets', pets, o, 0)
    BY <1>4, <1>5, CalledFits
<1>7. BagsOK(pets', petBag) /\ Follows(pets', match)
    BY <1>6, MoreFits DEF CompanionsInv
<1>8. CharismaOK(pets', summons)
  <2>1. Charisma + TameBonus[o] - UsedPetCost(o) >= 6
    <3>1. UsedPetCost(o) \in Nat /\ Charisma \in Nat /\ TameBonus[o] \in Nat
        BY UsedIsWhole
    <3>2. PICK divisor \in {6, 12} : Charisma + TameBonus[o] - UsedPetCost(o) >= divisor
        BY DEF TameNpc
    <3>3. QED
        BY <3>1, <3>2
  <2>2. QED
      BY <1>6, <2>1, CharismaMorePets
<1>9. QED
    BY <1>1, <1>6, <1>7, <1>8, NewInv DEF TameNpc, CompanionsInv, PlayersOK
-----------------------------------------------------------------------------
\* One pet changes, and perhaps what its master carries.
LEMMA PetChanges ==
    ASSUME CompanionsInv, NEW o \in Owner, NEW p \in DOMAIN pets,
           NEW x, Fitted(x), SameTags(x, pets[p]), pets' = [pets EXCEPT ![p] = x],
           \/ x.items = pets[p].items /\ petBag' = petBag
           \/ /\ petBag' \in [Owner -> SUBSET Gear]
              /\ \A q \in Owner \ {o} : petBag'[q] = petBag[q]
              /\ x.items \cup petBag'[o] = pets[p].items \cup petBag[o]
              /\ x.items \cap petBag'[o] = {},
           UNCHANGED <<masters, inArena, holder, row, summons, priests, match>>
    PROVE  CompanionsInv'
<1>1. /\ HerdOK(pets, Len(row)) /\ Len(row) \in 1..MaxCollars /\ Len(row) \in Nat
      /\ x.collar <= Len(row)
    BY PetFacts DEF CompanionsInv, SameTags
<1>2. ASSUME NEW q \in DOMAIN pets \ {p}
      PROVE  x.items \cap pets[q].items = {}
  <2>1. pets[p].items \cap pets[q].items = {}
      BY <1>1 DEF HerdOK
  <2>2. pets[q].items \cap petBag[o] = {}
      BY DEF CompanionsInv, BagsOK
  <2>3. QED
      BY <2>1, <2>2
<1>3. /\ HerdOK(pets', Len(row))
      /\ \A slot : Follows(pets, slot) => Follows(pets', slot)
      /\ \A s : CharismaOK(pets, s) => CharismaOK(pets', s)
      /\ pets'[p] = x /\ DOMAIN pets' = DOMAIN pets /\ \A q \in DOMAIN pets \ {p} : pets'[q] = pets[q]
  <2> DEFINE qs == [pets EXCEPT ![p] = x]
             n == Len(row)
  <2>1. x.owner = pets[p].owner /\ x.place = pets[p].place /\ x.paid = pets[p].paid /\ x.collar = pets[p].collar
      BY DEF SameTags
  <2>2. /\ HerdOK(qs, n)
        /\ \A slot : Follows(pets, slot) => Follows(qs, slot)
        /\ \A s : CharismaOK(pets, s) => CharismaOK(qs, s)
        /\ qs[p] = x /\ DOMAIN qs = DOMAIN pets /\ \A q \in DOMAIN pets \ {p} : qs[q] = pets[q]
    <3>1. n <= n /\ n \in 1..MaxCollars /\ n \in Nat /\ HerdOK(pets, n) /\ x.collar <= n
        BY <1>1
    <3> HIDE DEF n
    <3>2. QED
        BY <1>2, <2>1, <3>1, OneChanges
  <2>3. QED
      BY <2>2
<1>4. BagsOK(pets', petBag')
  <2>1. petBag' \in [Owner -> SUBSET Gear]
      BY DEF CompanionsInv, BagsOK
  <2>2. /\ \A q \in DOMAIN pets, w \in Owner : pets[q].items \cap petBag[w] = {}
        /\ \A v, w \in Owner : v # w => petBag[v] \cap petBag[w] = {}
        /\ \A q \in DOMAIN pets \ {p} : pets[p].items \cap pets[q].items = {}
      BY DEF CompanionsInv, BagsOK, HerdOK
  <2>3. ASSUME NEW q \in DOMAIN pets', NEW w \in Owner
        PROVE  pets'[q].items \cap petBag'[w] = {}
    <3>1. CASE q = p /\ w = o
        BY <1>3, <2>2, <3>1
    <3>2. CASE q = p /\ w # o
        BY <1>3, <2>2, <3>2
    <3>3. CASE q # p /\ w = o
        BY <1>3, <2>2, <3>3
    <3>4. CASE q # p /\ w # o
        BY <1>3, <2>2, <3>4
    <3>5. QED
        BY <3>1, <3>2, <3>3, <3>4
  <2>4. ASSUME NEW v \in Owner, NEW w \in Owner, v # w
        PROVE  petBag'[v] \cap petBag'[w] = {}
    <3>1. CASE v = o
        BY <2>2, <2>4, <3>1
    <3>2. CASE w = o
        BY <2>2, <2>4, <3>2
    <3>3. CASE v # o /\ w # o
        BY <2>2, <2>4, <3>3
    <3>4. QED
        BY <3>1, <3>2, <3>3
  <2>5. QED
      BY <2>1, <2>3, <2>4 DEF BagsOK
<1>5. QED
    BY <1>3, <1>4, NewInv DEF CompanionsInv, PlayersOK

LEMMA GiveToPetKeeps ==
    ASSUME CompanionsInv, NEW o \in Owner, NEW p \in DOMAIN pets, NEW g \in Gear, GiveToPet(o, p, g)
    PROVE  CompanionsInv'
<1> DEFINE x == [pets[p] EXCEPT !.items = @ \cup {g}]
<1>1. pets[p] \in Pet /\ Fitted(pets[p]) /\ pets[p].items \subseteq Gear
    BY PetFacts
<1>2. x \in Pet
  <2>1. pets[p].items \cup {g} \in SUBSET Gear
      BY <1>1
  <2>2. QED
      BY <1>1, <2>1, Zenon DEF Pet
<1>3. /\ x.items = pets[p].items \cup {g} /\ SameTags(x, pets[p])
      /\ x.weapon = pets[p].weapon /\ x.armour = pets[p].armour /\ x.add = pets[p].add
    BY <1>1 DEF Pet, SameTags
<1>4. pets' = [pets EXCEPT ![p] = x]
    BY DEF GiveToPet
<1> HIDE DEF x
<1>5. Fitted(x)
    BY <1>1, <1>2, <1>3 DEF Fitted
<1>6. petBag \in [Owner -> SUBSET Gear] /\ pets[p].items \cap petBag[o] = {}
    BY DEF CompanionsInv, BagsOK
<1>7. g \in petBag[o] /\ petBag' = [petBag EXCEPT ![o] = @ \ {g}]
    BY DEF GiveToPet
<1>8. /\ petBag' \in [Owner -> SUBSET Gear]
      /\ \A q \in Owner \ {o} : petBag'[q] = petBag[q]
      /\ petBag'[o] = petBag[o] \ {g}
    BY <1>6, <1>7
<1>9. x.items \cup petBag'[o] = pets[p].items \cup petBag[o] /\ x.items \cap petBag'[o] = {}
    BY <1>3, <1>6, <1>7, <1>8
<1>10. UNCHANGED <<masters, inArena, holder, row, summons, priests, match>>
    BY DEF GiveToPet
<1>11. QED
    BY <1>3, <1>4, <1>5, <1>8, <1>9, <1>10, PetChanges

LEMMA UsePetItemKeeps ==
    ASSUME CompanionsInv, NEW o \in Owner, NEW p \in DOMAIN pets, NEW g \in Gear, UsePetItem(o, p, g)
    PROVE  CompanionsInv'
<1> DEFINE x == IF g \in Armour
                THEN IF pets[p].armour = g THEN UnequipPetArmor(pets[p]) ELSE EquipPetArmor(pets[p], g)
                ELSE IF pets[p].weapon = g THEN UnequipPetWeapon(pets[p]) ELSE EquipPetWeapon(pets[p], g)
<1>1. Fitted(pets[p]) /\ g \in pets[p].items
    BY PetFacts DEF UsePetItem
<1>2. Fitted(x) /\ SameTags(x, pets[p]) /\ x.items = pets[p].items
  <2>1. CASE g \in Armour /\ pets[p].armour = g
      BY <1>1, <2>1, ArmorComesOff
  <2>2. CASE g \in Armour /\ pets[p].armour # g
      BY <1>1, <2>2, ArmorGoesOn
  <2>3. CASE g \notin Armour /\ pets[p].weapon = g
      BY <1>1, <2>3, WeaponComesOff
  <2>4. CASE g \notin Armour /\ pets[p].weapon # g
      BY <1>1, <2>4, WeaponGoesOn
  <2>5. QED
      BY <2>1, <2>2, <2>3, <2>4
<1>3. pets' = [pets EXCEPT ![p] = x]
    BY DEF UsePetItem
<1> HIDE DEF x
<1>4. UNCHANGED <<masters, inArena, holder, row, petBag, summons, priests, match>>
    BY DEF UsePetItem
<1>5. QED
    BY <1>2, <1>3, <1>4, PetChanges

LEMMA CollectPetItemsKeeps ==
    ASSUME CompanionsInv, NEW o \in Owner, NEW p \in DOMAIN pets, CollectPetItems(o, p)
    PROVE  CompanionsInv'
<1> DEFINE bare == UnequipPetArmor(UnequipPetWeapon(pets[p]))
           x == [bare EXCEPT !.items = {}]
<1>1. Fitted(bare) /\ SameTags(bare, pets[p]) /\ bare.weapon = 0 /\ bare.armour = 0
  <2>1. Fitted(pets[p])
      BY PetFacts
  <2>2. /\ Fitted(UnequipPetWeapon(pets[p])) /\ SameTags(UnequipPetWeapon(pets[p]), pets[p])
        /\ UnequipPetWeapon(pets[p]).weapon = 0
      BY <2>1, WeaponComesOff
  <2>3. QED
      BY <2>2, ArmorComesOff DEF SameTags
<1>2. pets' = [pets EXCEPT ![p] = x]
    BY DEF CollectPetItems
<1> HIDE DEF bare
<1>3. bare \in Pet /\ bare.add = 0
    BY <1>1, WorthIsWhole DEF Fitted
<1>4. x \in Pet
  <2>1. {} \in SUBSET Gear
      OBVIOUS
  <2>2. QED
      BY <1>3, <2>1, Zenon DEF Pet
<1>5. x.items = {} /\ SameTags(x, bare) /\ x.weapon = 0 /\ x.armour = 0 /\ x.add = 0
    BY <1>1, <1>3 DEF Pet, SameTags
<1> HIDE DEF x
<1>6. Fitted(x)
    BY <1>4, <1>5, WorthIsWhole DEF Fitted
<1>7. SameTags(x, pets[p])
    BY <1>1, <1>5 DEF SameTags
<1>8. petBag \in [Owner -> SUBSET Gear] /\ pets[p].items \subseteq Gear
    BY PetFacts DEF CompanionsInv, BagsOK
<1>9. /\ petBag' \in [Owner -> SUBSET Gear]
      /\ \A q \in Owner \ {o} : petBag'[q] = petBag[q]
      /\ petBag'[o] = petBag[o] \cup pets[p].items
    BY <1>8 DEF CollectPetItems
<1>10. x.items \cup petBag'[o] = pets[p].items \cup petBag[o] /\ x.items \cap petBag'[o] = {}
    BY <1>5, <1>9
<1>11. UNCHANGED <<masters, inArena, holder, row, summons, priests, match>>
    BY DEF CollectPetItems
<1>12. QED
    BY <1>2, <1>6, <1>7, <1>9, <1>10, <1>11, PetChanges

LEMMA ResurrectPetKeeps ==
    ASSUME CompanionsInv, NEW p \in DOMAIN pets, ResurrectPet(p)
    PROVE  CompanionsInv'
<1> DEFINE x == [pets[p] EXCEPT !.dead = FALSE]
<1>1. Fitted(pets[p]) /\ pets[p] \in Pet
    BY PetFacts
<1>2. Fitted(x) /\ x.items = pets[p].items /\ SameTags(x, pets[p])
  <2>1. Fitted(x) /\ x.items = pets[p].items
      BY <1>1, StateFits
  <2>2. SameTags(x, pets[p])
      BY <1>1 DEF Pet, SameTags
  <2>3. QED
      BY <2>1, <2>2
<1>3. pets' = [pets EXCEPT ![p] = x] /\ pets[p].owner \in Owner
    BY PetFacts DEF ResurrectPet
<1> HIDE DEF x
<1>4. UNCHANGED <<masters, inArena, holder, row, petBag, summons, priests, match>>
    BY DEF ResurrectPet
<1>5. QED
    BY <1>2, <1>3, <1>4, PetChanges

\* With a new collar and undressed, or without a collar.
LEMMA EvolvePetKeeps ==
    ASSUME CompanionsInv, NEW o \in Owner, NEW p \in DOMAIN pets, EvolvePet(o, p)
    PROVE  CompanionsInv'
<1> DEFINE old == pets[p].collar
           n == Len(row)
<1>1. /\ old \in 1..n /\ n \in Nat /\ Len(holder) = n /\ Fitted(pets[p]) /\ pets[p] \in Pet
      /\ HerdOK(pets, n) /\ RowsOK(holder, row)
    BY PetFacts DEF CompanionsInv
<1>2. RowsOK(CollarFrom(o, old), row) /\ RowsOK(CollarFrom(o, old), [row EXCEPT ![old] = NoRow])
      /\ Len([row EXCEPT ![old] = NoRow]) = n
  <2>1. RowsOK(CollarFrom(o, old), row)
      BY <1>1, HolderWithout
  <2>2. QED
      BY <1>1, <2>1, RowEdits
<1>3. UNCHANGED <<masters, inArena, petBag, summons, priests, match>>
    BY DEF EvolvePet
<1>4. CASE holder' = CollarFrom(o, old) /\ UNCHANGED <<row, pets>>
    BY <1>2, <1>3, <1>4, NewInv DEF CompanionsInv, PlayersOK
<1>5. ASSUME n < MaxCollars,
             holder' = Append(CollarFrom(o, old), o),
             row' = Append([row EXCEPT ![old] = NoRow], pets[p].grade + 1),
             pets' = [pets EXCEPT ![p] = UnequipPetArmor(UnequipPetWeapon(
                         [pets[p] EXCEPT !.collar = n + 1, !.grade = @ + 1, !.ac = 0]))],
             pets[p].grade < 2
      PROVE  CompanionsInv'
  <2> DEFINE young == [pets[p] EXCEPT !.collar = n + 1, !.grade = @ + 1, !.ac = 0]
             x == UnequipPetArmor(UnequipPetWeapon(young))
  <2>1. pets[p].grade \in 0..2 /\ pets[p].grade + 1 \in 0..2 /\ n + 1 \in 1..MaxCollars /\ 0 \in Int
      BY <1>1, <1>5, PetFields, CompanionAssumption
  <2>2. young \in Pet
      BY <1>1, <2>1, Zenon DEF Pet
  <2>3. /\ young.owner = pets[p].owner /\ young.collar = n + 1 /\ young.place = pets[p].place
        /\ young.paid = pets[p].paid /\ young.items = pets[p].items
        /\ young.weapon = pets[p].weapon /\ young.armour = pets[p].armour /\ young.add = pets[p].add
      BY <1>1 DEF Pet
  <2> HIDE DEF young
  <2>4. Fitted(young)
      BY <1>1, <2>2, <2>3 DEF Fitted
  <2>5. Fitted(x) /\ SameTags(x, young) /\ x.items = young.items
    <3>1. /\ Fitted(UnequipPetWeapon(young)) /\ SameTags(UnequipPetWeapon(young), young)
          /\ UnequipPetWeapon(young).items = young.items
        BY <2>4, WeaponComesOff
    <3>2. QED
        BY <3>1, ArmorComesOff DEF SameTags
  <2>6. pets' = [pets EXCEPT ![p] = x]
      BY <1>5 DEF young
  <2> HIDE DEF x
  <2>7. /\ x.owner = pets[p].owner /\ x.place = pets[p].place /\ x.paid = pets[p].paid
        /\ x.collar = n + 1 /\ x.items = pets[p].items
      BY <2>3, <2>5 DEF SameTags
  <2>8. \A q \in DOMAIN pets \ {p} : x.items \cap pets[q].items = {}
      BY <1>1, <2>7 DEF HerdOK
  <2>9. LET qs == [pets EXCEPT ![p] = x]
        IN  /\ HerdOK(qs, n + 1)
            /\ \A slot : Follows(pets, slot) => Follows(qs, slot)
            /\ \A s : CharismaOK(pets, s) => CharismaOK(qs, s)
            /\ qs[p] = x /\ DOMAIN qs = DOMAIN pets /\ \A q \in DOMAIN pets \ {p} : qs[q] = pets[q]
    <3> DEFINE m == n + 1
    <3>1. /\ m \in 1..MaxCollars /\ n <= m /\ x.collar <= m
          /\ x.collar = pets[p].collar \/ x.collar > n
        BY <1>1, <2>1, <2>7
    <3> HIDE DEF m, n
    <3>2. LET qs == [pets EXCEPT ![p] = x]
          IN  /\ HerdOK(qs, m)
              /\ \A slot : Follows(pets, slot) => Follows(qs, slot)
              /\ \A s : CharismaOK(pets, s) => CharismaOK(qs, s)
              /\ qs[p] = x /\ DOMAIN qs = DOMAIN pets /\ \A q \in DOMAIN pets \ {p} : qs[q] = pets[q]
        BY <1>1, <2>5, <2>7, <2>8, <3>1, OneChanges
    <3>3. QED
        BY <3>2 DEF m
  <2>10. BagsOK(pets', petBag)
      BY <2>6, <2>7, <2>9 DEF BagsOK, CompanionsInv
  <2>11. RowsOK(holder', row') /\ Len(row') = n + 1
    <3>1. Len(CollarFrom(o, old)) = n
        BY <1>1, <1>2, RowEdits
    <3>2. QED
        BY <1>2, <1>5, <2>1, <3>1, RowMore
  <2>12. QED
      BY <1>3, <2>6, <2>9, <2>10, <2>11, NewInv DEF CompanionsInv, PlayersOK
<1>6. QED
    BY <1>1, <1>4, <1>5 DEF EvolvePet
-----------------------------------------------------------------------------
\* Creatures.
LEMMA NewSummons ==
    ASSUME CompanionsInv, CharismaOK(pets, summons'),
           UNCHANGED <<masters, inArena, holder, row, pets, petBag, priests, match>>
    PROVE  CompanionsInv'
BY NewInv DEF CompanionsInv, PlayersOK

LEMMA SummonMonsterKeeps ==
    ASSUME CompanionsInv, NEW o \in Owner, NEW k \in Origin, SummonMonster(o, k)
    PROVE  CompanionsInv'
<1> DEFINE avail == Charisma + 6 - UsedPetCost(o)
           d == IF k = "special" THEN 1 ELSE avail \div PetCost(k)
<1>1. PetCost(k) \in Nat \ {0} /\ k # "elemental"
    BY PricesFit, CostOfNone DEF SummonMonster
<1>2. UsedPetCost(o) \in Nat /\ Charisma \in Nat
    BY UsedIsWhole
<1>3. avail \in Nat /\ avail >= PetCost(k)
    BY <1>1, <1>2 DEF SummonMonster
<1>4. summons' = [summons EXCEPT ![o][k] = @ + d]
    BY DEF SummonMonster
<1>5. d \in Nat /\ avail >= d * PetCost(k)
  <2> HIDE DEF avail
  <2>1. CASE k = "special"
    <3>1. 1 * PetCost(k) = PetCost(k)
        BY <1>1
    <3>2. QED
        BY <1>3, <2>1, <3>1
  <2>2. CASE k # "special"
    <3>1. \A a \in Nat, b \in Nat \ {0} : a \div b \in Nat /\ (a \div b) * b <= a
        OBVIOUS
    <3>2. avail \div PetCost(k) \in Nat /\ (avail \div PetCost(k)) * PetCost(k) <= avail
        BY <1>1, <1>3, <3>1
    <3>3. d = avail \div PetCost(k)
        BY <2>2
    <3>4. (avail \div PetCost(k)) * PetCost(k) \in Nat
        BY <1>1, <3>2
    <3>5. QED
        BY <1>3, <3>2, <3>3, <3>4
  <2>3. QED
      BY <2>1, <2>2
<1> HIDE DEF d
<1>6. Charisma + 6 - UsedPetCost(o) >= d * PetCost(k) /\ Charisma + 6 - UsedPetCost(o) >= 0
    BY <1>3, <1>5
<1> HIDE DEF avail
<1>7. CharismaOK(pets, summons')
    BY <1>1, <1>4, <1>5, <1>6, CharismaMoreCreatures
<1>8. QED
    BY <1>7, NewSummons DEF SummonMonster

LEMMA TameMonsterKeeps ==
    ASSUME CompanionsInv, NEW o \in Owner, TameMonster(o)
    PROVE  CompanionsInv'
<1>1. UsedPetCost(o) \in Nat /\ Charisma \in Nat /\ SpellBonus[o] \in Nat
    BY UsedIsWhole
<1>2. "tamed" \in Origin /\ PetCost("tamed") = 6 /\ 1 * PetCost("tamed") = 6
    BY DEF Origin, PetCost
<1>3. Charisma + SpellBonus[o] - UsedPetCost(o) >= 6
    BY DEF TameMonster
<1>4. summons' = [summons EXCEPT ![o]["tamed"] = @ + 1]
    BY DEF TameMonster
<1>5. Charisma + SpellBonus[o] - UsedPetCost(o) >= 1 * PetCost("tamed")
    BY <1>2, <1>3
<1>6. CharismaOK(pets, [summons EXCEPT ![o]["tamed"] = @ + 1])
  <2> DEFINE k == "tamed"
             d == 1
             x == SpellBonus[o]
  <2>1. /\ k \in Origin /\ k # "elemental" /\ d \in Nat
        /\ x \in {7, TameBonus[o], SpellBonus[o], 6}
        /\ Charisma + x - UsedPetCost(o) >= d * PetCost(k)
        /\ Charisma + x - UsedPetCost(o) >= 6 \/ (x = 6 /\ Charisma + x - UsedPetCost(o) >= 0)
      BY <1>2, <1>3, <1>5
  <2> HIDE DEF k, d, x
  <2>2. CharismaOK(pets, [summons EXCEPT ![o][k] = @ + d])
      BY <2>1, CharismaMoreCreatures
  <2>3. QED
      BY <2>2 DEF k, d
<1>7. QED
    BY <1>4, <1>6, NewSummons DEF TameMonster

\* It may come when nothing else is there.
LEMMA ElementalKeeps ==
    ASSUME CompanionsInv, NEW o \in Owner, ExecuteElementalSummon(o)
    PROVE  CompanionsInv'
<1>1. UsedPetCost(o) = 0 /\ summons' = [summons EXCEPT ![o]["elemental"] = 1]
    BY DEF ExecuteElementalSummon
<1>2. PICK u \in Nat : UsedPetCost(o) = 6 * Cardinality(Charged(pets, o)) + Cost(summons[o]) + 6 * u
    BY UsedIsMore
<1>3. Cost(summons[o]) = 0 /\ Cardinality(Charged(pets, o)) = 0
  <2>1. Cost(summons[o]) \in Nat /\ Cardinality(Charged(pets, o)) \in Nat
      BY UsedIsMore
  <2>2. \A a, b, v \in Nat : 0 = 6 * a + b + 6 * v => a = 0 /\ b = 0
      OBVIOUS
  <2>3. QED
      BY <1>1, <1>2, <2>1, <2>2
<1>4. Charged(pets, o) = {}
  <2>1. IsFiniteSet(Charged(pets, o))
      BY PaidIsFinite DEF CompanionsInv, HerdOK
  <2>2. QED
      BY <1>3, <2>1, FS_EmptySet
<1>5. summons \in [Owner -> [Origin -> Nat]] /\ summons[o] \in [Origin -> Nat]
    BY DEF CompanionsInv, CharismaOK
<1>6. ASSUME NEW k \in Origin
      PROVE  summons[o][k] = 0
  <2> SUFFICES ASSUME summons[o][k] # 0
               PROVE  FALSE
      OBVIOUS
  <2> DEFINE s == summons[o]
             d == s[k]
             less == [s EXCEPT ![k] = 0]
  <2>1. less \in [Origin -> Nat] /\ d \in Nat \ {0} /\ s = [less EXCEPT ![k] = @ + d]
    <3>1. s \in [Origin -> Nat] /\ s[k] # 0
        BY <1>5
    <3> HIDE DEF s
    <3>2. less \in [Origin -> Nat] /\ d \in Nat \ {0} /\ less[k] = 0
        BY <3>1
    <3>3. \A j \in Origin : [less EXCEPT ![k] = @ + d][j] = s[j]
        BY <3>1, <3>2
    <3>4. [less EXCEPT ![k] = @ + d] \in [Origin -> Nat]
        BY <3>2
    <3>5. QED
        BY <3>1, <3>2, <3>3, <3>4
  <2> HIDE DEF less, d
  <2>2. Cost(summons[o]) = Cost(less) + d * PetCost(k)
      BY <2>1, CostMore
  <2>3. Cost(less) \in Nat /\ PetCost(k) \in Nat \ {0}
      BY <2>1, PricesFit
  <2>4. d * PetCost(k) > 0
      BY <2>1, <2>3
  <2>5. QED
      BY <1>3, <2>1, <2>2, <2>3, <2>4
<1>7. /\ summons' \in [Owner -> [Origin -> Nat]] /\ summons'[o]["elemental"] = 1
      /\ \A k \in Origin \ {"elemental"} : summons'[o][k] = 0
      /\ \A w \in Owner \ {o} : summons'[w] = summons[w]
  <2>1. "elemental" \in Origin
      BY DEF Origin
  <2>2. QED
      BY <1>1, <1>5, <1>6, <2>1
<1>8. Cost(summons'[o]) = Charisma + 7
    BY <1>7, CostOfNone
<1>9. ASSUME NEW w \in Owner
      PROVE  /\ \E x \in {7, TameBonus[w], SpellBonus[w]} :
                  6 * Cardinality(Charged(pets, w)) + Cost(summons'[w]) <= Charisma + x
             /\ summons'[w]["elemental"] > 0 =>
                  /\ Charged(pets, w) = {} /\ summons'[w]["elemental"] = 1
                  /\ \A k \in Origin \ {"elemental"} : summons'[w][k] = 0
  <2>1. CASE w = o
    <3>1. 6 * Cardinality(Charged(pets, o)) + Cost(summons'[o]) <= Charisma + 7
        BY <1>3, <1>8, CompanionAssumption
    <3>2. QED
        BY <1>4, <1>7, <2>1, <3>1
  <2>2. CASE w # o
      BY <1>7, <2>2 DEF CompanionsInv, CharismaOK
  <2>3. QED
      BY <2>1, <2>2
<1>10. CharismaOK(pets, summons')
    BY <1>7, <1>9 DEF CharismaOK
<1>11. QED
    BY <1>10, NewSummons DEF ExecuteElementalSummon

\* Some are sent away.
LEMMA FewerSummons ==
    ASSUME CompanionsInv, summons' \in [Owner -> [Origin -> Nat]],
           \A o \in Owner, k \in Origin : summons'[o][k] <= summons[o][k],
           UNCHANGED <<masters, inArena, holder, row, pets, petBag, priests, match>>
    PROVE  CompanionsInv'
<1>1. Lessens(pets, pets)
    BY PetFacts DEF Lessens
<1>2. CharismaOK(pets, summons')
    BY <1>1, CharismaLess DEF CompanionsInv
<1>3. QED
    BY <1>2, NewSummons

LEMMA SummonsGo ==
    ASSUME CompanionsInv, NEW o \in Owner,
           ReturnToNature(o) \/ \E k \in Origin : DismissSummon(o, k)
    PROVE  CompanionsInv'
<1>1. summons \in [Owner -> [Origin -> Nat]]
    BY DEF CompanionsInv, CharismaOK
<1>2. CASE ReturnToNature(o)
  <2>1. NoSummons \in [Origin -> Nat] /\ \A k \in Origin : NoSummons[k] = 0
      BY DEF NoSummons
  <2>2. summons' = [summons EXCEPT ![o] = NoSummons]
      BY <1>2 DEF ReturnToNature
  <2>3. /\ summons' \in [Owner -> [Origin -> Nat]]
        /\ \A w \in Owner, k \in Origin : summons'[w][k] <= summons[w][k]
      BY <1>1, <2>1, <2>2
  <2>4. QED
      BY <1>2, <2>3, FewerSummons DEF ReturnToNature
<1>3. CASE \E k \in Origin : DismissSummon(o, k)
  <2>1. PICK k \in Origin : DismissSummon(o, k)
      BY <1>3
  <2>2. summons' = [summons EXCEPT ![o][k] = @ - 1] /\ summons[o][k] > 0
      BY <2>1 DEF DismissSummon
  <2>3. /\ summons' \in [Owner -> [Origin -> Nat]]
        /\ \A w \in Owner, j \in Origin : summons'[w][j] <= summons[w][j]
      BY <1>1, <2>2
  <2>4. QED
      BY <2>1, <2>3, FewerSummons DEF DismissSummon
<1>4. QED
    BY <1>2, <1>3
-----------------------------------------------------------------------------
\* The match.  A player who enters has no pet, and stands in no place of the slot yet.
LEMMA SlotEntered ==
    ASSUME CompanionsInv, NEW o \in masters \ inArena, SlotStatus # "playing"
    PROVE  LET k == IF SlotStatus = "ready1" THEN 2 ELSE 1
               m == IF SlotStatus = "none" THEN [status |-> "ready1", pc |-> <<o, NoChar>>, clock |-> 0]
                    ELSE [SlotView EXCEPT !.status = "playing", !.pc[k] = o, !.clock = 0]
           IN  SlotOK(m) /\ m.pc[k] = o
<1> DEFINE k == IF SlotStatus = "ready1" THEN 2 ELSE 1
           v == SlotView
           new == [status |-> "ready1", pc |-> <<o, NoChar>>, clock |-> 0]
           both == [v EXCEPT !.status = "playing", !.pc[k] = o, !.clock = 0]
<1>1. o \in Owner /\ o # NoChar /\ inArena \subseteq Owner
    BY CompanionAssumption DEF CompanionsInv, PlayersOK
<1>2. CASE SlotStatus = "none"
  <2>1. new.pc \in [{1, 2} -> Owner \cup {NoChar}] /\ new.pc[1] = o /\ new.pc[2] = NoChar
      BY <1>1
  <2>2. SlotOK(new)
      BY <1>1, <2>1 DEF SlotOK, Slot
  <2>3. QED
      BY <1>2, <2>1, <2>2
<1>3. CASE SlotStatus \in {"ready1", "ready2"}
  <2>1. v \in Slot /\ k \in {1, 2}
      BY ViewFits DEF SlotOK
  <2>2. v.pc[3 - k] \in inArena
    <3>1. match.pc[3 - k] \in inArena /\ 3 - k \in {1, 2}
        BY <1>3, StatusTells
    <3>2. QED
        BY <1>3, <3>1, ViewFits
  <2> HIDE DEF v
  <2>3. /\ both \in Slot /\ both.status = "playing" /\ both.pc[k] = o
        /\ both.pc[3 - k] = v.pc[3 - k]
    <3>1. [v.pc EXCEPT ![k] = o] \in [{1, 2} -> Owner \cup {NoChar}]
        BY <1>1, <2>1 DEF Slot
    <3>2. [v.pc EXCEPT ![k] = o][k] = o /\ [v.pc EXCEPT ![k] = o][3 - k] = v.pc[3 - k]
        BY <2>1 DEF Slot
    <3> DEFINE pc == [v.pc EXCEPT ![k] = o]
    <3>3. both = [v EXCEPT !.status = "playing", !.pc = pc, !.clock = 0]
        BY <2>1 DEF Slot
    <3> HIDE DEF pc, both
    <3>4. QED
        BY <2>1, <3>1, <3>2, <3>3 DEF Slot, pc
  <2>4. both.pc[1] # both.pc[2]
      BY <2>1, <2>2, <2>3
  <2> HIDE DEF both
  <2>5. SlotOK(both)
      BY <2>3, <2>4 DEF SlotOK
  <2>6. QED
      BY <1>3, <2>3, <2>5 DEF both, v
<1>4. QED
    BY <1>2, <1>3, StatusTells

LEMMA EnteredFits ==
    ASSUME CompanionsInv, NEW o \in Owner, NEW c \in 1..Len(row), row[c] # NoRow, PetsOf(o) = {},
           Room, NEW k \in {1, 2}, NEW m, m.pc[k] = o
    PROVE  LET out == Called(Placed(pets, m), o, c, row[c], k)
           IN  /\ HerdOK(out, Len(row)) /\ BagsOK(out, petBag)
               /\ CharismaOK(out, summons) /\ Follows(out, m)
<1> DEFINE ps == Placed(pets, m)
           out == Called(ps, o, c, row[c], k)
           n == Len(row)
<1>1. Lessens(ps, pets) /\ DOMAIN ps = DOMAIN pets /\ Follows(ps, m)
    BY PlacedFits DEF CompanionsInv
<1> HIDE DEF ps
<1>2. HerdOK(ps, n) /\ BagsOK(ps, petBag)
    BY <1>1, HerdLess, BagsLess DEF CompanionsInv
<1>3. CharismaOK(ps, summons)
  <2>1. \A w \in Owner, j \in Origin : summons[w][j] <= summons[w][j]
      BY DEF CompanionsInv, CharismaOK
  <2>2. summons \in [Owner -> [Origin -> Nat]]
      BY DEF CompanionsInv, CharismaOK
  <2>3. HerdOK(pets, n) /\ CharismaOK(pets, summons)
      BY DEF CompanionsInv
  <2> HIDE DEF n
  <2>4. QED
      BY <1>1, <2>1, <2>2, <2>3, CharismaLess
<1>4. \A q \in DOMAIN ps : ps[q].owner # o /\ ps[q].place # k
  <2>1. \A q \in DOMAIN ps : ps[q].owner # o
      BY <1>1 DEF Lessens, PetsOf
  <2>2. QED
      BY <1>1, <2>1 DEF Follows
<1>5. MayCall(ps, n, o, c, row[c], k)
  <2>1. row[c] \in 0..2 /\ n \in 1..MaxCollars
    <3>1. row[c] \in {NoRow, 0, 1, 2} /\ n \in 1..MaxCollars
        BY RowEdits DEF CompanionsInv
    <3>2. QED
        BY <3>1
  <2>2. PetId \ DOMAIN ps # {}
      BY <1>1 DEF Room
  <2>3. QED
      BY <1>2, <1>4, <2>1, <2>2 DEF MayCall
<1>6. HerdOK(out, n) /\ IsMore(out, ps, o, k)
    BY <1>5, CalledFits
<1> HIDE DEF out
<1>7. BagsOK(out, petBag) /\ Follows(out, m)
    BY <1>1, <1>2, <1>6, MoreFits
<1>8. CharismaOK(out, summons)
  <2>1. \A w : Charged(out, w) = Charged(ps, w)
    <3>1. k # 0
        OBVIOUS
    <3>2. QED
        BY <1>6, <3>1 DEF IsMore, Charged
  <2>2. QED
      BY <1>3, <2>1 DEF CharismaOK
<1>9. QED
    BY <1>6, <1>7, <1>8 DEF out, ps

LEMMA EnterPetMatchKeeps ==
    ASSUME CompanionsInv, NEW o \in Owner, NEW c \in DOMAIN holder, EnterPetMatch(o, c)
    PROVE  CompanionsInv'
<1> DEFINE k == IF SlotStatus = "ready1" THEN 2 ELSE 1
           m == IF SlotStatus = "none" THEN [status |-> "ready1", pc |-> <<o, NoChar>>, clock |-> 0]
                ELSE [SlotView EXCEPT !.status = "playing", !.pc[k] = o, !.clock = 0]
           out == Called(Placed(pets, m), o, c, row[c], k)
           Same == UNCHANGED <<masters, holder, row, petBag, summons, priests>>
<1>1. /\ o \in masters \ inArena /\ PetsOf(o) = {} /\ SlotStatus # "playing" /\ Same
      /\ c \in 1..Len(row)
    BY PetFacts DEF EnterPetMatch
<1>2. CASE row[c] = NoRow
  <2>1. pets' = Placed(pets, SlotView) /\ match' = SlotView /\ inArena' = inArena
      BY <1>2 DEF EnterPetMatch
  <2>2. Lessens(pets', pets) /\ Follows(pets', match')
      BY <2>1, PlacedFits DEF CompanionsInv
  <2>3. SlotOK(match')
      BY <2>1, ViewFits
  <2>4. QED
      BY <1>1, <2>1, <2>2, <2>3, SameSummons, FewerPets DEF CompanionsInv, PlayersOK
<1>3. CASE row[c] # NoRow
  <2>1. SlotOK(m) /\ m.pc[k] = o /\ k \in {1, 2}
      BY <1>1, SlotEntered
  <2>2. /\ Room
        /\ \/ EndMatch(out, m, inArena \cup {o})
           \/ pets' = out /\ match' = m /\ inArena' = inArena \cup {o}
      BY <1>3 DEF EnterPetMatch
  <2> HIDE DEF m, k
  <2>3. /\ HerdOK(out, Len(row)) /\ BagsOK(out, petBag)
        /\ CharismaOK(out, summons) /\ Follows(out, m)
      BY <1>1, <1>3, <2>1, <2>2, EnteredFits
  <2> HIDE DEF out
  <2>4. inArena \cup {o} \subseteq Owner
      BY DEF CompanionsInv, PlayersOK
  <2>5. CASE pets' = out /\ match' = m /\ inArena' = inArena \cup {o}
      BY <1>1, <2>1, <2>3, <2>4, <2>5, NewInv DEF CompanionsInv, PlayersOK
  <2>6. CASE EndMatch(out, m, inArena \cup {o})
    <3>1. Lessens(pets', out) /\ Follows(pets', match') /\ SlotOK(match') /\ inArena' \subseteq Owner
        BY <2>3, <2>4, <2>6, EndMatchFits
    <3>2. HerdOK(pets', Len(row)) /\ BagsOK(pets', petBag)
        BY <2>3, <3>1, HerdLess, BagsLess
    <3>3. CharismaOK(pets', summons)
      <4>1. /\ summons \in [Owner -> [Origin -> Nat]]
            /\ \A w \in Owner, j \in Origin : summons[w][j] <= summons[w][j]
          BY DEF CompanionsInv, CharismaOK
      <4>2. QED
          BY <2>3, <3>1, <4>1, CharismaLess
    <3>4. QED
        BY <1>1, <3>1, <3>2, <3>3, NewInv DEF CompanionsInv, PlayersOK
  <2>7. QED
      BY <2>2, <2>5, <2>6
<1>4. QED
    BY <1>2, <1>3
-----------------------------------------------------------------------------
\* Ticks, and leaving the world.
LEMMA TickSummonsFits ==
    ASSUME CompanionsInv, TickSummons
    PROVE  /\ summons' \in [Owner -> [Origin -> Nat]]
           /\ \A o \in Owner, k \in Origin : summons'[o][k] <= summons[o][k]
<1> DEFINE there == [o \in Owner |-> IF o \in masters THEN summons[o] ELSE NoSummons]
<1>1. summons \in [Owner -> [Origin -> Nat]] /\ masters \subseteq Owner
    BY DEF CompanionsInv, CharismaOK, PlayersOK
<1>2. NoSummons \in [Origin -> Nat] /\ \A k \in Origin : NoSummons[k] = 0
    BY DEF NoSummons
<1>3. there \in [Owner -> [Origin -> Nat]] /\ \A o \in Owner, k \in Origin : there[o][k] <= summons[o][k]
    BY <1>1, <1>2
<1>4. \A o \in masters : there[o] = summons[o]
    BY <1>1
<1> HIDE DEF there
<1>5. CASE summons' = there
    BY <1>3, <1>5
<1>6. ASSUME NEW o \in masters, NEW k \in Origin, NEW n \in 1..summons[o][k],
             summons' = [there EXCEPT ![o][k] = @ - n]
      PROVE  /\ summons' \in [Owner -> [Origin -> Nat]]
             /\ \A w \in Owner, j \in Origin : summons'[w][j] <= summons[w][j]
  <2>1. there[o][k] - n \in Nat /\ n \in Nat
      BY <1>1, <1>4
  <2>2. QED
      BY <1>1, <1>3, <1>6, <2>1
<1>7. QED
    BY <1>5, <1>6 DEF TickSummons, there

LEMMA TickMatchFits ==
    ASSUME CompanionsInv, NEW ps, Lessens(ps, pets), TickPetMatches(ps)
    PROVE  /\ Lessens(pets', pets) /\ SlotOK(match') /\ inArena' \subseteq Owner
           /\ match' = match \/ Follows(pets', match')
<1>1. HerdOK(ps, Len(row)) /\ Follows(ps, match)
    BY HerdLess, FollowsLess DEF CompanionsInv
<1>2. inArena \subseteq Owner /\ SlotOK(match)
    BY DEF CompanionsInv, PlayersOK
<1>3. CASE EndMatch(ps, match, inArena)
  <2>1. Lessens(pets', ps) /\ Follows(pets', match') /\ SlotOK(match') /\ inArena' \subseteq Owner
      BY <1>1, <1>2, <1>3, EndMatchFits
  <2>2. QED
      BY <2>1, LessensTwice
<1>4. CASE match.status = "none" /\ pets' = ps /\ UNCHANGED <<inArena, match>>
    BY <1>2, <1>4
<1>5. CASE /\ match.status # "none"
           /\ pets' = ps /\ match' = [match EXCEPT !.clock = @ + 1] /\ UNCHANGED inArena
  <2>1. match'.pc = match.pc /\ match'.status = match.status /\ match' \in Slot
      BY <1>2, <1>5 DEF SlotOK, Slot
  <2>2. SlotOK(match')
      BY <1>2, <1>5, <2>1 DEF SlotOK
  <2>3. Follows(pets', match')
      BY <1>1, <1>5, <2>1 DEF Follows
  <2>4. QED
      BY <1>2, <1>5, <2>2, <2>3
<1>6. QED
    BY <1>3, <1>4, <1>5 DEF TickPetMatches

LEMMA CompanionTickKeeps ==
    ASSUME CompanionsInv, CompanionTick
    PROVE  CompanionsInv'
<1>1. PICK S \in SUBSET MayFall : row' = SavedRows(Strays) /\ TickPetMatches(NoPet(Fallen(S), Strays))
    BY DEF CompanionTick
<1>2. Lessens(Fallen(S), pets)
    BY FallenFits DEF CompanionsInv
<1>3. HerdOK(Fallen(S), Len(row))
    BY <1>2, HerdLess DEF CompanionsInv
<1>4. Lessens(NoPet(Fallen(S), Strays), Fallen(S))
    BY <1>3, NoPetFits
<1>5. Lessens(NoPet(Fallen(S), Strays), pets)
    BY <1>2, <1>4, LessensTwice
<1>6. /\ Lessens(pets', pets) /\ SlotOK(match') /\ inArena' \subseteq Owner
      /\ match' = match \/ Follows(pets', match')
    BY <1>1, <1>5, TickMatchFits
<1>7. RowsOK(holder, row') /\ Len(row') = Len(row)
    BY <1>1, SavedRowsFit DEF Strays
<1>8. /\ summons' \in [Owner -> [Origin -> Nat]]
      /\ \A o \in Owner, k \in Origin : summons'[o][k] <= summons[o][k]
    BY TickSummonsFits DEF CompanionTick
<1>9. PlayersOK' /\ holder' = holder /\ petBag' = petBag
    BY <1>6 DEF CompanionTick, CompanionsInv, PlayersOK
<1>10. QED
    BY <1>6, <1>7, <1>8, <1>9, FewerPets

LEMMA CompanionDisconnectKeeps ==
    ASSUME CompanionsInv, NEW o \in Owner, CompanionDisconnect(o)
    PROVE  CompanionsInv'
<1>1. Lessens(pets', pets)
    BY NoPetFits DEF CompanionDisconnect, CompanionsInv
<1>2. RowsOK(holder, row') /\ Len(row') = Len(row)
    BY SavedRowsFit DEF CompanionDisconnect, PetsOf
<1>3. /\ summons' \in [Owner -> [Origin -> Nat]]
      /\ \A w \in Owner, k \in Origin : summons'[w][k] <= summons[w][k]
  <2>1. NoSummons \in [Origin -> Nat] /\ \A k \in Origin : NoSummons[k] = 0
      BY DEF NoSummons
  <2>2. summons \in [Owner -> [Origin -> Nat]] /\ summons' = [summons EXCEPT ![o] = NoSummons]
      BY DEF CompanionsInv, CharismaOK, CompanionDisconnect
  <2>3. QED
      BY <2>1, <2>2
<1>4. PlayersOK' /\ holder' = holder /\ petBag' = petBag /\ match' = match /\ SlotOK(match)
    BY DEF CompanionDisconnect, CompanionsInv, PlayersOK
<1>5. QED
    BY <1>1, <1>2, <1>3, <1>4, FewerPets

LEMMA OthersKeep ==
    ASSUME CompanionsInv, PlayersOK',
           UNCHANGED <<holder, row, pets, petBag, summons, match>>
    PROVE  CompanionsInv'
BY NewInv DEF CompanionsInv

LEMMA CompanionsInvNext ==
    CompanionsInv /\ [CompanionNext]_companionVars => CompanionsInv'
<1> SUFFICES ASSUME CompanionsInv, [CompanionNext]_companionVars
             PROVE  CompanionsInv'
    OBVIOUS
<1>1. CASE UNCHANGED companionVars
    BY <1>1, OthersKeep DEF companionVars, CompanionsInv, PlayersOK
<1>2. CASE CompanionTick
    BY <1>2, CompanionTickKeeps
<1>3. CASE \E p \in DOMAIN pets : ResurrectPet(p)
    BY <1>3, ResurrectPetKeeps
<1>4. CASE CompanionStep
  <2>1. PICK o \in Owner :
            \/ \E c \in DOMAIN holder :
                  \/ UsePetCollar(o, c) \/ CollectPet(o, c) \/ EnterPetMatch(o, c)
                  \/ \E q \in Owner : PassCollar(o, q, c)
            \/ \E p \in DOMAIN pets :
                  \/ DismissPet(o, p) \/ EvolvePet(o, p) \/ CollectPetItems(o, p)
                  \/ \E g \in Gear : GiveToPet(o, p, g) \/ UsePetItem(o, p, g)
            \/ TameNpc(o) \/ TameMonster(o) \/ ExecuteElementalSummon(o) \/ ReturnToNature(o)
            \/ \E k \in Origin : SummonMonster(o, k) \/ DismissSummon(o, k)
            \/ \E invisible \in BOOLEAN : UseHierarch(o, invisible)
            \/ LeaveArena(o) \/ CompanionDisconnect(o) \/ CompanionChangeChar(o) \/ CompanionEnter(o)
      BY <1>4 DEF CompanionStep
  <2>2. CASE \E c \in DOMAIN holder :
                \/ UsePetCollar(o, c) \/ CollectPet(o, c) \/ EnterPetMatch(o, c)
                \/ \E q \in Owner : PassCollar(o, q, c)
      BY <2>2, UsePetCollarKeeps, CollectPetKeeps, EnterPetMatchKeeps, PassCollarKeeps
  <2>3. CASE \E p \in DOMAIN pets :
                \/ DismissPet(o, p) \/ EvolvePet(o, p) \/ CollectPetItems(o, p)
                \/ \E g \in Gear : GiveToPet(o, p, g) \/ UsePetItem(o, p, g)
      BY <2>3, DismissPetKeeps, EvolvePetKeeps, CollectPetItemsKeeps, GiveToPetKeeps, UsePetItemKeeps
  <2>4. CASE TameNpc(o) \/ TameMonster(o) \/ ExecuteElementalSummon(o)
      BY <2>4, TameNpcKeeps, TameMonsterKeeps, ElementalKeeps
  <2>5. CASE ReturnToNature(o) \/ \E k \in Origin : SummonMonster(o, k) \/ DismissSummon(o, k)
      BY <2>5, SummonsGo, SummonMonsterKeeps
  <2>6. CASE \E invisible \in BOOLEAN : UseHierarch(o, invisible)
      BY <2>6, OthersKeep DEF UseHierarch, CompanionsInv, PlayersOK
  <2>7. CASE LeaveArena(o) \/ CompanionChangeChar(o) \/ CompanionEnter(o)
      BY <2>7, OthersKeep
         DEF LeaveArena, CompanionChangeChar, CompanionEnter, CompanionsInv, PlayersOK
  <2>8. CASE CompanionDisconnect(o)
      BY <2>8, CompanionDisconnectKeeps
  <2>9. QED
      BY <2>1, <2>2, <2>3, <2>4, <2>5, <2>6, <2>7, <2>8
<1>5. QED
    BY <1>1, <1>2, <1>3, <1>4 DEF CompanionNext
-----------------------------------------------------------------------------
LEMMA WornAddsUp ==
    ASSUME NEW pet, Fitted(pet)
    PROVE  pet.add = SumFunctionOnSet(Bonus, {pet.weapon, pet.armour} \ {0})
<1> DEFINE w == pet.weapon
           a == pet.armour
           worn == {w, a} \ {0}
<1>1. /\ w \in (Gear \ Armour) \cup {0} /\ a \in Armour \cup {0} /\ pet.add = Worth(w) + Worth(a)
    BY PetFields DEF Fitted
<1>2. Armour \subseteq Gear /\ 0 \notin Gear /\ Bonus \in [Gear -> Nat]
    BY CompanionAssumption
<1> HIDE DEF w, a
<1>3. SumFunctionOnSet(Bonus, {}) = 0
    BY SumEmpty
<1>4. ASSUME NEW g \in Gear
      PROVE  SumFunctionOnSet(Bonus, {g}) = Bonus[g]
  <2>1. IsFiniteSet({g}) /\ {g} \ {g} = {}
      BY FS_Singleton
  <2>2. SumFunctionOnSet(Bonus, {g}) = Bonus[g] + SumFunctionOnSet(Bonus, {g} \ {g})
    <3>1. \A x \in {g} : Bonus[x] \in Int
        BY <1>2
    <3>2. QED
        BY <2>1, <3>1, SumWithout
  <2>3. QED
      BY <1>2, <1>3, <2>1, <2>2
<1>5. ASSUME w = 0 /\ a = 0
      PROVE  SumFunctionOnSet(Bonus, worn) = Worth(w) + Worth(a)
  <2>1. worn = {}
      BY <1>5
  <2>2. Worth(0) = 0
      BY DEF Worth
  <2> HIDE DEF worn
  <2>3. QED
      BY <1>3, <1>5, <2>1, <2>2
<1>6. ASSUME w # 0 /\ a = 0
      PROVE  SumFunctionOnSet(Bonus, worn) = Worth(w) + Worth(a)
  <2>1. worn = {w} /\ w \in Gear
      BY <1>1, <1>6
  <2>2. Worth(w) = Bonus[w] /\ Worth(a) = 0 /\ Bonus[w] \in Nat
      BY <1>2, <1>6, <2>1 DEF Worth
  <2> HIDE DEF worn
  <2>3. QED
      BY <1>4, <2>1, <2>2
<1>7. ASSUME w = 0 /\ a # 0
      PROVE  SumFunctionOnSet(Bonus, worn) = Worth(w) + Worth(a)
  <2>1. worn = {a} /\ a \in Gear
      BY <1>1, <1>2, <1>7
  <2>2. Worth(a) = Bonus[a] /\ Worth(w) = 0 /\ Bonus[a] \in Nat
      BY <1>2, <1>7, <2>1 DEF Worth
  <2> HIDE DEF worn
  <2>3. QED
      BY <1>4, <2>1, <2>2
<1>8. ASSUME w # 0 /\ a # 0
      PROVE  SumFunctionOnSet(Bonus, worn) = Worth(w) + Worth(a)
  <2>1. worn = {w, a} /\ w \in Gear /\ a \in Gear /\ w # a
      BY <1>1, <1>2, <1>8
  <2>2. Worth(a) = Bonus[a] /\ Worth(w) = Bonus[w] /\ Bonus[a] \in Nat /\ Bonus[w] \in Nat
      BY <1>2, <1>8, <2>1 DEF Worth
  <2>3. IsFiniteSet({w, a}) /\ {w, a} \ {w} = {a} /\ \A x \in {w, a} : Bonus[x] \in Int
    <3>1. IsFiniteSet({w} \cup {a}) /\ {w} \cup {a} = {w, a}
        BY FS_Singleton, FS_AddElement
    <3>2. QED
        BY <1>2, <2>1, <3>1
  <2>4. SumFunctionOnSet(Bonus, {w, a}) = Bonus[w] + SumFunctionOnSet(Bonus, {w, a} \ {w})
      BY <2>3, SumWithout
  <2>5. QED
      BY <1>4, <2>1, <2>2, <2>3, <2>4
<1>9. SumFunctionOnSet(Bonus, worn) = Worth(w) + Worth(a)
    BY <1>5, <1>6, <1>7, <1>8
<1>10. QED
    BY <1>1, <1>9 DEF w, a

\* What a run shows of it.
LEMMA CompanionsInvAgrees ==
    CompanionsInv => CompanionsAgree
<1> SUFFICES ASSUME CompanionsInv
             PROVE  CompanionsAgree
    OBVIOUS
<1>1. CompanionsTypeOK
  <2>1. \A p \in DOMAIN pets :
            /\ pets[p].owner \in Owner /\ pets[p].collar \in DOMAIN row /\ pets[p].grade \in 0 .. 2
            /\ pets[p].place \in 0 .. 2 /\ pets[p].paid \in BOOLEAN /\ pets[p].items \subseteq Gear
            /\ {pets[p].weapon, pets[p].armour} \subseteq Gear \cup {0}
    <3>1. ASSUME NEW p \in DOMAIN pets
          PROVE  /\ pets[p].place \in 0 .. 2 /\ pets[p].paid \in BOOLEAN
                 /\ {pets[p].weapon, pets[p].armour} \subseteq Gear \cup {0}
        BY PetFacts, PetFields, WorthIsWhole
    <3>2. QED
        BY <3>1, PetFacts
  <2>2. match \in Slot
      BY DEF CompanionsInv, SlotOK
  <2>3. match.status \in {"none", "ready1", "playing"} /\ match.clock \in Nat
      BY <2>2 DEF Slot
  <2>4. QED
      BY <2>1, <2>3
         DEF CompanionsInv, CompanionsTypeOK, PlayersOK, RowsOK, HerdOK, BagsOK, CharismaOK
<1>2. OnePetEach
    BY DEF CompanionsInv, HerdOK, OnePetEach
<1>3. GearAddsUp
  <2>1. ASSUME NEW p \in DOMAIN pets
        PROVE  /\ {pets[p].weapon, pets[p].armour} \ {0} \subseteq pets[p].items
               /\ pets[p].add = SumFunctionOnSet(Bonus, {pets[p].weapon, pets[p].armour} \ {0})
    <3>1. Fitted(pets[p])
        BY PetFacts
    <3>2. QED
        BY <3>1, WornAddsUp DEF Fitted
  <2>2. /\ \A p \in DOMAIN pets : \A q \in DOMAIN pets \ {p} : pets[p].items \cap pets[q].items = {}
        /\ \A p \in DOMAIN pets, o \in Owner : pets[p].items \cap petBag[o] = {}
      BY DEF CompanionsInv, HerdOK, BagsOK
  <2>3. QED
      BY <2>1, <2>2 DEF GearAddsUp
<1>4. CharismaIsKept
  <2> SUFFICES ASSUME NEW o \in Owner
               PROVE  LET extra == 6 * Cardinality({p \in PetsOf(o) : ~pets[p].paid})
                          most == Max({7, TameBonus[o], SpellBonus[o]})
                      IN  /\ UsedPetCost(o) - extra <= Charisma + most
                          /\ summons[o]["elemental"] > 0 => UsedPetCost(o) - extra = Charisma + 7
      BY DEF CharismaIsKept
  <2> DEFINE u == Cardinality({p \in PetsOf(o) : ~pets[p].paid})
             paid == Cardinality(Charged(pets, o))
             cost == Cost(summons[o])
             most == Max({7, TameBonus[o], SpellBonus[o]})
  <2>1. /\ u \in Nat /\ paid \in Nat /\ cost \in Nat
        /\ UsedPetCost(o) = 6 * paid + cost + 6 * u
      BY UsedIsMore
  <2>2. PICK x \in {7, TameBonus[o], SpellBonus[o]} : 6 * paid + cost <= Charisma + x
      BY DEF CompanionsInv, CharismaOK
  <2>3. most \in Nat /\ x <= most /\ x \in Nat /\ Charisma \in Nat
    <3> DEFINE X == {7, TameBonus[o], SpellBonus[o]}
    <3>1. 7 \in Nat /\ TameBonus[o] \in Nat /\ SpellBonus[o] \in Nat /\ Charisma \in Nat
        BY CompanionAssumption
    <3>2. \E y \in X : \A z \in X : y >= z
      <4>1. CASE 7 >= TameBonus[o] /\ 7 >= SpellBonus[o]
          BY <3>1, <4>1
      <4>2. CASE TameBonus[o] >= 7 /\ TameBonus[o] >= SpellBonus[o]
          BY <3>1, <4>2
      <4>3. CASE SpellBonus[o] >= 7 /\ SpellBonus[o] >= TameBonus[o]
          BY <3>1, <4>3
      <4>4. QED
          BY <3>1, <4>1, <4>2, <4>3
    <3> HIDE DEF X
    <3>3. Max(X) \in X /\ \A z \in X : Max(X) >= z
        BY <3>2 DEF Max
    <3>4. QED
        BY <3>1, <3>3 DEF X
  <2>4. summons[o]["elemental"] > 0 => paid = 0 /\ cost = Charisma + 7
    <3> SUFFICES ASSUME summons[o]["elemental"] > 0
                 PROVE  paid = 0 /\ cost = Charisma + 7
        OBVIOUS
    <3>1. /\ Charged(pets, o) = {} /\ summons[o]["elemental"] = 1
          /\ \A k \in Origin \ {"elemental"} : summons[o][k] = 0
          /\ summons[o] \in [Origin -> Nat]
        BY DEF CompanionsInv, CharismaOK
    <3>2. QED
        BY <3>1, CostOfNone, FS_EmptySet
  <2> HIDE DEF u, paid, cost, most
  <2>5. /\ UsedPetCost(o) - 6 * u <= Charisma + most
        /\ summons[o]["elemental"] > 0 => UsedPetCost(o) - 6 * u = Charisma + 7
      BY <2>1, <2>2, <2>3, <2>4
  <2>6. QED
      BY <2>5 DEF u, most
<1>5. MatchHasTwo
  <2>1. ASSUME NEW k \in {1, 2}
        PROVE  Cardinality(InPlace(pets, k)) <= 1
    <3>1. \A p, q \in InPlace(pets, k) : p = q
      <4>1. k # 0
          OBVIOUS
      <4>2. QED
          BY <4>1 DEF InPlace, CompanionsInv, HerdOK
    <3>2. CASE InPlace(pets, k) = {}
        BY <3>2, FS_EmptySet
    <3>3. CASE InPlace(pets, k) # {}
      <4>1. PICK p : InPlace(pets, k) = {p}
          BY <3>1, <3>3
      <4>2. Cardinality({p}) = 1
          BY FS_Singleton
      <4>3. QED
          BY <4>1, <4>2
    <3>4. QED
        BY <3>2, <3>3
  <2>2. /\ match.pc[1] # NoChar => match.pc[1] # match.pc[2]
        /\ match.status = "none" => match = NoMatch
        /\ \A p \in DOMAIN pets : pets[p].place # 0 => pets[p].owner = match.pc[pets[p].place]
      BY DEF CompanionsInv, SlotOK, Follows
  <2>3. QED
      BY <2>1, <2>2 DEF MatchHasTwo
<1>6. QED
    BY <1>1, <1>2, <1>3, <1>4, <1>5 DEF CompanionsAgree

\* Whatever is called, collared, tamed, summoned, worn, exchanged or fought for, by however many
\* players: a collar calls a player no second pet, pets wear what they carry and are raised by
\* just that, companions cost no more than their master has charisma for, and a match is of two
\* and the pets that stand for them (PetSystem, SummonSystem, PetMatchSystem).
THEOREM CompanionsAlwaysAgree == CompanionSpec => []CompanionsAgree
<1>1. CompanionSpec => []CompanionsInv
    BY CompanionsInvInit, CompanionsInvNext, PTL DEF CompanionSpec
<1>2. QED
    BY <1>1, CompanionsInvAgrees, PTL

-----------------------------------------------------------------------------
(* Monsters.  That a living monster is among the members of its group is   *)
(* kept only because the dead that keep theirs are too: a monster that is  *)
(* raised has the group it died with.                                      *)
-----------------------------------------------------------------------------
\* What a monster may remember.
Hates == {h \in UNION {[S -> Nat] : S \in FiniteSubsetsOf(Hunters)} : TotalHate(h) <= MaxHate}

LEMMA HateFits ==
    ASSUME NEW h \in Hates
    PROVE  /\ DOMAIN h \in FiniteSubsetsOf(Hunters) /\ DOMAIN h \subseteq Hunters
           /\ IsFiniteSet(DOMAIN h) /\ h \in [DOMAIN h -> Nat] /\ \A s \in DOMAIN h : h[s] \in Nat
           /\ TotalHate(h) = SumFunctionOnSet(h, DOMAIN h)
           /\ TotalHate(h) \in Nat /\ TotalHate(h) <= MaxHate
<1>1. PICK S \in FiniteSubsetsOf(Hunters) : h \in [S -> Nat]
    BY DEF Hates
<1>2. DOMAIN h = S
    BY <1>1
<1>3. S \in FiniteSubsetsOf(S) /\ IsFiniteSet(S)
    BY <1>1 DEF FiniteSubsetsOf
<1>4. SumFunctionOnSet(h, S) \in Nat
    BY <1>1, <1>3, SumNat
<1>5. QED
    BY <1>1, <1>2, <1>3, <1>4 DEF Hates, TotalHate, SumFunction, FiniteSubsetsOf

LEMMA HateIs ==
    ASSUME NEW S \in FiniteSubsetsOf(Hunters), NEW h \in [S -> Nat], SumFunctionOnSet(h, S) <= MaxHate
    PROVE  h \in Hates
<1>1. DOMAIN h = S
    OBVIOUS
<1>2. TotalHate(h) <= MaxHate
    BY <1>1 DEF TotalHate, SumFunction
<1>3. QED
    BY <1>2 DEF Hates

\* None, and what linking leaves.
LEMMA NoHateFits ==
    /\ << >> \in Hates /\ DOMAIN << >> = {}
    /\ \A s \in Hunters : [t \in {s} |-> 0] \in Hates
<1>1. << >> \in [{} -> Nat] /\ DOMAIN << >> = {}
    OBVIOUS
<1>2. {} \in FiniteSubsetsOf(Hunters)
    BY FS_EmptySet DEF FiniteSubsetsOf
<1>3. MaxHate \in Nat
    BY MonstersAssumption
<1>4. SumFunctionOnSet(<< >>, {}) = 0
    BY SumEmpty
<1>5. << >> \in Hates
  <2> DEFINE S == {}
             h == << >>
  <2>1. S \in FiniteSubsetsOf(Hunters) /\ h \in [S -> Nat] /\ SumFunctionOnSet(h, S) <= MaxHate
      BY <1>1, <1>2, <1>3, <1>4
  <2> HIDE DEF S, h
  <2>2. h \in Hates
      BY <2>1, HateIs
  <2>3. QED
      BY <2>2 DEF h
<1>6. ASSUME NEW s \in Hunters
      PROVE  [t \in {s} |-> 0] \in Hates
  <2> DEFINE h == [t \in {s} |-> 0]
  <2>1. IsFiniteSet({s}) /\ {s} \in FiniteSubsetsOf(Hunters)
      BY FS_Singleton DEF FiniteSubsetsOf
  <2>2. h \in [{s} -> Nat] /\ \A t \in {s} : h[t] = 0
      OBVIOUS
  <2> HIDE DEF h
  <2>3. SumFunctionOnSet(h, {s}) = 0
      BY <2>1, <2>2, SumOfZeros
  <2>4. QED
      BY <1>3, <2>1, <2>2, <2>3, HateIs DEF h
<1>7. QED
    BY <1>1, <1>5, <1>6

\* More of it for one, and for fewer.
LEMMA HateGrows ==
    ASSUME NEW h \in Hates, NEW s \in Hunters, NEW d \in Nat, TotalHate(h) + d <= MaxHate
    PROVE  [t \in DOMAIN h \cup {s} |-> HateFor(h, t) + IF t = s THEN d ELSE 0] \in Hates
<1> DEFINE S == DOMAIN h \cup {s}
           D == DOMAIN h \ {s}
           k == [t \in S |-> HateFor(h, t) + IF t = s THEN d ELSE 0]
<1>1. S \in FiniteSubsetsOf(Hunters) /\ IsFiniteSet(S) /\ D \in FiniteSubsetsOf(D) /\ S \ {s} = D
    BY HateFits, FS_AddElement, FS_Subset DEF FiniteSubsetsOf
<1>2. \A t \in S : HateFor(h, t) \in Nat
    BY HateFits DEF HateFor
<1>3. k \in [S -> Nat] /\ k[s] = HateFor(h, s) + d /\ \A t \in D : k[t] = h[t]
    BY <1>2 DEF HateFor
<1>4. s \in S /\ \A t \in S : k[t] \in Int
    BY <1>3
<1> HIDE DEF S, D, k
<1>5. SumFunctionOnSet(k, S) = k[s] + SumFunctionOnSet(k, D)
    BY <1>1, <1>4, SumWithout
<1>6. SumFunctionOnSet(k, D) = SumFunctionOnSet(h, D)
    BY <1>1, <1>3, SumEqual
<1>7. TotalHate(h) = HateFor(h, s) + SumFunctionOnSet(h, D) /\ SumFunctionOnSet(h, D) \in Nat
  <2>1. SumFunctionOnSet(h, D) \in Nat
      BY <1>1, HateFits, SumNat DEF D
  <2>2. CASE s \in DOMAIN h
    <3>1. \A t \in DOMAIN h : h[t] \in Int
        BY HateFits
    <3>2. SumFunctionOnSet(h, DOMAIN h) = h[s] + SumFunctionOnSet(h, D)
        BY <2>2, <3>1, HateFits, SumWithout DEF D
    <3>3. QED
        BY <2>1, <2>2, <3>2, HateFits DEF HateFor
  <2>3. CASE s \notin DOMAIN h
    <3>1. D = DOMAIN h
        BY <2>3 DEF D
    <3>2. QED
        BY <2>1, <2>3, <3>1, HateFits DEF HateFor
  <2>4. QED
      BY <2>2, <2>3
<1>8. SumFunctionOnSet(k, S) <= MaxHate
    BY <1>2, <1>3, <1>5, <1>6, <1>7 DEF S
<1>9. k \in Hates
    BY <1>1, <1>3, <1>8, HateIs
<1>10. QED
    BY <1>9 DEF k, S

LEMMA HateShrinks ==
    ASSUME NEW h \in Hates, NEW S \in SUBSET DOMAIN h
    PROVE  Restrict(h, S) \in Hates /\ DOMAIN Restrict(h, S) = S
<1> DEFINE k == Restrict(h, S)
<1>1. k \in [S -> Nat] /\ DOMAIN k = S /\ \A t \in S : k[t] = h[t]
    BY HateFits DEF Restrict
<1>2. S \in FiniteSubsetsOf(Hunters) /\ S \in FiniteSubsetsOf(S)
    BY HateFits, FS_Subset DEF FiniteSubsetsOf
<1> HIDE DEF k
<1>3. SumFunctionOnSet(k, S) = SumFunctionOnSet(h, S)
    BY <1>1, <1>2, SumEqual
<1>4. DOMAIN h \in FiniteSubsetsOf(DOMAIN h)
    BY HateFits DEF FiniteSubsetsOf
<1>5. SumFunctionOnSet(h, S) <= SumFunctionOnSet(h, DOMAIN h)
    BY <1>4, HateFits, SumPart
<1>6. SumFunctionOnSet(h, S) \in Nat /\ MaxHate \in Nat
    BY <1>2, HateFits, SumNat, MonstersAssumption
<1>7. k \in Hates
    BY <1>1, <1>2, <1>3, <1>5, <1>6, HateFits, HateIs
<1>8. QED
    BY <1>1, <1>7 DEF k
-----------------------------------------------------------------------------
\* Shares.
LEMMA ShareFits ==
    ASSUME NEW h \in Hates, TotalHate(h) > 0, NEW s \in DOMAIN h
    PROVE  Share(h, s) \in Nat /\ TotalHate(h) * Share(h, s) <= Exp * h[s]
<1> DEFINE T == TotalHate(h)
           p == Exp * h[s]
           M == MaxInt + 1
           w == Wrap(p)
<1>1. T \in Nat \ {0} /\ h[s] \in Nat /\ Exp \in Nat /\ M \in Nat \ {0}
    BY HateFits, MonstersAssumption
<1>2. p \in Nat
    BY <1>1
<1>3. w \in Int /\ w <= p
  <2>1. w = ((p + M) % (2 * M)) - M
    <3>1. p + MaxInt + 1 = p + M
        BY <1>2, MonstersAssumption
    <3>2. QED
        BY <3>1 DEF Wrap
  <2>2. \A a \in Nat, b \in Nat \ {0} : a % b \in Nat /\ a % b <= a
      OBVIOUS
  <2>3. p + M \in Nat /\ 2 * M \in Nat \ {0}
      BY <1>1, <1>2
  <2>4. (p + M) % (2 * M) \in Nat /\ (p + M) % (2 * M) <= p + M
      BY <2>2, <2>3
  <2> HIDE DEF w, M, p
  <2>5. QED
      BY <1>1, <1>2, <2>1, <2>4
<1> HIDE DEF w, p, T
<1>4. CASE w >= 0
  <2>1. \A a \in Nat, b \in Nat \ {0} : a \div b \in Nat /\ b * (a \div b) <= a
      OBVIOUS
  <2>2. w \div T \in Nat /\ T * (w \div T) <= w
      BY <1>1, <1>3, <1>4, <2>1
  <2>3. Quotient(w, T) = w \div T
      BY <1>4 DEF Quotient
  <2>4. Share(h, s) = w \div T
      BY <2>2, <2>3 DEF Share, w, p, T
  <2>5. T * (w \div T) <= p
    <3>1. T * (w \div T) \in Int
        BY <1>1, <2>2
    <3>2. QED
        BY <1>2, <1>3, <2>2, <3>1
  <2>6. QED
      BY <2>2, <2>4, <2>5 DEF T, p
<1>5. CASE ~(w >= 0)
  <2>1. \A a \in Nat, b \in Nat \ {0} : a \div b \in Nat
      OBVIOUS
  <2>2. (-w) \in Nat
      BY <1>3, <1>5
  <2>3. Quotient(w, T) = -((-w) \div T) /\ (-w) \div T \in Nat
      BY <1>1, <1>5, <2>1, <2>2 DEF Quotient
  <2>4. ~(Quotient(w, T) > 0)
      BY <2>3
  <2>5. Share(h, s) = 0
      BY <2>4 DEF Share, w, p, T
  <2>6. T * 0 = 0
      BY <1>1
  <2>7. QED
      BY <1>2, <2>5, <2>6 DEF T, p
<1>6. QED
    BY <1>4, <1>5

LEMMA PaidFits ==
    ASSUME NEW h \in Hates, NEW killer \in Hunters, NEW away \in SUBSET DOMAIN h
    PROVE  LET to == Paid(h, killer, away)
           IN  SumFunction(to) <= Exp /\ \A s \in DOMAIN to : to[s] >= 0
<1> DEFINE T == TotalHate(h)
           to == Paid(h, killer, away)
           S == DOMAIN h \ away
<1>1. Exp \in Nat /\ T \in Nat
    BY HateFits, MonstersAssumption
<1>2. CASE T > 0 /\ Cardinality(DOMAIN h) > 1
  <2>1. to = [s \in S |-> Share(h, s)]
      BY <1>2 DEF Paid
  <2>2. DOMAIN to = S /\ \A s \in S : to[s] \in Nat /\ h[s] \in Nat /\ T * to[s] <= Exp * h[s]
      BY <1>2, <2>1, ShareFits, HateFits
  <2>3. S \in FiniteSubsetsOf(S) /\ DOMAIN h \in FiniteSubsetsOf(DOMAIN h) /\ S \in SUBSET DOMAIN h
      BY HateFits, FS_Subset DEF FiniteSubsetsOf
  <2>4. SumFunctionOnSet(h, S) <= T /\ SumFunctionOnSet(h, S) \in Nat
    <3>1. SumFunctionOnSet(h, S) <= SumFunctionOnSet(h, DOMAIN h)
        BY <2>3, HateFits, SumPart
    <3>2. QED
        BY <2>2, <2>3, <3>1, HateFits, SumNat
  <2> HIDE DEF to, S, T
  <2>5. T * SumFunctionOnSet(to, S) <= Exp * SumFunctionOnSet(h, S)
      BY <1>1, <2>2, <2>3, SumScaled
  <2>6. SumFunctionOnSet(to, S) \in Nat
      BY <2>2, <2>3, SumNat
  <2>7. SumFunctionOnSet(to, S) <= Exp
    <3>1. \A a, b, c, d \in Nat : b > 0 /\ b * a <= c * d /\ d <= b => a <= c
      <4>1. ASSUME NEW a \in Nat, NEW b \in Nat, NEW c \in Nat, NEW d \in Nat, b > 0, b * a <= c * d, d <= b
            PROVE  a <= c
        <5>1. SUFFICES ASSUME c + 1 <= a PROVE FALSE
            BY <4>1
        <5>2. c * d <= c * b
            BY <4>1
        <5>3. b * (c + 1) <= b * a
            BY <4>1, <5>1
        <5>4. b * (c + 1) = c * b + b
            OBVIOUS
        <5>5. b * a \in Nat /\ c * d \in Nat /\ c * b \in Nat
            OBVIOUS
        <5>6. QED
            BY <4>1, <5>2, <5>3, <5>4, <5>5
      <4>2. QED
          BY <4>1
    <3>2. QED
        BY <1>1, <1>2, <2>4, <2>5, <2>6, <3>1
  <2>8. SumFunction(to) = SumFunctionOnSet(to, S)
      BY <2>2 DEF SumFunction
  <2>9. QED
      BY <2>2, <2>7, <2>8 DEF to
<1>3. CASE ~(T > 0 /\ Cardinality(DOMAIN h) > 1)
  <2>1. to = [s \in {killer} |-> Exp]
      BY <1>3 DEF Paid
  <2>2. DOMAIN to = {killer} /\ to[killer] = Exp
      BY <2>1
  <2> HIDE DEF to
  <2>3. IsFiniteSet({killer}) /\ {killer} \ {killer} = {}
      BY FS_Singleton
  <2>4. SumFunctionOnSet(to, {killer}) = to[killer] + SumFunctionOnSet(to, {killer} \ {killer})
    <3>1. \A x \in {killer} : to[x] \in Int
        BY <1>1, <2>2
    <3>2. QED
        BY <2>3, <3>1, SumWithout
  <2>5. SumFunction(to) = Exp
      BY <1>1, <2>2, <2>3, <2>4, SumEmpty DEF SumFunction
  <2>6. QED
      BY <1>1, <2>2, <2>5 DEF to
<1>4. QED
    BY <1>2, <1>3
-----------------------------------------------------------------------------
\* Who is taken out of the members is; the others stay.
LEMMA OneIsTaken ==
    ASSUME NEW S, NEW s \in Seq(S), NEW i \in 1..Len(s)
    PROVE  /\ RemoveAt(s, i) \in Seq(S) /\ ToSet(RemoveAt(s, i)) \subseteq ToSet(s)
           /\ ToSet(s) \ {s[i]} \subseteq ToSet(RemoveAt(s, i))
<1> DEFINE a == SubSeq(s, 1, i - 1)
           b == SubSeq(s, i + 1, Len(s))
           r == a \o b
<1>1. Len(s) \in Nat /\ i \in Nat /\ i >= 1 /\ i <= Len(s)
    OBVIOUS
<1>2. a \in Seq(S) /\ Len(a) = i - 1 /\ \A j \in 1..(i - 1) : a[j] = s[j]
    OBVIOUS
<1>3. b \in Seq(S) /\ Len(b) = Len(s) - i /\ \A j \in 1..(Len(s) - i) : b[j] = s[i + j]
    OBVIOUS
<1> HIDE DEF a, b
<1>4. /\ r \in Seq(S) /\ Len(r) = Len(s) - 1
      /\ \A j \in 1..(i - 1) : r[j] = s[j]
      /\ \A j \in i..(Len(s) - 1) : r[j] = s[j + 1]
  <2>1. /\ r \in Seq(S) /\ Len(r) = Len(a) + Len(b)
        /\ \A j \in 1..Len(a) : r[j] = a[j]
        /\ \A j \in (Len(a) + 1)..Len(r) : r[j] = b[j - Len(a)]
    <3>1. ASSUME NEW x \in Seq(S), NEW y \in Seq(S)
          PROVE  /\ x \o y \in Seq(S) /\ Len(x \o y) = Len(x) + Len(y)
                 /\ \A j \in 1..Len(x) : (x \o y)[j] = x[j]
                 /\ \A j \in (Len(x) + 1)..Len(x \o y) : (x \o y)[j] = y[j - Len(x)]
        OBVIOUS
    <3>2. QED
        BY <1>2, <1>3, <3>1
  <2> HIDE DEF r
  <2>2. \A j \in i..(Len(s) - 1) : r[j] = s[j + 1]
    <3> SUFFICES ASSUME NEW j \in i..(Len(s) - 1)
                 PROVE  r[j] = s[j + 1]
        OBVIOUS
    <3>1. /\ j \in (Len(a) + 1)..Len(r) /\ j - Len(a) = j - i + 1
          /\ j - i + 1 \in 1..(Len(s) - i) /\ i + (j - i + 1) = j + 1
        BY <1>1, <1>2, <1>3, <2>1
    <3>2. QED
        BY <1>3, <2>1, <3>1
  <2>3. QED
      BY <1>1, <1>2, <1>3, <2>1, <2>2
<1>5. RemoveAt(s, i) = r
    BY DEF RemoveAt, a, b
<1> HIDE DEF r
<1>6. DOMAIN s = 1..Len(s) /\ DOMAIN r = 1..(Len(s) - 1)
    BY <1>1, <1>4
<1>7. ToSet(r) \subseteq ToSet(s)
  <2> SUFFICES ASSUME NEW j \in DOMAIN r
               PROVE  \E k \in DOMAIN s : r[j] = s[k]
      BY DEF ToSet
  <2>1. CASE j < i
      BY <1>1, <1>4, <1>6, <2>1
  <2>2. CASE j >= i
    <3>1. j + 1 \in DOMAIN s /\ r[j] = s[j + 1]
        BY <1>1, <1>4, <1>6, <2>2
    <3>2. QED
        BY <3>1
  <2>3. QED
      BY <1>1, <1>6, <2>1, <2>2
<1>8. ToSet(s) \ {s[i]} \subseteq ToSet(r)
  <2> SUFFICES ASSUME NEW k \in DOMAIN s, s[k] # s[i]
               PROVE  \E j \in DOMAIN r : s[k] = r[j]
      BY DEF ToSet
  <2>1. CASE k < i
      BY <1>1, <1>4, <1>6, <2>1
  <2>2. CASE k > i
    <3>1. k - 1 \in DOMAIN r /\ r[k - 1] = s[(k - 1) + 1] /\ (k - 1) + 1 = k
        BY <1>1, <1>4, <1>6, <2>2
    <3>2. QED
        BY <3>1
  <2>3. QED
      BY <1>1, <1>6, <2>1, <2>2
<1>9. QED
    BY <1>4, <1>5, <1>7, <1>8

LEMMA OthersStay ==
    ASSUME NEW S, NEW g, g.members \in Seq(S), NEW m
    PROVE  /\ Without(g, m) \in Seq(S) /\ ToSet(Without(g, m)) \subseteq ToSet(g.members)
           /\ ToSet(g.members) \ {m} \subseteq ToSet(Without(g, m))
<1> DEFINE s == g.members
           I == {i \in 1..Len(s) : s[i] = m}
<1>1. CASE I = {}
    BY <1>1 DEF Without, RemoveFirst
<1>2. CASE I # {}
  <2>1. SelectInSeq(s, LAMBDA v : v = m) = Min(I)
      BY <1>2 DEF SelectInSeq
  <2>2. Min(I) \in I
    <3>1. I \in SUBSET Nat
        OBVIOUS
    <3> HIDE DEF I
    <3>2. \E x \in I : \A y \in I : x <= y
        BY <1>2, <3>1, LeastNumber
    <3>3. QED
        BY <3>2 DEF Min
  <2>3. Without(g, m) = RemoveAt(s, Min(I))
      BY <1>2, <2>1 DEF Without, RemoveFirst
  <2>4. s[Min(I)] = m /\ Min(I) \in 1..Len(s)
      BY <2>2
  <2> DEFINE i == Min(I)
  <2> HIDE DEF i, s, I
  <2>5. QED
      BY <2>3, <2>4, OneIsTaken DEF i, s
<1>3. QED
    BY <1>1, <1>2
-----------------------------------------------------------------------------
\* A monster, and a group.
Mob == [dead : BOOLEAN, minion : BOOLEAN, returns : BOOLEAN, due : BOOLEAN, group : Nat,
        hate : Hates, target : Hunters \cup {Nobody}]
MobGroup == [leader : Nat, members : Seq(Nat), remove : BOOLEAN]

\* The groups gs, when n monsters have been made.
GroupsOK(gs, n) ==
    /\ gs \in Seq(MobGroup) /\ Len(gs) > 0
    /\ \A g \in 1..Len(gs) : gs[g].leader \in 1..n /\ ToSet(gs[g].members) \subseteq 1..n

\* Whoever has a group, dead or alive, is among its members.
FoundOK(mb, gs) ==
    \A m \in 1..Len(mb) :
        /\ mb[m].group \in 0..Len(gs)
        /\ mb[m].group # 0 => m \in ToSet(gs[mb[m].group].members)

\* The living hate only those who struck them or their kin.
KnownOK(mb, st) ==
    /\ st \in Seq(SUBSET Hunters) /\ Len(st) = Len(mb)
    /\ \A m \in 1..Len(mb) : ~mb[m].dead => DOMAIN mb[m].hate \subseteq st[m]

MonstersInv ==
    /\ near \subseteq Hunters /\ mob \in Seq(Mob)
    /\ GroupsOK(group, Len(mob)) /\ FoundOK(mob, group) /\ KnownOK(mob, struck)

LEMMA MobParts ==
    ASSUME NEW x \in Mob
    PROVE  /\ x.dead \in BOOLEAN /\ x.minion \in BOOLEAN /\ x.returns \in BOOLEAN
           /\ x.due \in BOOLEAN /\ x.group \in Nat /\ x.hate \in Hates
           /\ x.target \in Hunters \cup {Nobody}
BY DEF Mob

LEMMA MobChanges ==
    ASSUME NEW x \in Mob, NEW h \in Hates, NEW t \in Hunters \cup {Nobody}, NEW g \in Nat,
           NEW b \in BOOLEAN
    PROVE  /\ [x EXCEPT !.hate = h, !.target = t] \in Mob
           /\ [x EXCEPT !.hate = h] \in Mob /\ [x EXCEPT !.target = t] \in Mob
           /\ [x EXCEPT !.group = g] \in Mob
           /\ [x EXCEPT !.group = g, !.minion = TRUE, !.returns = FALSE] \in Mob
           /\ [x EXCEPT !.dead = b, !.due = FALSE, !.hate = h, !.target = t] \in Mob
           /\ [x EXCEPT !.dead = TRUE, !.hate = h, !.target = t, !.due = b] \in Mob
           /\ [x EXCEPT !.dead = TRUE, !.target = t, !.due = b] \in Mob
<1>1. TRUE \in BOOLEAN /\ FALSE \in BOOLEAN
    OBVIOUS
<1>2. [x EXCEPT !.hate = h, !.target = t] \in Mob
    BY Zenon DEF Mob
<1>3. [x EXCEPT !.hate = h] \in Mob /\ [x EXCEPT !.target = t] \in Mob
    BY Zenon DEF Mob
<1>4. [x EXCEPT !.group = g] \in Mob
    BY Zenon DEF Mob
<1>5. [x EXCEPT !.group = g, !.minion = TRUE, !.returns = FALSE] \in Mob
    BY <1>1, Zenon DEF Mob
<1>6. [x EXCEPT !.dead = b, !.due = FALSE, !.hate = h, !.target = t] \in Mob
    BY <1>1, Zenon DEF Mob
<1>7. [x EXCEPT !.dead = TRUE, !.hate = h, !.target = t, !.due = b] \in Mob
    BY <1>1, Zenon DEF Mob
<1>8. [x EXCEPT !.dead = TRUE, !.target = t, !.due = b] \in Mob
    BY <1>1, Zenon DEF Mob
<1>9. QED
    BY <1>2, <1>3, <1>4, <1>5, <1>6, <1>7, <1>8

LEMMA NewMobFits ==
    ASSUME NEW minion \in BOOLEAN, NEW g \in Nat
    PROVE  /\ NewMob(minion, g) \in Mob /\ NewMob(minion, g).hate = << >>
           /\ NewMob(minion, g).group = g /\ ~NewMob(minion, g).dead
BY NoHateFits DEF NewMob, Mob

LEMMA MonsterFacts ==
    ASSUME MonstersInv
    PROVE  /\ Len(mob) \in Nat /\ DOMAIN mob = 1..Len(mob) /\ Ids = 1..Len(mob)
           /\ mob \in [1..Len(mob) -> Mob] /\ \A m \in Ids : mob[m] \in Mob
           /\ Len(group) \in Nat \ {0} /\ DOMAIN group = 1..Len(group)
           /\ \A g \in 1..Len(group) :
                /\ group[g] \in MobGroup /\ group[g].leader \in Ids /\ group[g].members \in Seq(Nat)
                /\ ToSet(group[g].members) \subseteq Ids /\ group[g].remove \in BOOLEAN
           /\ struck \in Seq(SUBSET Hunters) /\ Len(struck) = Len(mob) /\ DOMAIN struck = 1..Len(mob)
           /\ struck \in [1..Len(mob) -> SUBSET Hunters]
<1>1. /\ Len(mob) \in Nat /\ DOMAIN mob = 1..Len(mob) /\ Ids = 1..Len(mob)
      /\ mob \in [1..Len(mob) -> Mob] /\ \A m \in Ids : mob[m] \in Mob
    BY DEF MonstersInv, Ids
<1>2. Len(group) \in Nat \ {0} /\ DOMAIN group = 1..Len(group) /\ \A g \in 1..Len(group) : group[g] \in MobGroup
    BY DEF MonstersInv, GroupsOK
<1>3. \A g \in 1..Len(group) : group[g].leader \in Ids /\ ToSet(group[g].members) \subseteq Ids
    BY <1>1 DEF MonstersInv, GroupsOK
<1>4. \A g \in 1..Len(group) : group[g].members \in Seq(Nat) /\ group[g].remove \in BOOLEAN
    BY <1>2 DEF MobGroup
<1>5. /\ struck \in Seq(SUBSET Hunters) /\ Len(struck) = Len(mob) /\ DOMAIN struck = 1..Len(mob)
      /\ struck \in [1..Len(mob) -> SUBSET Hunters]
    BY <1>1 DEF MonstersInv, KnownOK
<1>6. QED
    BY <1>1, <1>2, <1>3, <1>4, <1>5

LEMMA NewMonstersInv ==
    ASSUME near' \subseteq Hunters, mob' \in Seq(Mob), GroupsOK(group', Len(mob')),
           FoundOK(mob', group'), KnownOK(mob', struck')
    PROVE  MonstersInv'
BY DEF MonstersInv, GroupsOK, FoundOK, KnownOK
-----------------------------------------------------------------------------
\* What a hit makes of them; it changes whom they hate and nothing else.
LEMMA AddHateFits ==
    ASSUME NEW x \in Mob, NEW s \in Hunters, NEW d \in Nat, TotalHate(x.hate) + d <= MaxHate
    PROVE  LET y == AddHate(x, s, d)
           IN  /\ y \in Mob /\ y.dead = x.dead /\ y.group = x.group /\ y.returns = x.returns
               /\ DOMAIN y.hate = DOMAIN x.hate \cup {s}
<1> DEFINE h == [t \in DOMAIN x.hate \cup {s} |-> HateFor(x.hate, t) + IF t = s THEN d ELSE 0]
           t == IF x.target = Nobody \/ h[s] > HateFor(h, x.target) THEN s ELSE x.target
           y == [x EXCEPT !.hate = h, !.target = t]
<1>1. h \in Hates /\ DOMAIN h = DOMAIN x.hate \cup {s}
    BY MobParts, HateGrows
<1>2. t \in Hunters \cup {Nobody}
    BY MobParts
<1>3. AddHate(x, s, d) = y
    BY DEF AddHate
<1> HIDE DEF h, t
<1>4. y \in Mob
    BY <1>1, <1>2, MobChanges
<1>5. y.dead = x.dead /\ y.group = x.group /\ y.returns = x.returns /\ y.hate = h
    BY DEF Mob
<1>6. QED
    BY <1>1, <1>3, <1>4, <1>5

LEMMA LinkFits ==
    ASSUME NEW x \in Mob, NEW s \in Hunters
    PROVE  LET y == Link(x, s)
           IN  /\ y \in Mob /\ y.dead = x.dead /\ y.group = x.group /\ y.returns = x.returns
               /\ DOMAIN y.hate = {s}
<1> DEFINE h == [t \in {s} |-> 0]
           y == [x EXCEPT !.hate = h, !.target = s]
<1>1. h \in Hates /\ DOMAIN h = {s}
    BY NoHateFits
<1>2. Link(x, s) = y
    BY DEF Link
<1> HIDE DEF h
<1>3. y \in Mob
    BY <1>1, MobChanges
<1>4. y.dead = x.dead /\ y.group = x.group /\ y.returns = x.returns /\ y.hate = h
    BY DEF Mob
<1>5. QED
    BY <1>1, <1>2, <1>3, <1>4

LEMMA HatedFits ==
    ASSUME MonstersInv, NEW s \in Hunters, NEW m \in Ids, NEW d \in Nat, NEW family,
           TotalHate(mob[m].hate) + d <= MaxHate
    PROVE  LET x == Hated(m, s, d, family)
           IN  /\ x \in Seq(Mob) /\ Len(x) = Len(mob)
               /\ \A k \in Ids : /\ x[k].group = mob[k].group /\ x[k].dead = mob[k].dead
                                 /\ DOMAIN x[k].hate \subseteq
                                      DOMAIN mob[k].hate \cup IF k \in Angered(m, s, family) THEN {s} ELSE {}
<1> DEFINE linked == GroupLinks(m) \cup IF family THEN FamilyLinks(m) ELSE {}
           x == [k \in Ids |-> IF k = m THEN AddHate(mob[k], s, d)
                               ELSE IF k \in linked THEN Link(mob[k], s) ELSE mob[k]]
<1>1. Hated(m, s, d, family) = x /\ Angered(m, s, family) = {m} \cup linked
    BY DEF Hated, Angered
<1> HIDE DEF linked
<1>2. \A k \in Ids : mob[k] \in Mob
    BY MonsterFacts
<1>3. ASSUME NEW k \in Ids
      PROVE  /\ x[k] \in Mob /\ x[k].group = mob[k].group /\ x[k].dead = mob[k].dead
             /\ DOMAIN x[k].hate \subseteq
                  DOMAIN mob[k].hate \cup IF k \in {m} \cup linked THEN {s} ELSE {}
  <2>1. CASE k = m
      BY <1>2, <2>1, AddHateFits
  <2>2. CASE k # m /\ k \in linked
      BY <1>2, <2>2, LinkFits
  <2>3. CASE k # m /\ k \notin linked
      BY <1>2, <2>3
  <2>4. QED
      BY <2>1, <2>2, <2>3
<1>4. x \in [1..Len(mob) -> Mob] /\ Len(mob) \in Nat
    BY <1>3, MonsterFacts
<1> HIDE DEF x
<1>5. x \in Seq(Mob) /\ Len(x) = Len(mob)
    BY <1>4, SeqAsFunction
<1>6. QED
    BY <1>1, <1>3, <1>5
-----------------------------------------------------------------------------
\* A monster that is not of a group is not looked for there.
LEMMA GroupAfterFits ==
    ASSUME MonstersInv, NEW m \in Ids
    PROVE  /\ GroupsOK(GroupAfter(m), Len(mob)) /\ Len(GroupAfter(m)) = Len(group)
           /\ \A g \in 1..Len(group) :
                 ToSet(group[g].members) \ {m} \subseteq ToSet(GroupAfter(m)[g].members)
<1> DEFINE g == mob[m].group
           rest == Without(group[g], m)
           head == IF group[g].leader = m /\ ~group[g].remove /\ rest # << >> THEN rest[1]
                   ELSE group[g].leader
           new == [group EXCEPT ![g].members = rest, ![g].leader = head]
<1>1. CASE g = 0
  <2>1. GroupAfter(m) = group
      BY <1>1 DEF GroupAfter
  <2>2. QED
      BY <2>1 DEF MonstersInv
<1>2. CASE g # 0
  <2>1. g \in 1..Len(group) /\ group[g] \in MobGroup /\ group[g].members \in Seq(Nat) /\ group[g].leader \in Ids
    <3>1. g \in 0..Len(group)
        BY MonsterFacts DEF MonstersInv, FoundOK
    <3>2. g \in 1..Len(group)
        BY <1>2, <3>1
    <3>3. QED
        BY <3>2, MonsterFacts
  <2>2. /\ rest \in Seq(Nat) /\ ToSet(rest) \subseteq Ids
        /\ ToSet(group[g].members) \ {m} \subseteq ToSet(rest)
    <3>1. ToSet(group[g].members) \subseteq Ids
        BY <2>1, MonsterFacts
    <3>2. QED
        BY <2>1, <3>1, OthersStay
  <2>3. head \in Ids
    <3>1. rest # << >> => rest[1] \in ToSet(rest)
        BY <2>2 DEF ToSet
    <3>2. QED
        BY <2>1, <2>2, <3>1
  <2>4. GroupAfter(m) = new
      BY <1>2, <2>1, MonsterFacts DEF GroupAfter
  <2> HIDE DEF rest, head
  <2>5. /\ DOMAIN new = 1..Len(group)
        /\ new[g] = [group[g] EXCEPT !.members = rest, !.leader = head]
        /\ \A j \in 1..Len(group) \ {g} : new[j] = group[j]
      BY <2>1, MonsterFacts
  <2>6. new[g] \in MobGroup /\ new[g].members = rest /\ new[g].leader = head
    <3>1. head \in Nat
        BY <2>3, MonsterFacts
    <3>2. QED
        BY <2>1, <2>2, <2>5, <3>1 DEF MobGroup
  <2> HIDE DEF new
  <2>7. \A j \in 1..Len(group) : new[j] \in MobGroup
      BY <2>5, <2>6, MonsterFacts
  <2>8. new = [j \in 1..Len(group) |-> new[j]]
      BY <2>5 DEF new
  <2>9. new \in [1..Len(group) -> MobGroup]
      BY <2>7, <2>8
  <2>10. new \in Seq(MobGroup) /\ Len(new) = Len(group)
      BY <2>9, SeqAsFunction, MonsterFacts
  <2>11. \A j \in 1..Len(new) : new[j].leader \in 1..Len(mob) /\ ToSet(new[j].members) \subseteq 1..Len(mob)
    <3> SUFFICES ASSUME NEW j \in 1..Len(group)
                 PROVE  new[j].leader \in 1..Len(mob) /\ ToSet(new[j].members) \subseteq 1..Len(mob)
        BY <2>10
    <3>1. CASE j = g
        BY <2>2, <2>3, <2>6, <3>1, MonsterFacts
    <3>2. CASE j # g
        BY <2>5, <3>2, MonsterFacts
    <3>3. QED
        BY <3>1, <3>2
  <2>12. GroupsOK(new, Len(mob))
      BY <2>10, <2>11, MonsterFacts DEF GroupsOK
  <2>13. \A j \in 1..Len(group) : ToSet(group[j].members) \ {m} \subseteq ToSet(new[j].members)
      BY <2>2, <2>5, <2>6
  <2>14. QED
      BY <2>4, <2>10, <2>12, <2>13
<1>3. QED
    BY <1>1, <1>2

LEMMA LeavesGroupFits ==
    ASSUME MonstersInv, NEW m \in Ids, NEW y \in Seq(Mob), Len(y) = Len(mob),
           \A k \in Ids : y[k].group = mob[k].group
    PROVE  LET z == LeavesGroup(y, m)
           IN  /\ z \in Seq(Mob) /\ Len(z) = Len(mob) /\ FoundOK(z, GroupAfter(m))
               /\ \A k \in Ids : z[k].dead = y[k].dead /\ z[k].hate = y[k].hate
<1> DEFINE g == mob[m].group
           z == LeavesGroup(y, m)
<1>1. Len(mob) \in Nat /\ Ids = 1..Len(mob) /\ y \in [1..Len(mob) -> Mob] /\ \A k \in Ids : y[k] \in Mob
    BY MonsterFacts
<1>2. /\ z \in [1..Len(mob) -> Mob]
      /\ \A k \in Ids : z[k].dead = y[k].dead /\ z[k].hate = y[k].hate
      /\ \A k \in Ids : z[k].group = 0 \/ (z[k].group = mob[k].group /\ k # m)
  <2>1. CASE g # 0 /\ group[g].leader = m /\ group[g].remove
    <3> DEFINE f == [k \in Ids |-> IF k = m THEN [y[k] EXCEPT !.group = 0]
                        ELSE IF k \in ToSet(group[g].members)
                        THEN [y[k] EXCEPT !.group = 0, !.minion = TRUE, !.returns = FALSE]
                        ELSE y[k]]
    <3>1. z = f
        BY <2>1 DEF LeavesGroup
    <3>2. ASSUME NEW k \in Ids
          PROVE  /\ f[k] \in Mob /\ f[k].dead = y[k].dead /\ f[k].hate = y[k].hate
                 /\ f[k].group = 0 \/ (f[k].group = mob[k].group /\ k # m)
      <4> DEFINE a == [y[k] EXCEPT !.group = 0]
                 b == [y[k] EXCEPT !.group = 0, !.minion = TRUE, !.returns = FALSE]
      <4>1. y[k] \in Mob /\ y[k].group = mob[k].group
          BY <1>1
      <4>2. /\ a \in Mob /\ a.dead = y[k].dead /\ a.hate = y[k].hate /\ a.group = 0
            /\ b \in Mob /\ b.dead = y[k].dead /\ b.hate = y[k].hate /\ b.group = 0
        <5>1. a \in Mob /\ b \in Mob
            BY <4>1, MobChanges, MobParts
        <5>2. QED
            BY <4>1, <5>1 DEF Mob
      <4>3. f[k] = IF k = m THEN a ELSE IF k \in ToSet(group[g].members) THEN b ELSE y[k]
          OBVIOUS
      <4> HIDE DEF a, b, f
      <4>4. QED
          BY <4>1, <4>2, <4>3
    <3>3. f \in [1..Len(mob) -> Mob]
        BY <1>1, <3>2
    <3> HIDE DEF f
    <3>4. QED
        BY <3>1, <3>2, <3>3
  <2>2. CASE ~(g # 0 /\ group[g].leader = m /\ group[g].remove)
    <3> DEFINE a == [y[m] EXCEPT !.group = 0]
    <3>1. z = [y EXCEPT ![m].group = 0]
        BY <2>2 DEF LeavesGroup
    <3>2. z = [y EXCEPT ![m] = a]
        BY <3>1
    <3>3. a \in Mob /\ a.dead = y[m].dead /\ a.hate = y[m].hate /\ a.group = 0
      <4>1. a \in Mob
          BY <1>1, MobChanges, MobParts
      <4>2. y[m] \in Mob
          BY <1>1
      <4>3. QED
          BY <4>1, <4>2 DEF Mob
    <3> HIDE DEF a, z
    <3>4. QED
        BY <1>1, <3>2, <3>3
  <2>3. QED
      BY <2>1, <2>2
<1> HIDE DEF z
<1>3. z \in Seq(Mob) /\ Len(z) = Len(mob)
    BY <1>1, <1>2, SeqAsFunction
<1>4. FoundOK(z, GroupAfter(m))
  <2> SUFFICES ASSUME NEW k \in 1..Len(mob)
               PROVE  /\ z[k].group \in 0..Len(GroupAfter(m))
                      /\ z[k].group # 0 => k \in ToSet(GroupAfter(m)[z[k].group].members)
      BY <1>3 DEF FoundOK
  <2>1. CASE z[k].group = 0
      BY <2>1, GroupAfterFits, MonsterFacts
  <2>2. CASE z[k].group # 0
    <3>1. z[k].group = mob[k].group /\ k # m
        BY <1>1, <1>2, <2>2
    <3> DEFINE j == mob[k].group
    <3>2. j \in 1..Len(group) /\ k \in ToSet(group[j].members)
      <4>1. mob[k].group \in 0..Len(group) /\ (mob[k].group # 0 => k \in ToSet(group[mob[k].group].members))
          BY DEF MonstersInv, FoundOK
      <4>2. QED
          BY <2>2, <3>1, <4>1, MonsterFacts
    <3>3. /\ ToSet(group[j].members) \ {m} \subseteq ToSet(GroupAfter(m)[j].members)
          /\ Len(GroupAfter(m)) = Len(group) /\ k \in ToSet(group[j].members) \ {m}
        BY <3>1, <3>2, GroupAfterFits
    <3>4. j \in 0..Len(GroupAfter(m)) /\ k \in ToSet(GroupAfter(m)[j].members)
        BY <3>2, <3>3
    <3>5. QED
        BY <3>1, <3>4
  <2>3. QED
      BY <2>1, <2>2
<1>5. QED
    BY <1>2, <1>3, <1>4 DEF z

LEMMA MonsterDiesFits ==
    ASSUME MonstersInv, NEW m \in Ids, NEW x \in Seq(Mob), Len(x) = Len(mob),
           \A k \in Ids : x[k].group = mob[k].group, MonsterDies(x, m)
    PROVE  /\ mob' \in Seq(Mob) /\ Len(mob') = Len(mob) /\ GroupsOK(group', Len(mob'))
           /\ FoundOK(mob', group') /\ mob'[m].dead
           /\ \A k \in Ids \ {m} : mob'[k].dead = x[k].dead /\ mob'[k].hate = x[k].hate
<1> DEFINE due == x[m].returns /\ ~x[m].minion
           a == [x[m] EXCEPT !.dead = TRUE, !.hate = << >>, !.target = Nobody, !.due = due]
           y == [x EXCEPT ![m] = a]
<1>1. Len(mob) \in Nat /\ Ids = 1..Len(mob) /\ x \in [1..Len(mob) -> Mob] /\ x[m] \in Mob
    BY MonsterFacts
<1>2. due \in BOOLEAN
    BY <1>1, MobParts
<1>3. mob' = LeavesGroup(y, m) /\ group' = GroupAfter(m)
    BY <1>1 DEF MonsterDies
<1> HIDE DEF due
<1>4. a \in Mob /\ a.dead = TRUE /\ a.group = x[m].group
  <2>1. a \in Mob
      BY <1>1, <1>2, NoHateFits, MobChanges, MobParts
  <2>2. QED
      BY <1>1, <2>1 DEF Mob
<1> HIDE DEF a
<1>5. /\ y \in [1..Len(mob) -> Mob] /\ y[m] = a /\ \A k \in Ids \ {m} : y[k] = x[k]
    BY <1>1, <1>4
<1> HIDE DEF y
<1>6. y \in Seq(Mob) /\ Len(y) = Len(mob)
    BY <1>1, <1>5, SeqAsFunction
<1>7. \A k \in Ids : y[k].group = mob[k].group
    BY <1>4, <1>5
<1>8. /\ mob' \in Seq(Mob) /\ Len(mob') = Len(mob) /\ FoundOK(mob', group')
      /\ \A k \in Ids : mob'[k].dead = y[k].dead /\ mob'[k].hate = y[k].hate
    BY <1>3, <1>6, <1>7, LeavesGroupFits
<1>9. GroupsOK(group', Len(mob'))
    BY <1>3, <1>8, GroupAfterFits
<1>10. QED
    BY <1>4, <1>5, <1>8, <1>9
-----------------------------------------------------------------------------
LEMMA MonstersInvInit ==
    MonstersInit => MonstersInv
<1> SUFFICES ASSUME MonstersInit
             PROVE  MonstersInv
    OBVIOUS
<1> DEFINE a == NewMob(FALSE, 1)
           b == NewMob(TRUE, 1)
<1>1. mob = <<a, b>>
    BY DEF MonstersInit
<1>2. /\ a \in Mob /\ a.hate = << >> /\ a.group = 1
      /\ b \in Mob /\ b.hate = << >> /\ b.group = 1
    BY NewMobFits
<1>3. PICK remove \in RemoveGroup :
          group = <<[leader |-> Leader, members |-> <<1, 2>>, remove |-> remove]>>
    BY DEF MonstersInit
<1> HIDE DEF a, b
<1>4. mob \in Seq(Mob) /\ Len(mob) = 2
    BY <1>1, <1>2
<1>5. ToSet(<<1, 2>>) = {1, 2}
    BY DEF ToSet
<1>6. GroupsOK(group, 2)
  <2>1. remove \in BOOLEAN
      BY MonstersAssumption
  <2>2. [leader |-> Leader, members |-> <<1, 2>>, remove |-> remove] \in MobGroup
      BY <2>1 DEF MobGroup, Leader
  <2>3. group \in Seq(MobGroup) /\ Len(group) = 1 /\ group[1].leader = 1 /\ group[1].members = <<1, 2>>
      BY <1>3, <2>2 DEF Leader
  <2>4. QED
      BY <1>5, <2>3 DEF GroupsOK
<1>7. FoundOK(mob, group)
    BY <1>1, <1>2, <1>3, <1>4, <1>5 DEF FoundOK
<1>8. KnownOK(mob, struck)
  <2>1. struck = <<{}, {}>>
      BY DEF MonstersInit
  <2>2. struck \in Seq(SUBSET Hunters) /\ Len(struck) = 2
      BY <2>1
  <2>3. \A m \in 1..2 : DOMAIN mob[m].hate = {}
      BY <1>1, <1>2, NoHateFits
  <2>4. QED
      BY <1>4, <2>2, <2>3 DEF KnownOK
<1>9. near = {}
    BY DEF MonstersInit
<1>10. QED
    BY <1>4, <1>6, <1>7, <1>8, <1>9 DEF MonstersInv
-----------------------------------------------------------------------------
\* The steps.
LEMMA HitKeeps ==
    ASSUME MonstersInv, NEW s \in Hunters, NEW m \in Ids, NEW d \in 1..MaxHit, NEW family \in BOOLEAN,
           Hit(s, m, d, family)
    PROVE  MonstersInv'
<1> DEFINE x == Hated(m, s, d, family)
           near2 == Angered(m, s, family)
<1>1. /\ TotalHate(mob[m].hate) + d <= MaxHate
      /\ (mob' = x /\ UNCHANGED group) \/ MonsterDies(x, m)
      /\ struck' = [k \in Ids |-> IF mob'[k].dead THEN {}
                                  ELSE IF k \in near2 THEN struck[k] \cup {s} ELSE struck[k]]
      /\ near' = near
    BY DEF Hit
<1>2. d \in Nat
    BY MonstersAssumption
<1>3. /\ x \in Seq(Mob) /\ Len(x) = Len(mob)
      /\ \A k \in Ids : /\ x[k].group = mob[k].group /\ x[k].dead = mob[k].dead
                        /\ DOMAIN x[k].hate \subseteq
                              DOMAIN mob[k].hate \cup IF k \in near2 THEN {s} ELSE {}
    BY <1>1, <1>2, HatedFits
<1> HIDE DEF x, near2
<1>4. /\ mob' \in Seq(Mob) /\ Len(mob') = Len(mob) /\ GroupsOK(group', Len(mob'))
      /\ FoundOK(mob', group')
      /\ \A k \in Ids : ~mob'[k].dead => ~mob[k].dead /\ mob'[k].hate = x[k].hate
  <2>1. CASE mob' = x /\ UNCHANGED group
    <3>1. FoundOK(x, group)
        BY <1>3, MonsterFacts DEF MonstersInv, FoundOK
    <3>2. QED
        BY <1>3, <2>1, <3>1 DEF MonstersInv
  <2>2. CASE MonsterDies(x, m)
    <3>1. /\ mob' \in Seq(Mob) /\ Len(mob') = Len(mob) /\ GroupsOK(group', Len(mob'))
          /\ FoundOK(mob', group') /\ mob'[m].dead
          /\ \A k \in Ids \ {m} : mob'[k].dead = x[k].dead /\ mob'[k].hate = x[k].hate
        BY <1>3, <2>2, MonsterDiesFits
    <3>2. QED
        BY <1>3, <3>1
  <2>3. QED
      BY <1>1, <2>1, <2>2
<1>5. KnownOK(mob', struck')
  <2>1. struck' \in [1..Len(mob) -> SUBSET Hunters]
      BY <1>1, MonsterFacts
  <2>2. struck' \in Seq(SUBSET Hunters) /\ Len(struck') = Len(mob')
      BY <1>4, <2>1, SeqAsFunction, MonsterFacts
  <2>3. ASSUME NEW k \in 1..Len(mob'), ~mob'[k].dead
        PROVE  DOMAIN mob'[k].hate \subseteq struck'[k]
    <3>1. k \in Ids /\ ~mob[k].dead /\ mob'[k].hate = x[k].hate
        BY <1>4, <2>3, MonsterFacts
    <3>2. DOMAIN mob[k].hate \subseteq struck[k]
        BY <3>1, MonsterFacts DEF MonstersInv, KnownOK
    <3>3. struck'[k] = IF k \in near2 THEN struck[k] \cup {s} ELSE struck[k]
        BY <1>1, <2>3, <3>1
    <3>4. DOMAIN x[k].hate \subseteq DOMAIN mob[k].hate \cup IF k \in near2 THEN {s} ELSE {}
        BY <1>3, <3>1
    <3>5. QED
        BY <3>1, <3>2, <3>3, <3>4
  <2>4. QED
      BY <2>2, <2>3 DEF KnownOK
<1>6. QED
    BY <1>1, <1>4, <1>5, NewMonstersInv DEF MonstersInv

LEMMA ReflectedKeeps ==
    ASSUME MonstersInv, NEW m \in Ids, Reflected(m)
    PROVE  MonstersInv'
<1>1. MonsterDies(mob, m) /\ struck' = [struck EXCEPT ![m] = {}] /\ near' = near
    BY DEF Reflected
<1>2. /\ mob' \in Seq(Mob) /\ Len(mob') = Len(mob) /\ GroupsOK(group', Len(mob'))
      /\ FoundOK(mob', group') /\ mob'[m].dead
      /\ \A k \in Ids \ {m} : mob'[k].dead = mob[k].dead /\ mob'[k].hate = mob[k].hate
  <2>1. mob \in Seq(Mob)
      BY DEF MonstersInv
  <2>2. QED
      BY <1>1, <2>1, MonsterDiesFits
<1>3. /\ struck' \in [1..Len(mob) -> SUBSET Hunters] /\ \A k \in Ids \ {m} : struck'[k] = struck[k]
    BY <1>1, MonsterFacts
<1>4. struck' \in Seq(SUBSET Hunters) /\ Len(struck') = Len(mob')
    BY <1>2, <1>3, SeqAsFunction, MonsterFacts
<1>5. \A k \in 1..Len(mob') : ~mob'[k].dead => DOMAIN mob'[k].hate \subseteq struck'[k]
    BY <1>2, <1>3, MonsterFacts DEF MonstersInv, KnownOK
<1>6. KnownOK(mob', struck')
    BY <1>4, <1>5 DEF KnownOK
<1>7. QED
    BY <1>1, <1>2, <1>6, NewMonstersInv DEF MonstersInv

\* One monster changes and stays in its group.
LEMMA OneMobChanges ==
    ASSUME MonstersInv, NEW m \in Ids, NEW r \in Mob, r.group = mob[m].group,
           mob' = [mob EXCEPT ![m] = r], UNCHANGED <<group, near>>,
           \/ struck' = struck /\ DOMAIN r.hate \subseteq struck[m]
           \/ struck' = [struck EXCEPT ![m] = {}] /\ r.dead
    PROVE  MonstersInv'
<1>1. /\ mob' \in [1..Len(mob) -> Mob] /\ mob'[m] = r /\ \A k \in Ids \ {m} : mob'[k] = mob[k]
    BY MonsterFacts
<1>2. mob' \in Seq(Mob) /\ Len(mob') = Len(mob)
    BY <1>1, SeqAsFunction, MonsterFacts
<1>3. GroupsOK(group', Len(mob'))
    BY <1>2 DEF MonstersInv
<1>4. FoundOK(mob', group')
  <2>1. FoundOK(mob, group)
      BY DEF MonstersInv
  <2>2. \A k \in 1..Len(mob') : mob'[k].group = mob[k].group
      BY <1>1, <1>2, MonsterFacts
  <2>3. QED
      BY <1>2, <2>1, <2>2 DEF FoundOK
<1>5. KnownOK(mob', struck')
  <2>1. struck' \in [1..Len(mob) -> SUBSET Hunters] /\ \A k \in Ids \ {m} : struck'[k] = struck[k]
      BY MonsterFacts
  <2>2. struck' \in Seq(SUBSET Hunters) /\ Len(struck') = Len(mob')
      BY <1>2, <2>1, SeqAsFunction, MonsterFacts
  <2>3. ~r.dead => DOMAIN r.hate \subseteq struck'[m]
      OBVIOUS
  <2>4. \A k \in 1..Len(mob') : ~mob'[k].dead => DOMAIN mob'[k].hate \subseteq struck'[k]
      BY <1>1, <1>2, <2>1, <2>3, MonsterFacts DEF MonstersInv, KnownOK
  <2>5. QED
      BY <2>2, <2>4 DEF KnownOK
<1>6. QED
    BY <1>2, <1>3, <1>4, <1>5, NewMonstersInv DEF MonstersInv

LEMMA KilledOrTamedKeeps ==
    ASSUME MonstersInv, NEW m \in Ids, NEW tamed \in BOOLEAN, KilledOrTamed(m, tamed)
    PROVE  MonstersInv'
<1> DEFINE due == mob[m].returns /\ ~tamed
           r == [mob[m] EXCEPT !.dead = TRUE, !.target = Nobody, !.due = due]
<1>1. mob[m] \in Mob /\ due \in BOOLEAN
    BY MonsterFacts, MobParts
<1>2. mob' = [mob EXCEPT ![m] = r] /\ struck' = [struck EXCEPT ![m] = {}] /\ UNCHANGED <<group, near>>
    BY MonsterFacts DEF KilledOrTamed
<1> HIDE DEF due
<1>3. r \in Mob
    BY <1>1, MobChanges, NoHateFits, MobParts
<1>4. r.group = mob[m].group /\ r.dead
    BY <1>1 DEF Mob
<1> HIDE DEF r
<1>5. QED
    BY <1>2, <1>3, <1>4, OneMobChanges

LEMMA RespawnedFits ==
    ASSUME NEW x \in Mob
    PROVE  /\ Respawned(x) \in Mob /\ Respawned(x).group = x.group /\ DOMAIN Respawned(x).hate = {}
           /\ ~Respawned(x).dead
<1> DEFINE r == [x EXCEPT !.dead = FALSE, !.due = FALSE, !.hate = << >>, !.target = Nobody]
<1>1. r \in Mob
    BY NoHateFits, MobParts, MobChanges
<1>2. r.group = x.group /\ r.hate = << >> /\ r.dead = FALSE
    BY DEF Mob
<1>3. QED
    BY <1>1, <1>2, NoHateFits DEF Respawned

LEMMA RaiseMonsterKeeps ==
    ASSUME MonstersInv, NEW m \in Ids, RaiseMonster(m)
    PROVE  MonstersInv'
<1> DEFINE r == Respawned(mob[m])
<1>1. mob' = [mob EXCEPT ![m] = r] /\ UNCHANGED <<group, near, struck>>
    BY DEF RaiseMonster
<1>2. r \in Mob /\ r.group = mob[m].group /\ DOMAIN r.hate = {}
    BY MonsterFacts, RespawnedFits
<1> HIDE DEF r
<1>3. QED
    BY <1>1, <1>2, OneMobChanges

LEMMA RetargetedFits ==
    ASSUME NEW x \in Mob, NEW r \in Retargeted(x)
    PROVE  r \in Mob /\ r.group = x.group /\ DOMAIN r.hate \subseteq DOMAIN x.hate
<1> DEFINE h == Restrict(x.hate, DOMAIN x.hate \ {x.target})
           there == DOMAIN h \cap near
<1>1. x.hate \in Hates
    BY MobParts
<1>2. h \in Hates /\ DOMAIN h \subseteq DOMAIN x.hate
    BY <1>1, HateShrinks
<1> HIDE DEF h
<1>3. CASE r = x
    BY <1>3
<1>4. CASE r = [x EXCEPT !.hate = << >>, !.target = Nobody]
  <2>1. r \in Mob
      BY <1>4, NoHateFits, MobChanges, MobParts
  <2>2. r.group = x.group /\ r.hate = << >>
      BY <1>4 DEF Mob
  <2>3. QED
      BY <2>1, <2>2, NoHateFits
<1>5. ASSUME NEW s \in MostHated(h, there), NEW G \in Gone(h, s),
             r = [x EXCEPT !.target = s, !.hate = Restrict(h, DOMAIN h \ G)]
      PROVE  r \in Mob /\ r.group = x.group /\ DOMAIN r.hate \subseteq DOMAIN x.hate
  <2> DEFINE k == Restrict(h, DOMAIN h \ G)
  <2>1. k \in Hates /\ DOMAIN k \subseteq DOMAIN h
      BY <1>2, HateShrinks
  <2>2. s \in Hunters
      BY <1>2, HateFits DEF MostHated
  <2> HIDE DEF k
  <2>3. r = [x EXCEPT !.hate = k, !.target = s]
      BY <1>5 DEF k
  <2>4. r \in Mob
      BY <2>1, <2>2, <2>3, MobChanges
  <2>5. r.group = x.group /\ r.hate = k
      BY <2>3 DEF Mob
  <2>6. QED
      BY <1>2, <2>1, <2>4, <2>5
<1>6. QED
    BY <1>3, <1>4, <1>5 DEF Retargeted, h

LEMMA ThinkKeeps ==
    ASSUME MonstersInv, NEW m \in Ids, Think(m)
    PROVE  MonstersInv'
<1>1. PICK x \in Retargeted(mob[m]) :
          \/ mob' = [mob EXCEPT ![m] = x]
          \/ \E s \in near : mob' = [mob EXCEPT ![m] = [x EXCEPT !.target = s]]
          \/ mob' = [mob EXCEPT ![m] = [x EXCEPT !.hate = << >>]]
    BY DEF Think
<1>2. UNCHANGED <<group, near, struck>> /\ mob[m] \in Mob /\ near \subseteq Hunters
    BY MonsterFacts DEF Think, MonstersInv
<1>3. x \in Mob /\ x.group = mob[m].group /\ DOMAIN x.hate \subseteq struck[m]
  <2>1. x \in Mob /\ x.group = mob[m].group /\ DOMAIN x.hate \subseteq DOMAIN mob[m].hate
      BY <1>2, RetargetedFits
  <2>2. ~mob[m].dead
      BY DEF Think, Living
  <2>3. DOMAIN mob[m].hate \subseteq struck[m]
      BY <2>2, MonsterFacts DEF MonstersInv, KnownOK
  <2>4. QED
      BY <2>1, <2>3
<1>4. CASE mob' = [mob EXCEPT ![m] = x]
    BY <1>2, <1>3, <1>4, OneMobChanges
<1>5. ASSUME NEW s \in near, mob' = [mob EXCEPT ![m] = [x EXCEPT !.target = s]]
      PROVE  MonstersInv'
  <2> DEFINE r == [x EXCEPT !.target = s]
  <2>1. r \in Mob
      BY <1>2, <1>3, MobChanges, MobParts
  <2>2. r.group = x.group /\ r.hate = x.hate
      BY <1>3 DEF Mob
  <2> HIDE DEF r
  <2>3. QED
      BY <1>2, <1>3, <1>5, <2>1, <2>2, OneMobChanges DEF r
<1>6. CASE mob' = [mob EXCEPT ![m] = [x EXCEPT !.hate = << >>]]
  <2> DEFINE r == [x EXCEPT !.hate = << >>]
  <2>1. r \in Mob
      BY <1>3, NoHateFits, MobChanges, MobParts
  <2>2. r.group = x.group /\ DOMAIN r.hate = {}
      BY <1>3, NoHateFits DEF Mob
  <2>3. mob' = [mob EXCEPT ![m] = r] /\ DOMAIN r.hate \subseteq struck[m]
      BY <1>6, <2>2
  <2> HIDE DEF r
  <2>4. QED
      BY <1>2, <1>3, <2>1, <2>2, <2>3, OneMobChanges
<1>7. QED
    BY <1>1, <1>4, <1>5, <1>6

LEMMA LetGoKeeps ==
    ASSUME MonstersInv, NEW m \in Ids, LetGo(m)
    PROVE  MonstersInv'
<1> DEFINE r == [mob[m] EXCEPT !.target = Nobody]
<1>1. mob[m] \in Mob /\ ~mob[m].dead
    BY MonsterFacts DEF LetGo, Living
<1>2. mob' = [mob EXCEPT ![m] = r] /\ UNCHANGED <<group, near, struck>>
    BY MonsterFacts DEF LetGo
<1>3. r \in Mob
    BY <1>1, MobChanges, MobParts
<1>4. r.group = mob[m].group /\ r.hate = mob[m].hate
    BY <1>1 DEF Mob
<1>5. DOMAIN mob[m].hate \subseteq struck[m]
    BY <1>1, MonsterFacts DEF MonstersInv, KnownOK
<1> HIDE DEF r
<1>6. QED
    BY <1>2, <1>3, <1>4, <1>5, OneMobChanges

\* A leader returns, with a group of its own.
LEMMA GroupMore ==
    ASSUME MonstersInv, NEW n \in Nat, Len(mob) <= n, NEW m \in Ids, NEW ms \in Seq(Nat),
           m \in ToSet(ms), ToSet(ms) \subseteq 1..n
    PROVE  LET new == Append(group, [group[1] EXCEPT !.leader = m, !.members = ms])
           IN  /\ GroupsOK(new, n) /\ Len(new) = Len(group) + 1
               /\ \A g \in 1..Len(group) : new[g] = group[g]
               /\ new[Len(group) + 1].members = ms
<1> DEFINE h == [group[1] EXCEPT !.leader = m, !.members = ms]
           new == Append(group, h)
<1>1. group \in Seq(MobGroup) /\ Len(group) \in Nat /\ group[1] \in MobGroup /\ m \in 1..n /\ Len(mob) \in Nat
    BY MonsterFacts DEF MonstersInv, GroupsOK
<1>2. h \in MobGroup /\ h.leader = m /\ h.members = ms
  <2>1. m \in Nat
      BY <1>1
  <2>2. h \in MobGroup
      BY <1>1, <2>1, Zenon DEF MobGroup
  <2>3. h.leader = m /\ h.members = ms
      BY <1>1 DEF MobGroup
  <2>4. QED
      BY <2>2, <2>3
<1> HIDE DEF h
<1>3. /\ new \in Seq(MobGroup) /\ Len(new) = Len(group) + 1 /\ new[Len(group) + 1] = h
      /\ \A g \in 1..Len(group) : new[g] = group[g]
    BY <1>1, <1>2
<1> HIDE DEF new
<1>4. ASSUME NEW g \in 1..Len(new)
      PROVE  new[g].leader \in 1..n /\ ToSet(new[g].members) \subseteq 1..n
  <2>1. CASE g = Len(group) + 1
      BY <1>1, <1>2, <1>3, <2>1
  <2>2. CASE g # Len(group) + 1
    <3>1. g \in 1..Len(group)
        BY <1>1, <1>3, <2>2
    <3>2. group[g].leader \in 1..Len(mob) /\ ToSet(group[g].members) \subseteq 1..Len(mob)
        BY <3>1, MonsterFacts
    <3>3. 1..Len(mob) \subseteq 1..n
        BY <1>1
    <3>4. QED
        BY <1>3, <3>1, <3>2, <3>3
  <2>3. QED
      BY <2>1, <2>2
<1>5. GroupsOK(new, n)
    BY <1>1, <1>3, <1>4 DEF GroupsOK
<1>6. QED
    BY <1>2, <1>3, <1>5 DEF new, h

LEMMA OldGroup ==
    ASSUME NEW gs, NEW hs, NEW len \in Nat, NEW j \in 0..len, NEW k,
           \A g \in 1..len : hs[g] = gs[g], Len(hs) = len + 1,
           j # 0 => k \in ToSet(gs[j].members)
    PROVE  /\ j \in 0..Len(hs)
           /\ j # 0 => k \in ToSet(hs[j].members)
<1>1. CASE j = 0
    BY <1>1
<1>2. CASE j # 0
  <2>1. j \in 1..len
      BY <1>2
  <2>2. hs[j] = gs[j]
      BY <2>1
  <2>3. QED
      BY <1>2, <2>2
<1>3. QED
    BY <1>1, <1>2

LEMMA ReturnKeeps ==
    ASSUME MonstersInv, NEW m \in Ids, Return(m)
    PROVE  MonstersInv'
<1> DEFINE n == Len(mob)
           r == [Respawned(mob[m]) EXCEPT !.group = Len(group) + 1]
           x == [mob EXCEPT ![m] = r]
<1>1. /\ n \in Nat /\ Ids = 1..n /\ mob \in [1..n -> Mob] /\ Len(group) \in Nat /\ near' = near
      /\ mob[m] \in Mob /\ m \in Nat
    BY MonsterFacts DEF Return
<1>2. r \in Mob /\ r.group = Len(group) + 1 /\ DOMAIN r.hate = {}
  <2>1. Respawned(mob[m]) \in Mob /\ DOMAIN Respawned(mob[m]).hate = {}
      BY <1>1, RespawnedFits
  <2> DEFINE y == Respawned(mob[m])
             g == Len(group) + 1
  <2>2. y \in Mob /\ g \in Nat /\ r = [y EXCEPT !.group = g]
      BY <1>1, <2>1
  <2> HIDE DEF y, g
  <2>3. [y EXCEPT !.group = g] \in Mob
      BY <2>2, MobParts, MobChanges
  <2>4. r.group = g /\ r.hate = y.hate
      BY <2>2 DEF Mob
  <2>5. QED
      BY <2>1, <2>2, <2>3, <2>4 DEF y, g
<1> HIDE DEF r
<1>3. x \in [1..n -> Mob] /\ x[m] = r /\ \A k \in Ids \ {m} : x[k] = mob[k]
    BY <1>1, <1>2
<1>4. x \in Seq(Mob) /\ Len(x) = n
    BY <1>1, <1>3, SeqAsFunction
<1>5. \A k \in 1..n : k # m =>
          /\ mob[k].group \in 0..Len(group)
          /\ mob[k].group # 0 => k \in ToSet(group[mob[k].group].members)
          /\ ~mob[k].dead => DOMAIN mob[k].hate \subseteq struck[k]
    BY <1>1 DEF MonstersInv, FoundOK, KnownOK
<1> HIDE DEF n
<1>6. ASSUME mob' = Append(x, NewMob(TRUE, 0)), struck' = Append(struck, {}),
             group' = Append(group, [group[1] EXCEPT !.leader = m, !.members = <<m, n + 1>>])
      PROVE  MonstersInv'
  <2> DEFINE young == NewMob(TRUE, 0)
             ms == <<m, n + 1>>
  <2>1. young \in Mob /\ DOMAIN young.hate = {} /\ young.group = 0
      BY NewMobFits, NoHateFits
  <2> HIDE DEF young
  <2>2. /\ mob' \in Seq(Mob) /\ Len(mob') = n + 1 /\ mob'[n + 1] = young /\ mob'[m] = r
        /\ \A k \in 1..n : k # m => mob'[k] = mob[k]
    <3>1. /\ mob' \in Seq(Mob) /\ Len(mob') = n + 1 /\ mob'[n + 1] = young
          /\ \A k \in 1..n : mob'[k] = x[k]
      <4>1. ASSUME NEW q \in Seq(Mob), NEW e \in Mob
            PROVE  /\ Append(q, e) \in Seq(Mob) /\ Len(Append(q, e)) = Len(q) + 1
                   /\ Append(q, e)[Len(q) + 1] = e
                   /\ \A k \in 1..Len(q) : Append(q, e)[k] = q[k]
          OBVIOUS
      <4>2. mob' = Append(x, young)
          BY <1>6 DEF young
      <4> HIDE DEF x
      <4>3. QED
          BY <1>4, <2>1, <4>1, <4>2
    <3>2. QED
        BY <1>1, <1>3, <3>1
  <2>3. ms \in Seq(Nat) /\ ToSet(ms) = {m, n + 1} /\ m \in ToSet(ms) /\ ToSet(ms) \subseteq 1..(n + 1)
    <3>1. ms \in Seq(Nat) /\ ToSet(ms) = {m, n + 1}
        BY <1>1 DEF ToSet
    <3>2. m \in 1..(n + 1) /\ n + 1 \in 1..(n + 1)
        BY <1>1
    <3>3. QED
        BY <3>1, <3>2
  <2> HIDE DEF ms
  <2>4. /\ GroupsOK(group', n + 1) /\ Len(group') = Len(group) + 1
        /\ \A g \in 1..Len(group) : group'[g] = group[g]
        /\ group'[Len(group) + 1].members = ms
    <3>1. n + 1 \in Nat /\ Len(mob) <= n + 1
        BY <1>1 DEF n
    <3>2. QED
        BY <1>6, <2>3, <3>1, GroupMore DEF ms
  <2>5. FoundOK(mob', group')
    <3> SUFFICES ASSUME NEW k \in 1..(n + 1)
                 PROVE  /\ mob'[k].group \in 0..Len(group')
                        /\ mob'[k].group # 0 => k \in ToSet(group'[mob'[k].group].members)
        BY <2>2 DEF FoundOK
    <3>1. CASE k = n + 1
        BY <1>1, <2>1, <2>2, <2>4, <3>1
    <3>2. CASE k = m
        BY <1>1, <1>2, <2>2, <2>3, <2>4, <3>2
    <3>3. CASE k # m /\ k # n + 1
      <4>1. k \in 1..n /\ mob'[k] = mob[k]
          BY <1>1, <2>2, <3>3
      <4>2. QED
          BY <1>1, <1>5, <2>4, <3>3, <4>1, OldGroup
    <3>4. QED
        BY <3>1, <3>2, <3>3
  <2>6. KnownOK(mob', struck')
    <3>1. struck' \in Seq(SUBSET Hunters) /\ Len(struck') = n + 1 /\ \A k \in 1..n : struck'[k] = struck[k]
      <4>1. ASSUME NEW q \in Seq(SUBSET Hunters)
            PROVE  /\ Append(q, {}) \in Seq(SUBSET Hunters) /\ Len(Append(q, {})) = Len(q) + 1
                   /\ \A k \in 1..Len(q) : Append(q, {})[k] = q[k]
          OBVIOUS
      <4>2. struck \in Seq(SUBSET Hunters) /\ Len(struck) = n
          BY MonsterFacts DEF n
      <4>3. QED
          BY <1>6, <4>1, <4>2
    <3>2. ASSUME NEW k \in 1..(n + 1), ~mob'[k].dead
          PROVE  DOMAIN mob'[k].hate \subseteq struck'[k]
      <4>1. CASE k = n + 1
          BY <2>1, <2>2, <4>1
      <4>2. CASE k = m
          BY <1>2, <2>2, <4>2
      <4>3. CASE k # m /\ k # n + 1
        <5>1. k \in 1..n /\ mob'[k] = mob[k]
            BY <1>1, <2>2, <4>3
        <5>2. DOMAIN mob[k].hate \subseteq struck[k]
            BY <1>5, <3>2, <4>3, <5>1
        <5>3. QED
            BY <3>1, <5>1, <5>2
      <4>4. QED
          BY <4>1, <4>2, <4>3
    <3>3. QED
        BY <2>2, <3>1, <3>2 DEF KnownOK
  <2>7. QED
      BY <1>1, <2>2, <2>4, <2>5, <2>6, NewMonstersInv DEF MonstersInv
<1>7. ASSUME mob' = x, UNCHANGED struck,
             group' = Append(group, [group[1] EXCEPT !.leader = m, !.members = <<m>>])
      PROVE  MonstersInv'
  <2> DEFINE ms == <<m>>
  <2>1. ms \in Seq(Nat) /\ ToSet(ms) = {m} /\ m \in ToSet(ms) /\ ToSet(ms) \subseteq 1..n
      BY <1>1 DEF ToSet
  <2> HIDE DEF ms
  <2>2. /\ GroupsOK(group', n) /\ Len(group') = Len(group) + 1
        /\ \A g \in 1..Len(group) : group'[g] = group[g]
        /\ group'[Len(group) + 1].members = ms
    <3>1. n \in Nat /\ Len(mob) <= n
        BY <1>1 DEF n
    <3>2. QED
        BY <1>7, <2>1, <3>1, GroupMore DEF ms
  <2>3. mob' \in Seq(Mob) /\ Len(mob') = n /\ mob'[m] = r /\ \A k \in 1..n : k # m => mob'[k] = mob[k]
      BY <1>1, <1>3, <1>4, <1>7
  <2>4. FoundOK(mob', group')
    <3> SUFFICES ASSUME NEW k \in 1..n
                 PROVE  /\ mob'[k].group \in 0..Len(group')
                        /\ mob'[k].group # 0 => k \in ToSet(group'[mob'[k].group].members)
        BY <2>3 DEF FoundOK
    <3>1. CASE k = m
        BY <1>1, <1>2, <2>1, <2>2, <2>3, <3>1
    <3>2. CASE k # m
        BY <1>1, <1>5, <2>2, <2>3, <3>2, OldGroup
    <3>3. QED
        BY <3>1, <3>2
  <2>5. KnownOK(mob', struck')
    <3>1. struck' \in Seq(SUBSET Hunters) /\ Len(struck') = n /\ struck' = struck
        BY <1>7, MonsterFacts DEF n
    <3>2. ASSUME NEW k \in 1..n, ~mob'[k].dead
          PROVE  DOMAIN mob'[k].hate \subseteq struck'[k]
      <4>1. CASE k = m
          BY <1>2, <2>3, <4>1
      <4>2. CASE k # m
        <5>1. mob'[k] = mob[k]
            BY <2>3, <4>2
        <5>2. DOMAIN mob[k].hate \subseteq struck[k]
            BY <1>5, <3>2, <4>2, <5>1
        <5>3. QED
            BY <3>1, <5>1, <5>2
      <4>3. QED
          BY <4>1, <4>2
    <3>3. QED
        BY <2>3, <3>1, <3>2 DEF KnownOK
  <2>6. QED
      BY <1>1, <2>2, <2>3, <2>4, <2>5, NewMonstersInv DEF MonstersInv
<1>8. QED
    BY <1>1, <1>6, <1>7 DEF Return, r, n

LEMMA MonstersInvNext ==
    MonstersInv /\ [MonstersNext]_monsterVars => MonstersInv'
<1> SUFFICES ASSUME MonstersInv, [MonstersNext]_monsterVars
             PROVE  MonstersInv'
    OBVIOUS
<1>1. CASE UNCHANGED monsterVars
    BY <1>1, NewMonstersInv DEF monsterVars, MonstersInv
<1>2. ASSUME NEW s \in Hunters, Comes(s) \/ Goes(s)
      PROVE  MonstersInv'
    BY <1>2, NewMonstersInv DEF Comes, Goes, MonstersInv
<1>3. ASSUME NEW s \in Hunters, NEW m \in Ids, NEW d \in 1..MaxHit, NEW family \in BOOLEAN,
             Hit(s, m, d, family)
      PROVE  MonstersInv'
    BY <1>3, HitKeeps
<1>4. ASSUME NEW m \in Ids,
             \/ Reflected(m) \/ (\E tamed \in BOOLEAN : KilledOrTamed(m, tamed))
             \/ Return(m) \/ RaiseMonster(m) \/ Think(m) \/ LetGo(m)
      PROVE  MonstersInv'
    BY <1>4, ReflectedKeeps, KilledOrTamedKeeps, ReturnKeeps, RaiseMonsterKeeps, ThinkKeeps, LetGoKeeps
<1>5. QED
    BY <1>1, <1>2, <1>3, <1>4 DEF MonstersNext

LEMMA MonstersInvAgrees ==
    MonstersInv => HerdsAgree
<1> SUFFICES ASSUME MonstersInv
             PROVE  HerdsAgree
    OBVIOUS
<1>1. MonstersTypeOK
  <2>1. \A m \in Ids : /\ mob[m].group \in 0..Len(group) /\ mob[m].target \in Hunters \cup {Nobody}
                       /\ DOMAIN mob[m].hate \subseteq Hunters /\ TotalHate(mob[m].hate) <= MaxHate
      BY MonsterFacts, MobParts, HateFits DEF MonstersInv, FoundOK
  <2>2. QED
      BY <2>1, MonsterFacts DEF MonstersTypeOK, MonstersInv
<1>2. HateIsOfThisLife
    BY MonsterFacts DEF MonstersInv, KnownOK, HateIsOfThisLife, Living
<1>3. MembersAreFound
    BY MonsterFacts DEF MonstersInv, FoundOK, MembersAreFound, Living
<1>4. SharesFit
  <2> SUFFICES ASSUME NEW m \in Living, NEW to \in Shares(m)
               PROVE  SumFunction(to) <= Exp /\ \A s \in DOMAIN to : to[s] >= 0
      BY DEF SharesFit
  <2>1. mob[m].hate \in Hates
      BY MonsterFacts, MobParts DEF Living
  <2>2. PICK s \in Hunters, away \in SUBSET DOMAIN mob[m].hate : to = Paid(mob[m].hate, s, away)
      BY DEF Shares
  <2>3. QED
      BY <2>1, <2>2, PaidFits
<1>5. QED
    BY <1>1, <1>2, <1>3, <1>4 DEF HerdsAgree

\* However monsters are hit, linked, killed, tamed, raised and return: they hate only who struck
\* them or their kin in this life, are found by their group, and a kill pays no more than a
\* monster's experience and nobody less than nothing (hate.go, handleNpcDeath, npc_respawn.go).
THEOREM HerdsAlwaysAgree == MonstersSpec => []HerdsAgree
<1>1. MonstersSpec => []MonstersInv
    BY MonstersInvInit, MonstersInvNext, PTL DEF MonstersSpec
<1>2. QED
    BY <1>1, MonstersInvAgrees, PTL
-----------------------------------------------------------------------------
(* World.                                                                  *)

\* What each system's step does not touch stays as it was.
LEMMA SystemsKeepTheirOwn ==
    ASSUME WorldNext
    PROVE  /\ [DungeonNext]_dungeonVars /\ [HouseNext]_houseVars /\ [TimedNext]_timedVars
           /\ [DragonNext]_dragonVars /\ [TilesNext]_tileVars /\ [CompanionNext]_companionVars
<1>1. PICK t \in System : SystemStep(t)
    BY DEF WorldNext
<1>2. CASE t = "dungeon"
    BY <1>1, <1>2 DEF SystemStep, Others
<1>3. CASE t = "house"
    BY <1>1, <1>3 DEF SystemStep, Others
<1>4. CASE t = "timed"
    BY <1>1, <1>4 DEF SystemStep, Others
<1>5. CASE t = "dragon"
    BY <1>1, <1>5 DEF SystemStep, Others
<1>6. CASE t = "tiles"
    BY <1>1, <1>6 DEF SystemStep, Others
<1>7. CASE t = "companions"
    BY <1>1, <1>7 DEF SystemStep, Others
<1>8. QED
    BY <1>2, <1>3, <1>4, <1>5, <1>6, <1>7 DEF System

\* Everything every system promises, side by side.
THEOREM SystemsAlwaysAgree == WorldSpec => [](SystemsAgree /\ TilesAgree /\ CompanionsAgree)
<1> DEFINE Inv == DungeonInv /\ HouseInv /\ TimedInv /\ DragonInv /\ TilesInv /\ CompanionsInv
<1>1. WorldInit => Inv
    BY DungeonInvInit, HouseInvInit, TimedInvInit, DragonInvInit, TilesInvInit, CompanionsInvInit
    DEF WorldInit
<1>2. Inv /\ [WorldNext]_systemVars => Inv'
  <2> SUFFICES ASSUME Inv, [WorldNext]_systemVars
               PROVE  Inv'
      OBVIOUS
  <2>1. /\ [DungeonNext]_dungeonVars /\ [HouseNext]_houseVars /\ [TimedNext]_timedVars
        /\ [DragonNext]_dragonVars /\ [TilesNext]_tileVars /\ [CompanionNext]_companionVars
      BY SystemsKeepTheirOwn DEF systemVars
  <2>2. QED
      BY <2>1, DungeonInvNext, HouseInvNext, TimedInvNext, DragonInvNext, TilesInvNext,
         CompanionsInvNext
<1>3. Inv => SystemsAgree /\ TilesAgree /\ CompanionsAgree
    BY DungeonInvAgrees, HouseInvAgrees, TimedInvAgrees, DragonInvAgrees, TilesInvAgrees,
       CompanionsInvAgrees
    DEF SystemsAgree
<1>4. QED
    BY <1>1, <1>2, <1>3, PTL DEF WorldSpec

=============================================================================
