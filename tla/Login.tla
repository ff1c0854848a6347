-------------------------------- MODULE Login --------------------------------
(***************************************************************************)
(* From the connection to the game world: session states, accounts and the *)
(* players in the world.                                                   *)
(*                                                                         *)
(* The game loop (InputSystem.Update) visits the sessions of its store one *)
(* after the other and dispatches their packets; a handler runs only if    *)
(* the session's state allows it.  A session's own goroutines may close it *)
(* at any moment, also while the loop is at it, and Close stores closed    *)
(* and state one after the other.  The account row in the database outlives *)
(* the server; the sessions and the world do not.  The queues and the      *)
(* goroutines of a session, and that it is visited again and again, are in *)
(* Connection.                                                             *)
(***************************************************************************)
EXTENDS Naturals, FiniteSets

CONSTANTS
    Session,        \* connections; each is made once
    Account,
    Character,
    AccountOf,      \* characters.account_name
    NoOne,          \* no account, no character, no session
    NewConns,       \* capacity of Server.newConns
    MaxFailures,    \* bound: account updates that fail
    MaxRestarts     \* bound: crashes and shutdowns

ASSUME LoginAssumption ==
    /\ AccountOf \in [Character -> Account]
    /\ NoOne \notin Session \cup Account \cup Character
    /\ NewConns \in Nat \ {0}
    /\ {MaxFailures, MaxRestarts} \subseteq Nat

VARIABLES
    place,      \* of each session: "none", "queued", "stored" or "gone"
    state,      \* Session.state
    closing,    \* "open"; "half": closed is set; "closed": so is state
    account,    \* Session.AccountName
    bySession,  \* State.bySession: the character a session plays
    byChar,     \* State.byCharID and byName: the session that plays it
    online,     \* accounts.online in the database
    muddled,    \* history: accounts in use with a lost SetOnline(true)
    stale,      \* history: accounts whose SetOnline(false) never happened
    visit,      \* what the game loop is doing
    failures, restarts

sessionVars == <<place, state, closing, account>>
worldVars == <<bySession, byChar>>
accountVars == <<online, muddled, stale>>
boundVars == <<failures, restarts>>
vars == <<sessionVars, worldVars, accountVars, visit, boundVars>>

SessionState == {"Handshake", "VersionOK", "Authenticated", "InWorld", "Disconnecting"}
Packet == {"version", "login", "enter", "change", "play", "quit"}

\* The states a packet's handler is registered for.  "play" stands for the
\* packets of a player in the world, C_SAVEIO among them.
Allowed(packet) ==
    CASE packet = "version" -> {"Handshake"}
      [] packet = "login" -> {"VersionOK"}
      [] packet = "enter" -> {"Authenticated"}
      [] packet = "change" -> {"Authenticated", "InWorld"}
      [] packet = "play" -> {"InWorld"}
      [] packet = "quit" -> {"VersionOK", "Authenticated", "InWorld"}

NoVisit == [at |-> NoOne, last |-> FALSE, doing |-> "nothing"]

Stored == {s \in Session : place[s] = "stored"}
IsClosed(s) == closing[s] # "open"
LoggedIn(a) == {s \in Stored : account[s] = a}
-----------------------------------------------------------------------------
(* Connections *)

\* AcceptLoop hands a new session over, or refuses it when newConns is full.
Connect(s) ==
    /\ place[s] = "none"
    /\ IF Cardinality({t \in Session : place[t] = "queued"}) < NewConns
       THEN place' = [place EXCEPT ![s] = "queued"] /\ UNCHANGED <<state, closing>>
       ELSE /\ place' = [place EXCEPT ![s] = "gone"]
            /\ closing' = [closing EXCEPT ![s] = "closed"]
            /\ state' = [state EXCEPT ![s] = "Disconnecting"]
    /\ UNCHANGED <<account, worldVars, accountVars, visit, boundVars>>

\* A goroutine of the session calls Close: the client hung up, or its
\* connection broke, or it is too slow, or too fast.
BeginClose(s) ==
    /\ place[s] \in {"queued", "stored"} /\ closing[s] = "open"
    /\ closing' = [closing EXCEPT ![s] = "half"]
    /\ UNCHANGED <<place, state, account, worldVars, accountVars, visit, boundVars>>

EndClose(s) ==
    /\ closing[s] = "half"
    /\ closing' = [closing EXCEPT ![s] = "closed"]
    /\ state' = [state EXCEPT ![s] = "Disconnecting"]
    /\ UNCHANGED <<place, account, worldVars, accountVars, visit, boundVars>>

-----------------------------------------------------------------------------
(* The game loop *)

AcceptNew(s) ==
    /\ visit = NoVisit /\ place[s] = "queued"
    /\ place' = [place EXCEPT ![s] = "stored"]
    /\ UNCHANGED <<state, closing, account, worldVars, accountVars, visit, boundVars>>

\* IsClosed is asked when the range over the store reaches the session.
Visit(s) ==
    /\ visit = NoVisit /\ s \in Stored
    /\ visit' = [at |-> s, last |-> IsClosed(s), doing |-> "nothing"]
    /\ UNCHANGED <<sessionVars, worldVars, accountVars, boundVars>>

\* Dispatch checks the state the session has by then.  A packet that is not
\* allowed is dropped.
Dispatch ==
    /\ visit.at # NoOne /\ visit.doing = "nothing"
    /\ \E packet \in Packet :
          visit' = [visit EXCEPT !.doing = IF state[visit.at] \in Allowed(packet)
                                   THEN packet ELSE "nothing"]
    /\ UNCHANGED <<sessionVars, worldVars, accountVars, boundVars>>

HandlerEnds == visit' = [visit EXCEPT !.doing = "nothing"]
Handling(packet) == visit.doing = packet /\ HandlerEnds

SetState(s, st) == state' = [state EXCEPT ![s] = st]

\* Close as a handler calls it: it waits for a goroutine that is closing already.
CloseSession(s) ==
    /\ closing[s] # "half"
    /\ closing' = [closing EXCEPT ![s] = "closed"]
    /\ state' = IF closing[s] = "open" THEN [state EXCEPT ![s] = "Disconnecting"] ELSE state

HandleVersion ==
    LET s == visit.at IN
    /\ Handling("version")
    /\ SetState(s, "VersionOK")
    /\ UNCHANGED <<place, closing, account, worldVars, accountVars, boundVars>>

\* Wrong password, no such account, banned, the database fails, the account is
\* online already: the client is told so, and may try again.
RefuseLogin ==
    /\ Handling("login")
    /\ UNCHANGED <<sessionVars, worldVars, accountVars, boundVars>>

\* Fault: whether the account is online already is not asked.
LoginUnchecked(a) ==
    LET s == visit.at IN
    /\ Handling("login")
    /\ online' = [online EXCEPT ![a] = TRUE]
    /\ account' = [account EXCEPT ![s] = a]
    /\ SetState(s, "Authenticated")
    /\ UNCHANGED <<place, closing, worldVars, muddled, stale, boundVars>>
\* A failure of SetOnline(true) is logged, and the login goes on.
HandleLogin(a) ==
    LET s == visit.at IN
    /\ Handling("login")
    /\ ~online[a]
    /\ \/ /\ online' = [online EXCEPT ![a] = TRUE]
          /\ UNCHANGED <<muddled, failures>>
       \/ /\ failures < MaxFailures
          /\ failures' = failures + 1
          /\ muddled' = muddled \cup {a}
          /\ UNCHANGED online
    /\ account' = [account EXCEPT ![s] = a]
    /\ SetState(s, "Authenticated")
    /\ UNCHANGED <<place, closing, worldVars, stale, restarts>>

AddPlayer(s, c) ==
    /\ bySession' = [bySession EXCEPT ![s] = c]
    /\ byChar' = [byChar EXCEPT ![c] = s]

\* RemovePlayer takes the character out of all maps, whoever is in them.
RemovePlayer(s) ==
    LET c == bySession[s] IN
    /\ bySession' = [bySession EXCEPT ![s] = NoOne]
    /\ byChar' = IF c = NoOne THEN byChar ELSE [byChar EXCEPT ![c] = NoOne]

\* A character that cannot be loaded, or is somebody else's, closes the session.
RefuseEnterWorld ==
    /\ Handling("enter")
    /\ CloseSession(visit.at)
    /\ UNCHANGED <<place, account, worldVars, accountVars, boundVars>>

HandleEnterWorld(c) ==
    LET s == visit.at IN
    /\ Handling("enter")
    /\ AccountOf[c] = account[s]
    /\ SetState(s, "InWorld")
    /\ AddPlayer(s, c)
    /\ UNCHANGED <<place, closing, account, accountVars, boundVars>>

\* Fault: the character stays in the world.
SelectOnly ==
    LET s == visit.at IN
    /\ Handling("change")
    /\ SetState(s, "Authenticated")
    /\ UNCHANGED <<place, closing, account, worldVars, accountVars, boundVars>>
HandleChangeChar ==
    LET s == visit.at IN
    /\ Handling("change")
    /\ RemovePlayer(s)
    /\ SetState(s, "Authenticated")
    /\ UNCHANGED <<place, closing, account, accountVars, boundVars>>

HandleQuit ==
    /\ Handling("quit")
    /\ CloseSession(visit.at)
    /\ UNCHANGED <<place, account, worldVars, accountVars, boundVars>>

\* What a player does in the world does not concern this module.
Play ==
    /\ Handling("play")
    /\ UNCHANGED <<sessionVars, worldVars, accountVars, boundVars>>

\* The queue is empty or the quota of one visit is used up (Connection counts):
\* on to the next session.
NextSession ==
    /\ visit.at # NoOne /\ visit.doing = "nothing" /\ ~visit.last
    /\ visit' = NoVisit
    /\ UNCHANGED <<sessionVars, worldVars, accountVars, boundVars>>

\* Fault: the account is marked offline only for a session in the world.
MarkIfPlaying(s) ==
    LET a == account[s] IN
    /\ online' = IF bySession[s] # NoOne THEN [online EXCEPT ![a] = FALSE] ELSE online
    /\ UNCHANGED <<muddled, stale, failures>>
\* Fault: sessions that have not logged in are not told apart.
MarkAnyone(s) ==
    LET a == account[s] IN
    /\ online' = [online EXCEPT ![a] = FALSE]
    /\ muddled' = muddled \ {a}
    /\ \/ stale' = stale \ {a} /\ UNCHANGED failures
       \/ failures < MaxFailures /\ failures' = failures + 1 /\ stale' = stale \cup {a}
\* SetOnline(false) for the account of a session that leaves; what becomes of it
\* is not looked at.
MarkOffline(s) ==
    LET a == account[s] IN
    IF a = NoOne THEN UNCHANGED <<accountVars, failures>>
    ELSE /\ \/ /\ online' = [online EXCEPT ![a] = FALSE]
               /\ stale' = stale \ {a}
               /\ UNCHANGED failures
            \/ /\ failures < MaxFailures
               /\ failures' = failures + 1
               /\ stale' = IF online[a] THEN stale \cup {a} ELSE stale
               /\ UNCHANGED online
         /\ muddled' = IF LoggedIn(a) = {s} THEN muddled \ {a} ELSE muddled

\* Fault: only the session is forgotten.
ForgetSession ==
    LET s == visit.at IN
    /\ visit.at # NoOne /\ visit.doing = "nothing" /\ visit.last
    /\ MarkOffline(s)
    /\ place' = [place EXCEPT ![s] = "gone"]
    /\ visit' = NoVisit
    /\ UNCHANGED <<state, closing, account, worldVars, restarts>>
\* The last packets of a closed session are through: handleDisconnect, and the
\* session leaves the store.
HandleDisconnect ==
    LET s == visit.at IN
    /\ visit.at # NoOne /\ visit.doing = "nothing" /\ visit.last
    /\ RemovePlayer(s)
    /\ MarkOffline(s)
    /\ place' = [place EXCEPT ![s] = "gone"]
    /\ visit' = NoVisit
    /\ UNCHANGED <<state, closing, account, restarts>>

-----------------------------------------------------------------------------
(* The server stops, by a crash or by SIGTERM, and is started again: nothing *)
(* clears accounts.online on either way.                                     *)
Restart ==
    /\ restarts < MaxRestarts
    /\ restarts' = restarts + 1
    /\ place' = [s \in Session |-> IF place[s] = "none" THEN "none" ELSE "gone"]
    /\ closing' = [s \in Session |-> IF place[s] = "none" THEN "open" ELSE "closed"]
    /\ bySession' = [s \in Session |-> NoOne]
    /\ byChar' = [c \in Character |-> NoOne]
    /\ visit' = NoVisit
    /\ stale' = stale \cup {a \in Account : online[a]}
    /\ muddled' = {}
    /\ UNCHANGED <<state, account, online, failures>>
-----------------------------------------------------------------------------
Init ==
    /\ place = [s \in Session |-> "none"]
    /\ state = [s \in Session |-> "Handshake"]
    /\ closing = [s \in Session |-> "open"]
    /\ account = [s \in Session |-> NoOne]
    /\ bySession = [s \in Session |-> NoOne]
    /\ byChar = [c \in Character |-> NoOne]
    /\ online = [a \in Account |-> FALSE]
    /\ muddled = {} /\ stale = {}
    /\ visit = NoVisit
    /\ failures = 0 /\ restarts = 0

Handle ==
    \/ HandleVersion \/ RefuseLogin \/ \E a \in Account : HandleLogin(a)
    \/ RefuseEnterWorld \/ \E c \in Character : HandleEnterWorld(c)
    \/ HandleChangeChar \/ HandleQuit \/ Play
AtSession == Dispatch \/ Handle \/ NextSession \/ HandleDisconnect

Next ==
    \/ \E s \in Session :
          Connect(s) \/ BeginClose(s) \/ EndClose(s) \/ AcceptNew(s) \/ Visit(s)
    \/ AtSession
    \/ Restart

Spec == Init /\ [][Next]_vars
-----------------------------------------------------------------------------
(* Properties *)

TypeOK ==
    /\ place \in [Session -> {"none", "queued", "stored", "gone"}]
    /\ state \in [Session -> SessionState]
    /\ closing \in [Session -> {"open", "half", "closed"}]
    /\ account \in [Session -> Account \cup {NoOne}]
    /\ bySession \in [Session -> Character \cup {NoOne}]
    /\ byChar \in [Character -> Session \cup {NoOne}]
    /\ online \in [Account -> BOOLEAN]
    /\ muddled \subseteq Account /\ stale \subseteq Account
    /\ visit \in [at : Session \cup {NoOne}, last : BOOLEAN,
                  doing : Packet \cup {"nothing"}]
    /\ failures \in 0..MaxFailures /\ restarts \in 0..MaxRestarts

\* Two sessions are never logged in to one account, unless marking it online
\* failed: handleLogin's check of accounts.online is all that prevents it.
NoDoubleLogin ==
    \A s, t \in Stored :
        account[s] = account[t] /\ account[s] \in Account \ muddled => s = t

\* accounts.online says whether somebody is logged in, in every state between
\* two updates and after every way a session may end, unless an update was lost.
OnlineIsLoggedIn ==
    \A a \in Account \ muddled :
        online[a] <=> LoggedIn(a) # {} \/ a \in stale

\* A player in the world belongs to a session of the store that is logged in to
\* the character's account, and the world's maps agree on it, so that nobody
\* else plays the character.  (A lost SetOnline(true) may let somebody.)
OnePlayerPerCharacter ==
    \A s \in Session, c \in Character :
        /\ byChar[c] = s => bySession[s] = c
        /\ bySession[s] = c => s \in Stored /\ account[s] = AccountOf[c]
        /\ bySession[s] = c /\ AccountOf[c] \notin muddled => byChar[c] = s

\* A session that the server thinks in the world has a player there, and no
\* other session has one, even when it is closed in the middle of a handler.
InWorldHasPlayer ==
    \A s \in Stored :
        /\ state[s] = "InWorld" => bySession[s] # NoOne
        /\ bySession[s] # NoOne => state[s] \in {"InWorld", "Disconnecting"}

\* The refusal of a login as "already exists" is about somebody who is online.
LoginRefusedOnlyWhileOnline ==
    \A a \in Account : online[a] => LoggedIn(a) # {}

\* The last packets of a closed session still find their player: what a player
\* in the world may send is dispatched until handleDisconnect takes it out.
LastPacketsFindThePlayer ==
    visit.last /\ bySession[visit.at] # NoOne =>
        state[visit.at] \in Allowed("play")
=============================================================================
