------------------------------ MODULE TimedMap -------------------------------
(***************************************************************************)
(* Maps with a daily time limit: MapTimerSystem                            *)
(* (internal/system/maptimer_sys.go), the groups of maps                   *)
(* (internal/handler/maptimer.go), and what starts and stops the clock:    *)
(* teleports, death, entering and leaving the world.  The time used is     *)
(* characters.map_times in the database; a player with none used is not    *)
(* saved.                                                                  *)
(***************************************************************************)
EXTENDS Integers

CONSTANTS
    Guests,
    Map, Group, GroupOf, \* GroupOf[m]: the group of a map, or None
    Outside,    \* the map at the exit of every group
    None,
    MaxTime,    \* MaxTimeSec
    MaxUsed,    \* bound: seconds used when the clock starts
    MaxDay      \* bound: days

ASSUME TimedMapAssumption ==
    /\ GroupOf \in [Map -> Group \cup {None}] /\ None \notin Group
    /\ Outside \in Map /\ GroupOf[Outside] = None
    /\ {MaxTime, MaxUsed, MaxDay} \subseteq Nat \ {0} /\ MaxTime <= MaxUsed

VARIABLES
    used,       \* MapTimeUsed
    clock,      \* MapTimerGroupIdx
    remaining,  \* MapTimerRemaining
    mapID,      \* MapID
    fallen,     \* Dead
    here,       \* players in the world
    dbUsed,     \* characters.map_times
    day

clockVars == <<used, clock, remaining>>
timedVars == <<clockVars, mapID, fallen, here, dbUsed, day>>

Unused == [g \in Group |-> 0]
Left(u) == IF u >= MaxTime THEN 0 ELSE MaxTime - u

TimedInit ==
    /\ used = [p \in Guests |-> Unused] /\ clock = [p \in Guests |-> None]
    /\ remaining = [p \in Guests |-> 0] /\ mapID = [p \in Guests |-> Outside]
    /\ fallen = {} /\ here = Guests
    /\ dbUsed = [p \in Guests |-> Unused] /\ day = 1

-----------------------------------------------------------------------------
\* OnEnterTimedMap of p on map m, with time u used.
StartClock(p, m, u) ==
    LET g == GroupOf[m] IN
    /\ g # None => u[g] < MaxUsed
    /\ clock' = [clock EXCEPT ![p] = g]
    /\ remaining' = [remaining EXCEPT ![p] = IF g = None THEN @ ELSE Left(u[g])]

\* teleportPlayer
Teleport(p, m) ==
    /\ p \in here \ fallen
    /\ mapID' = [mapID EXCEPT ![p] = m]
    /\ StartClock(p, m, used[p])
    /\ UNCHANGED <<used, fallen, here, dbUsed, day>>

\* The Teleport of a dialog only writes the position.
MoveByDialog(p, m) ==
    /\ p \in here \ fallen
    /\ mapID' = [mapID EXCEPT ![p] = m]
    /\ UNCHANGED <<clockVars, fallen, here, dbUsed, day>>

\* KillPlayer
Die(p) ==
    /\ p \in here \ fallen
    /\ fallen' = fallen \cup {p}
    /\ IF clock[p] # None
       THEN clock' = [clock EXCEPT ![p] = None] /\ remaining' = [remaining EXCEPT ![p] = 0]
       ELSE UNCHANGED <<clock, remaining>>
    /\ UNCHANGED <<used, mapID, here, dbUsed, day>>

\* ProcessRestart
RestartAtHome(p) ==
    /\ p \in here \cap fallen
    /\ fallen' = fallen \ {p}
    /\ mapID' = [mapID EXCEPT ![p] = Outside]
    /\ StartClock(p, Outside, used[p])
    /\ UNCHANGED <<used, here, dbUsed, day>>

\* A resurrection: in place, and the clock stays stopped.
Resurrect(p) ==
    /\ p \in here \cap fallen
    /\ fallen' = fallen \ {p}
    /\ UNCHANGED <<clockVars, mapID, here, dbUsed, day>>

\* TickMapTimer and what Update does when time is up.
Tick(p) ==
    LET g == clock[p]
        expired == remaining[p] <= 1
    IN  /\ p \in here \ fallen /\ g # None
        /\ used' = [used EXCEPT ![p][g] = @ + 1]
        /\ remaining' = [remaining EXCEPT ![p] = @ - 1]
        /\ clock' = [clock EXCEPT ![p] = IF expired THEN None ELSE g]
        /\ mapID' = [mapID EXCEPT ![p] = IF expired /\ GroupOf[@] # None THEN Outside ELSE @]
        /\ UNCHANGED <<fallen, here, dbUsed, day>>

\* ResetAllMapTimers of all who are online, and OnEnterTimedMap again.
ResetClocks ==
    /\ used' = [p \in Guests |-> IF p \in here THEN Unused ELSE used[p]]
    /\ clock' = [p \in Guests |-> IF p \in here THEN GroupOf[mapID[p]] ELSE clock[p]]
    /\ remaining' = [p \in Guests |-> IF p \notin here THEN remaining[p]
                                      ELSE IF GroupOf[mapID[p]] = None THEN 0 ELSE MaxTime]

\* resetAllOnlinePlayers: the UPDATE of the database may fail.
NewDay ==
    /\ day < MaxDay /\ day' = day + 1
    /\ ResetClocks
    /\ \/ dbUsed' = [p \in Guests |-> Unused]
       \/ UNCHANGED dbUsed
    /\ UNCHANGED <<mapID, fallen, here>>

\* SaveMapTimes: skipped when nothing is used, and it may fail.
Saved(p) ==
    \/ used[p] # Unused /\ dbUsed' = [dbUsed EXCEPT ![p] = used[p]]
    \/ UNCHANGED dbUsed

AutoSave(p) ==
    /\ p \in here /\ Saved(p)
    /\ UNCHANGED <<clockVars, mapID, fallen, here, day>>

\* handleDisconnect and HandleChangeChar
LeaveTimed(p) ==
    /\ p \in here /\ Saved(p)
    /\ here' = here \ {p}
    /\ UNCHANGED <<clockVars, mapID, fallen, day>>

\* HandleEnterWorld: the dead wake up at home; what cannot be loaded counts as unused.
EnterTimed(p) ==
    /\ p \notin here
    /\ here' = here \cup {p} /\ fallen' = fallen \ {p}
    /\ \E u \in {dbUsed[p], Unused} :
          LET m == IF p \in fallen THEN Outside ELSE mapID[p] IN
          /\ used' = [used EXCEPT ![p] = u]
          /\ mapID' = [mapID EXCEPT ![p] = m]
          /\ StartClock(p, m, u)
    /\ UNCHANGED <<dbUsed, day>>

TimedStep ==
    \/ \E p \in Guests :
          \/ \E m \in Map : Teleport(p, m) \/ MoveByDialog(p, m)
          \/ Die(p) \/ RestartAtHome(p) \/ Resurrect(p)
          \/ AutoSave(p) \/ LeaveTimed(p) \/ EnterTimed(p)
    \/ NewDay

TimedNext == TimedStep \/ \E p \in Guests : Tick(p)
TimedSpec == TimedInit /\ [][TimedNext]_timedVars

-----------------------------------------------------------------------------
TimedTypeOK ==
    /\ used \in [Guests -> [Group -> 0..MaxUsed]]
    /\ clock \in [Guests -> Group \cup {None}]
    /\ remaining \in [Guests -> -1..MaxTime]
    /\ mapID \in [Guests -> Map] /\ fallen \subseteq Guests /\ here \subseteq Guests
    /\ dbUsed \in [Guests -> [Group -> 0..MaxUsed]] /\ day \in 1..MaxDay

\* The countdown a player is shown is what the time used leaves of the limit, across
\* deaths, days and sessions (OnEnterTimedMap, TickMapTimer, resetAllOnlinePlayers).
CountdownAgrees ==
    \A p \in here : clock[p] # None => remaining[p] = Left(used[p][clock[p]])

\* Time passes for everybody alive on a map with a limit: not after a resurrection
\* there, nor for who came by a dialog.
StaysAreCounted ==
    \A p \in here \ fallen : GroupOf[mapID[p]] # None => clock[p] = GroupOf[mapID[p]]

\* No more time than the limit in a day: each entry without time left gives one tick.
LimitIsKept == \A p \in Guests, g \in Group : used[p][g] <= MaxTime

\* A clock that runs stops: its time is up, or its player leaves or dies.
Timed(p) == p \in here \ fallen /\ clock[p] # None
=============================================================================
