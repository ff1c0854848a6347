---------------------------- MODULE HauntedHouse -----------------------------
(***************************************************************************)
(* The haunted house, a race on a map of its own: HauntedHouseSystem       *)
(* (internal/system/hauntedhouse_sys.go), reached from the dialog of its   *)
(* keeper and from an attack on the flame at its end                       *)
(* (internal/handler/hauntedhouse.go, internal/system/combat.go).          *)
(*                                                                         *)
(* The doors follow the race and the looks of its runners are left out.    *)
(***************************************************************************)
EXTENDS Naturals, FiniteSets

CONSTANTS
    Runners,
    MaxMembers,     \* 10
    Few, Some,      \* up to 4 members one wins, up to 7 two, else three
    ReadyTicks, PlayingTicks

ASSUME HouseAssumption ==
    /\ MaxMembers \in Nat \ {0} /\ Few \in Nat /\ Some \in Nat
    /\ ReadyTicks \in Nat \ {0} /\ PlayingTicks \in Nat \ {0}

VARIABLES
    status,     \* "none", "ready" or "playing"
    members,
    winners,    \* places to win
    goals,      \* places won
    timer,
    present,    \* players in the world
    inHouse,    \* players on the map of the house, or who will enter the world there
    places,     \* history: winners of the last race begun
    prizes,     \* history: prizes of that race
    prizeOf     \* history: who got one

raceVars == <<status, members, winners, goals, timer>>
prizeVars == <<places, prizes, prizeOf>>
houseVars == <<raceVars, present, inHouse, prizeVars>>

HouseInit ==
    /\ status = "none" /\ members = {} /\ winners = 0 /\ goals = 0 /\ timer = 0
    /\ present = Runners /\ inHouse = {}
    /\ places = 0 /\ prizes = 0 /\ prizeOf = {}

-----------------------------------------------------------------------------
\* AddMember: the first opens the house.
AddMember(p) ==
    /\ p \in present \ (inHouse \cup members)
    /\ status # "playing" /\ Cardinality(members) < MaxMembers
    /\ members' = members \cup {p}
    /\ inHouse' = inHouse \cup {p}
    /\ IF members = {} /\ status = "none"
       THEN status' = "ready" /\ timer' = 0
       ELSE UNCHANGED <<status, timer>>
    /\ UNCHANGED <<winners, goals, present, prizeVars>>

\* GiveReward: nothing when the inventory is full.
Reward(p) ==
    \/ prizes' = prizes + 1 /\ prizeOf' = prizeOf \cup {p}
    \/ UNCHANGED <<prizes, prizeOf>>

\* endGame: the members on the map are teleported out.
EndGame(gone) ==
    /\ status' = "none" /\ winners' = 0 /\ goals' = 0
    /\ members' = {}
    /\ inHouse' = inHouse \ (gone \cap present)

\* A winner who is not the last one leaves.
Win(p) ==
    /\ goals' = goals + 1
    /\ members' = members \ {p} /\ inHouse' = inHouse \ {p}
    /\ UNCHANGED <<status, winners>>

\* OnGoalReached
OnGoalReached(p) ==
    /\ p \in present \cap inHouse
    /\ status = "playing" /\ p \in members
    /\ goals + 1 <= winners
    /\ Reward(p)
    /\ IF goals + 1 = winners THEN EndGame(members) ELSE Win(p)
    /\ UNCHANGED <<timer, present, places>>

\* A scroll takes p out of the house.
LeaveHouse(p) ==
    /\ p \in present \cap inHouse
    /\ inHouse' = inHouse \ {p}
    /\ UNCHANGED <<raceVars, present, prizeVars>>

\* handleDisconnect, with RemoveOnDisconnect.
DropRunner(p) ==
    /\ p \in present
    /\ present' = present \ {p} /\ members' = members \ {p}
    /\ UNCHANGED <<status, winners, goals, timer, inHouse, prizeVars>>

\* HandleChangeChar does not tell the house.
ChangeRunner(p) ==
    /\ p \in present
    /\ present' = present \ {p}
    /\ UNCHANGED <<raceVars, inHouse, prizeVars>>

\* HandleEnterWorld, on the map the player left from.
EnterRunner(p) ==
    /\ p \notin present
    /\ present' = present \cup {p}
    /\ UNCHANGED <<raceVars, inHouse, prizeVars>>

Quota(n) == IF n <= Few THEN 1 ELSE IF n <= Some THEN 2 ELSE 3

\* startGame counts all members, those who left the house included.
StartGame ==
    /\ status' = "playing" /\ timer' = 0
    /\ winners' = Quota(Cardinality(members)) /\ goals' = 0
    /\ places' = winners' /\ prizes' = 0 /\ prizeOf' = {}
    /\ UNCHANGED <<members, inHouse>>

\* removeRetiredMembers
Retired == members \ (present \cap inHouse)

\* Update
HouseTick ==
    \/ /\ status = "ready" /\ timer + 1 < ReadyTicks
       /\ timer' = timer + 1
       /\ UNCHANGED <<status, members, winners, goals, present, inHouse, prizeVars>>
    \/ /\ status = "ready" /\ timer + 1 >= ReadyTicks
       /\ StartGame /\ UNCHANGED present
    \/ /\ status = "playing" /\ timer + 1 < PlayingTicks
       /\ timer' = timer + 1 /\ members' = members \ Retired
       /\ UNCHANGED <<status, winners, goals, present, inHouse, prizeVars>>
    \/ /\ status = "playing" /\ timer + 1 >= PlayingTicks
       /\ timer' = timer + 1
       /\ EndGame(members \ Retired) /\ UNCHANGED <<present, prizeVars>>

HouseStep ==
    \E p \in Runners :
        \/ AddMember(p) \/ OnGoalReached(p) \/ LeaveHouse(p)
        \/ DropRunner(p) \/ ChangeRunner(p) \/ EnterRunner(p)

HouseNext == HouseStep \/ HouseTick
HouseSpec == HouseInit /\ [][HouseNext]_houseVars

-----------------------------------------------------------------------------
HouseTypeOK ==
    /\ status \in {"none", "ready", "playing"}
    /\ members \subseteq Runners /\ Cardinality(members) <= MaxMembers
    /\ winners \in 0..3 /\ goals \in 0..3 /\ (status = "playing" => goals < winners)
    /\ timer \in 0..ReadyTicks + PlayingTicks
    /\ present \subseteq Runners /\ inHouse \subseteq Runners

\* A race gives no more prizes than it has places, and nobody gets two, whoever leaves,
\* comes back or reaches the end when the time runs out (OnGoalReached, endGame).
PrizesAreLimited == prizes <= places /\ prizes = Cardinality(prizeOf)

\* Those in the house outside a race are waiting for one: not who entered the world there.
NobodyIsStranded == status = "none" => present \cap inHouse = {}

\* A house that opens closes again.
IsOpen == status # "none"
=============================================================================
