------------------------------- MODULE MCLogin -------------------------------
(* Model checking of who a session is: to the accounts and the world (Login), *)
(* and to monsters, which know it by its number as long as they hate it       *)
(* (Monsters).  A behaviour is about one of the two.                          *)
EXTENDS Login, Monsters, TLC

CONSTANTS
    s1, s2, s3, ann, bob, knight, elf,
    h1, h2

VARIABLE topic

MCSession == {s1, s2, s3}
MCHunters == {h1, h2}
Symmetry == Permutations(MCSession) \cup Permutations(MCHunters)
MCAccount == {ann, bob}
MCCharacter == {knight, elf}
MCAccountOf == (knight :> ann) @@ (elf :> bob)

MCInit ==
    /\ Init /\ MonstersInit
    /\ topic \in {"login", "monsters"}
    \* Only the topic itself begins in more than one way.
    /\ topic # "monsters" => ~group[1].remove

MCNext ==
    /\ topic' = topic
    /\ \/ topic = "login" /\ Next /\ UNCHANGED monsterVars
       \/ topic = "monsters" /\ MonstersNext /\ UNCHANGED vars

MCSpec == MCInit /\ [][MCNext]_<<vars, monsterVars, topic>>

\* Two hatreds at a time.
Bounded == Cardinality(UNION {{m} \X DOMAIN mob[m].hate : m \in Ids}) <= 2
=============================================================================
