------------------------------ MODULE Holdings ------------------------------
(***************************************************************************)
(* What the economy of the game world promises, whatever the protocols in  *)
(* between: every object has at most one holder, and a step either moves   *)
(* goods between two holders without making or losing any, or takes goods  *)
(* away, or hands the starting gold to somebody who has nothing.  A player *)
(* and the ground (Nobody) are holders; goods in a trade window are still  *)
(* held by the player who put them there.                                  *)
(***************************************************************************)
EXTENDS Naturals

CONSTANTS Player, Nobody, Item, Stack, Adena, StartGold

VARIABLES holds, wealth

Holder == Player \cup {Nobody}

TypeOK ==
    /\ holds \in [Holder -> SUBSET Item]
    /\ wealth \in [Holder -> [Stack -> Nat]]

\* No object has two holders.
OneHolder == \A a, b \in Holder : a # b => holds[a] \cap holds[b] = {}

Init ==
    /\ TypeOK
    /\ OneHolder
    /\ holds[Nobody] = {} /\ wealth[Nobody] = [s \in Stack |-> 0]

\* Goods change hands between a and b; together they have what they had.
Exchange(a, b) ==
    /\ holds'[a] \cup holds'[b] = holds[a] \cup holds[b]
    /\ holds'[a] \cap holds'[b] = {}
    /\ \A s \in Stack :
          wealth'[a][s] + wealth'[b][s] = wealth[a][s] + wealth[b][s]
    /\ \A c \in Holder \ {a, b} : holds'[c] = holds[c] /\ wealth'[c] = wealth[c]

\* Goods are used up, destroyed or lost.
Lose ==
    \A a \in Holder : /\ holds'[a] \subseteq holds[a]
                      /\ \A s \in Stack : wealth'[a][s] <= wealth[a][s]

\* A player who owns nothing at all comes into the world.
Grant(a) ==
    /\ holds[a] = {} /\ \A s \in Stack : wealth[a][s] = 0
    /\ holds' = holds
    /\ wealth' = [wealth EXCEPT ![a][Adena] = StartGold]

Next ==
    /\ TypeOK'
    /\ \/ \E a, b \in Holder : a # b /\ Exchange(a, b)
       \/ Lose
       \/ \E a \in Player : Grant(a)

Spec == Init /\ [][Next]_<<holds, wealth>>
=============================================================================
