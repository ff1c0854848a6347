------------------------------- MODULE MCGear -------------------------------
(* Model checking of goods in the hands of players: what they trade while    *)
(* they wield it (Trade), and what a character wears, is and has running     *)
(* (Sheet).  A behaviour is about one of the two.                            *)
EXTENDS MCTrade, Sheet

CONSTANTS Helm, Mail, Axe, Targe, Knight, Wolf

VARIABLE topic

MCSlot == Helm :> "helm" @@ Mail :> "armor" @@ Axe :> "weapon" @@ Targe :> "shield"
MCBonus == Helm :> 1 @@ Mail :> 2 @@ Axe :> 0 @@ Targe :> 3
MCFits == Knight :> {Helm, Mail, Targe} @@ Wolf :> {Helm}

MCInit ==
    /\ Init /\ SheetInit
    /\ topic \in {"trade", "sheet"}
    \* Only the topic itself begins in more than one way.
    /\ topic # "trade" => online = {} /\ inv = [p \in Player |-> {}] /\ bag = [p \in Player |-> NoStacks]

MCNext ==
    /\ topic' = topic
    /\ \/ topic = "trade" /\ Next /\ UNCHANGED sheetVars
       \/ topic = "sheet" /\ SheetNext /\ UNCHANGED vars

MCSpec == MCInit /\ [][MCNext]_<<vars, sheetVars, topic>>

\* Two buffs run at a time, or one beside one that was stored.
Bounded == c # Nil => Cardinality(DOMAIN c.buffs) + Cardinality(DOMAIN rows.buffs) <= 2
=============================================================================
