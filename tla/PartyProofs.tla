---------------------------- MODULE PartyProofs ----------------------------
(***************************************************************************)
(* Proofs about Party: the three records of who is in which party agree,   *)
(* and no party is too large or too small, for any number of players,      *)
(* invitations and dialogs, and any size a party may have.                 *)
(***************************************************************************)
EXTENDS Party, Sums

USE PartyAssumption

-----------------------------------------------------------------------------
(* Bags of players *)

BagOver(b) == IsABag(b) /\ DOMAIN b \subseteq Player
OneMore(b, p) == b (+) SetToBag({p})
OneLess(b, p) == b (-) SetToBag({p})

LEMMA PlayersAreFinite ==
    \A S \in SUBSET Player : IsFiniteSet(S) /\ S \in FiniteSubsetsOf(Player)
BY FS_Subset DEF FiniteSubsetsOf

LEMMA BagValues ==
    ASSUME NEW b, IsABag(b)
    PROVE  /\ \A p \in DOMAIN b : b[p] \in Nat /\ b[p] > 0
           /\ b = [p \in DOMAIN b |-> b[p]]
BY DEF IsABag

LEMMA CountType ==
    ASSUME NEW b, BagOver(b)
    PROVE  Count(b) \in Nat
<1>1. \A p \in DOMAIN b : b[p] \in Nat
    BY BagValues DEF BagOver
<1>2. DOMAIN b \in FiniteSubsetsOf(DOMAIN b)
    BY PlayersAreFinite DEF BagOver, FiniteSubsetsOf
<1>. QED
    BY <1>1, <1>2, SumNat DEF Count, SumFunction

\* A set of players counts as many as it has.
LEMMA CountSet ==
    ASSUME NEW S \in SUBSET Player
    PROVE  Count(SetToBag(S)) = Cardinality(S) /\ BagOver(SetToBag(S))
<1> DEFINE b == [e \in S |-> 1]
<1>1. DOMAIN b = S /\ \A e \in S : b[e] = 1
    OBVIOUS
<1>2. SumFunctionOnSet(b, S) = Cardinality(S)
    <2> HIDE DEF b
    <2>. QED
        BY <1>1, PlayersAreFinite, SumOfOnes
<1>3. SetToBag(S) = b
    BY DEF SetToBag
<1>. QED
    BY <1>1, <1>2, <1>3 DEF Count, SumFunction, BagOver, IsABag

\* What one more, or one less, does to a bag.
LEMMA OneMoreBag ==
    ASSUME NEW b, BagOver(b), NEW p \in Player
    PROVE  /\ BagOver(OneMore(b, p))
           /\ DOMAIN OneMore(b, p) = DOMAIN b \cup {p}
           /\ \A q \in DOMAIN b : q # p => OneMore(b, p)[q] = b[q]
           /\ OneMore(b, p)[p] = IF p \in DOMAIN b THEN b[p] + 1 ELSE 1
<1> DEFINE c == [e \in DOMAIN b \cup {p} |->
                    (IF e \in DOMAIN b THEN b[e] ELSE 0) + (IF e = p THEN 1 ELSE 0)]
<1>1. OneMore(b, p) = c
    BY DEF OneMore, (+), SetToBag
<1>2. \A e \in DOMAIN b : b[e] \in Nat /\ b[e] > 0
    BY BagValues DEF BagOver
<1>3. DOMAIN b \subseteq Player
    BY DEF BagOver
<1>4. \A e \in DOMAIN b \cup {p} : c[e] \in Nat /\ c[e] > 0
    BY <1>2
<1>5. IsABag(c)
    BY <1>4 DEF IsABag
<1>. QED
    BY <1>1, <1>2, <1>3, <1>5 DEF BagOver

LEMMA OneLessBag ==
    ASSUME NEW b, BagOver(b), NEW p \in Player
    PROVE  /\ BagOver(OneLess(b, p))
           /\ DOMAIN OneLess(b, p) = IF p \in DOMAIN b /\ b[p] = 1 THEN DOMAIN b \ {p} ELSE DOMAIN b
           /\ \A q \in DOMAIN b : q # p => OneLess(b, p)[q] = b[q]
           /\ p \in DOMAIN b /\ b[p] # 1 => OneLess(b, p)[p] = b[p] - 1
<1> DEFINE d == [e \in DOMAIN b |-> IF e \in {p} THEN b[e] - 1 ELSE b[e]]
           c == [e \in {x \in DOMAIN d : d[x] > 0} |-> d[e]]
<1>1. OneLess(b, p) = c
    BY DEF OneLess, (-), SetToBag
<1>2. \A e \in DOMAIN b : b[e] \in Nat /\ b[e] > 0
    BY BagValues DEF BagOver
<1>3. DOMAIN b \subseteq Player
    BY DEF BagOver
<1>4. \A e \in DOMAIN c : c[e] \in Nat /\ c[e] > 0
    BY <1>2
<1>5. IsABag(c)
    BY <1>4 DEF IsABag
<1>6. DOMAIN c = IF p \in DOMAIN b /\ b[p] = 1 THEN DOMAIN b \ {p} ELSE DOMAIN b
    BY <1>2
<1>. QED
    BY <1>1, <1>2, <1>3, <1>5, <1>6 DEF BagOver

LEMMA CountOneMore ==
    ASSUME NEW b, BagOver(b), NEW p \in Player
    PROVE  Count(OneMore(b, p)) = Count(b) + 1
<1> DEFINE c == OneMore(b, p)
           E == DOMAIN b \ {p}
<1>1. /\ BagOver(c) /\ DOMAIN c = DOMAIN b \cup {p}
      /\ \A q \in DOMAIN b : q # p => c[q] = b[q]
      /\ c[p] = IF p \in DOMAIN b THEN b[p] + 1 ELSE 1
    BY OneMoreBag
<1> HIDE DEF c
<1>2. /\ \A q \in DOMAIN b : b[q] \in Nat
      /\ \A q \in DOMAIN c : c[q] \in Nat
    BY <1>1, BagValues DEF BagOver
<1>3. E \in FiniteSubsetsOf(E) /\ E \in FiniteSubsetsOf(DOMAIN b) /\ E \in FiniteSubsetsOf(DOMAIN c)
    BY <1>1, PlayersAreFinite DEF BagOver, FiniteSubsetsOf
<1>4. SumFunctionOnSet(c, E) = SumFunctionOnSet(b, E)
    <2>1. \A q \in E : c[q] = b[q]
        BY <1>1
    <2> HIDE DEF E
    <2>. QED
        BY <1>3, <2>1, SumEqual
<1>5. SumFunctionOnSet(c, E \cup {p}) = c[p] + SumFunctionOnSet(c, E)
    <2>1. p \in DOMAIN c /\ p \notin E
        BY <1>1
    <2> HIDE DEF E
    <2>. QED
        BY <1>2, <1>3, <2>1, SumAdd
<1>6. SumFunctionOnSet(b, E) \in Int
    <2> HIDE DEF E
    <2>. QED
        BY <1>2, <1>3, SumType
<1>7. E \cup {p} = DOMAIN c
    BY <1>1
<1>8. CASE p \in DOMAIN b
    <2>1. SumFunctionOnSet(b, E \cup {p}) = b[p] + SumFunctionOnSet(b, E)
        <3>1. p \notin E
            OBVIOUS
        <3> HIDE DEF E
        <3>. QED
            BY <1>2, <1>3, <1>8, <3>1, SumAdd
    <2>2. E \cup {p} = DOMAIN b
        BY <1>8
    <2>3. b[p] \in Nat
        BY <1>2, <1>8
    <2> HIDE DEF E
    <2>. QED
        BY <1>1, <1>4, <1>5, <1>6, <1>7, <1>8, <2>1, <2>2, <2>3 DEF Count, SumFunction, c
<1>9. CASE p \notin DOMAIN b
    <2>1. E = DOMAIN b
        BY <1>9
    <2> HIDE DEF E
    <2>. QED
        BY <1>1, <1>4, <1>5, <1>6, <1>7, <1>9, <2>1 DEF Count, SumFunction, c
<1>. QED
    BY <1>8, <1>9

LEMMA CountOneLess ==
    ASSUME NEW b, BagOver(b), NEW p \in Player
    PROVE  Count(OneLess(b, p)) = IF p \in DOMAIN b THEN Count(b) - 1 ELSE Count(b)
<1> DEFINE c == OneLess(b, p)
           E == DOMAIN b \ {p}
<1>1. /\ BagOver(c)
      /\ DOMAIN c = IF p \in DOMAIN b /\ b[p] = 1 THEN DOMAIN b \ {p} ELSE DOMAIN b
      /\ \A q \in DOMAIN b : q # p => c[q] = b[q]
      /\ p \in DOMAIN b /\ b[p] # 1 => c[p] = b[p] - 1
    BY OneLessBag
<1> HIDE DEF c
<1>2. /\ \A q \in DOMAIN b : b[q] \in Nat
      /\ \A q \in DOMAIN c : c[q] \in Nat
    BY <1>1, BagValues DEF BagOver
<1>3. E \in FiniteSubsetsOf(E) /\ E \in FiniteSubsetsOf(DOMAIN b) /\ E \in FiniteSubsetsOf(DOMAIN c)
    BY <1>1, PlayersAreFinite DEF BagOver, FiniteSubsetsOf
<1>4. SumFunctionOnSet(c, E) = SumFunctionOnSet(b, E)
    <2>1. \A q \in E : c[q] = b[q]
        BY <1>1
    <2> HIDE DEF E
    <2>. QED
        BY <1>3, <2>1, SumEqual
<1>5. SumFunctionOnSet(b, E) \in Int
    <2> HIDE DEF E
    <2>. QED
        BY <1>2, <1>3, SumType
<1>6. ASSUME p \in DOMAIN b
      PROVE  Count(b) = b[p] + SumFunctionOnSet(b, E)
    <2>1. p \notin E /\ E \cup {p} = DOMAIN b
        BY <1>6
    <2> HIDE DEF E
    <2>2. SumFunctionOnSet(b, E \cup {p}) = b[p] + SumFunctionOnSet(b, E)
        BY <1>2, <1>3, <1>6, <2>1, SumAdd
    <2>. QED
        BY <2>1, <2>2 DEF Count, SumFunction
<1>7. CASE p \in DOMAIN b /\ b[p] = 1
    <2>1. DOMAIN c = E
        BY <1>1, <1>7
    <2> HIDE DEF E
    <2>. QED
        BY <1>4, <1>5, <1>6, <1>7, <2>1 DEF Count, SumFunction, c
<1>8. CASE p \in DOMAIN b /\ b[p] # 1
    <2>1. p \in DOMAIN c /\ p \notin E /\ E \cup {p} = DOMAIN c /\ c[p] = b[p] - 1
        BY <1>1, <1>8
    <2> HIDE DEF E
    <2>2. SumFunctionOnSet(c, E \cup {p}) = c[p] + SumFunctionOnSet(c, E)
        BY <1>2, <1>3, <2>1, SumAdd
    <2>3. b[p] \in Nat
        BY <1>2, <1>8
    <2>. QED
        BY <1>4, <1>5, <1>6, <1>8, <2>1, <2>2, <2>3 DEF Count, SumFunction, c
<1>9. CASE p \notin DOMAIN b
    <2>1. DOMAIN c = E /\ DOMAIN b = E
        BY <1>1, <1>9
    <2> HIDE DEF E
    <2>. QED
        BY <1>4, <1>9, <2>1 DEF Count, SumFunction, c
<1>. QED
    BY <1>7, <1>8, <1>9

\* In a set, one more and one less are what they are of sets.
LEMMA SetMoreOrLess ==
    ASSUME NEW S, NEW p
    PROVE  /\ p \notin S => OneMore(SetToBag(S), p) = SetToBag(S \cup {p})
           /\ OneLess(SetToBag(S), p) = SetToBag(S \ {p})
BY DEF OneMore, OneLess, (+), (-), SetToBag

-----------------------------------------------------------------------------
(* The tables of one kind of party: t, from leaders to bags of members, and  *)
(* m, from players to leaders.                                               *)

Mapping == [Player -> Player \cup {NoPlayer}]
\* Who is mapped to the party of l.
Of(m, l) == {p \in Player : m[p] = l}

\* What holds of the parties of a kind whatever happens in it.
Fits(t) ==
    /\ t = [l \in DOMAIN t |-> t[l]] /\ DOMAIN t \subseteq Player
    /\ \A l \in DOMAIN t : BagOver(t[l]) /\ Count(t[l]) <= MaxPartySize

\* What holds as long as nobody joins from within a party.
Tidy(t, m) ==
    /\ \A l \in DOMAIN t : t[l] = SetToBag(Of(m, l)) /\ m[l] = l
    /\ \A p \in Player : m[p] # NoPlayer => m[p] \in DOMAIN t
Enough(k, t) ==
    \A l \in DOMAIN t : Count(t[l]) >= 2 \/ (k = "chat" /\ BagToSet(t[l]) = {l})

\* In a tidy table the members of a party are those who are mapped to it.
LEMMA TidyMembers ==
    ASSUME NEW t, NEW m \in Mapping, Fits(t), Tidy(t, m), NEW l \in DOMAIN t
    PROVE  /\ l \in Player /\ Of(m, l) \in SUBSET Player /\ l \in Of(m, l)
           /\ t[l] = SetToBag(Of(m, l))
           /\ Count(t[l]) = Cardinality(Of(m, l))
           /\ BagToSet(t[l]) = Of(m, l)
           /\ \A q \in Player : BagIn(q, t[l]) <=> m[q] = l
<1>1. /\ l \in Player /\ Of(m, l) \in SUBSET Player /\ l \in Of(m, l)
      /\ t[l] = SetToBag(Of(m, l))
    BY DEF Tidy, Fits, Of
<1>2. BagToSet(SetToBag(Of(m, l))) = Of(m, l)
    BY DEF BagToSet, SetToBag
<1>3. Count(SetToBag(Of(m, l))) = Cardinality(Of(m, l))
    BY <1>1, CountSet
<1>4. BagToSet(t[l]) = Of(m, l) /\ Count(t[l]) = Cardinality(Of(m, l))
    BY ONLY <1>1, <1>2, <1>3
<1>. QED
    BY <1>1, <1>4 DEF BagIn, Of

\* The party of l is dissolved and its members are free.
LEMMA DissolveTable ==
    ASSUME NEW t, NEW m \in Mapping, Fits(t), NEW l \in DOMAIN t, NEW n \in Mapping
    PROVE  LET u == Restrict(t, DOMAIN t \ {l}) IN
           /\ Fits(u)
           /\ Tidy(t, m) /\ (\A q \in Player : n[q] = IF m[q] = l THEN NoPlayer ELSE m[q])
                 => Tidy(u, n)
           /\ \A k : Enough(k, t) => Enough(k, u)
<1> DEFINE u == Restrict(t, DOMAIN t \ {l})
<1>1. DOMAIN u = DOMAIN t \ {l} /\ \A h \in DOMAIN u : u[h] = t[h]
    BY DEF Restrict
<1>2. u = [h \in DOMAIN u |-> u[h]]
    BY DEF Restrict
<1> HIDE DEF u
<1>3. Fits(u)
    BY <1>1, <1>2 DEF Fits
<1>4. \A k : Enough(k, t) => Enough(k, u)
    BY <1>1 DEF Enough
<1>5. ASSUME Tidy(t, m), \A q \in Player : n[q] = IF m[q] = l THEN NoPlayer ELSE m[q]
      PROVE  Tidy(u, n)
    <2>1. ASSUME NEW h \in DOMAIN u
          PROVE  u[h] = SetToBag(Of(n, h)) /\ n[h] = h
        <3>1. h \in Player /\ h # l /\ h # NoPlayer /\ t[h] = SetToBag(Of(m, h)) /\ m[h] = h
            BY <1>1, <1>5 DEF Tidy, Fits
        <3>2. Of(n, h) = Of(m, h) /\ n[h] = h
            BY <1>5, <3>1 DEF Of
        <3>. QED
            BY <1>1, <3>1, <3>2
    <2>2. ASSUME NEW q \in Player, n[q] # NoPlayer
          PROVE  n[q] \in DOMAIN u
        BY <1>1, <1>5, <2>2 DEF Tidy
    <2>. QED
        BY <2>1, <2>2 DEF Tidy
<1>. QED
    BY <1>3, <1>4, <1>5 DEF u

\* p leaves the party of l.
LEMMA RemoveTable ==
    ASSUME NEW t, NEW m \in Mapping, Fits(t), NEW l \in DOMAIN t, NEW p \in Player
    PROVE  LET u == [t EXCEPT ![l] = OneLess(@, p)]
               n == [m EXCEPT ![p] = NoPlayer]
           IN  /\ Fits(u) /\ n \in Mapping
               /\ Tidy(t, m) /\ m[p] = l /\ p # l => Tidy(u, n)
               /\ \A k : /\ Tidy(t, m) /\ m[p] = l /\ p # l /\ Enough(k, t)
                         /\ Count(t[l]) # 2 \/ k = "chat"
                         => Enough(k, u)
<1> DEFINE u == [t EXCEPT ![l] = OneLess(@, p)]
           n == [m EXCEPT ![p] = NoPlayer]
<1>1. /\ DOMAIN u = DOMAIN t /\ u[l] = OneLess(t[l], p)
      /\ \A h \in DOMAIN t : h # l => u[h] = t[h]
      /\ u = [h \in DOMAIN u |-> u[h]]
    BY DEF Fits
<1>2. n \in Mapping /\ n[p] = NoPlayer /\ \A q \in Player : q # p => n[q] = m[q]
    BY DEF Mapping
<1> HIDE DEF u, n
<1>3. BagOver(t[l]) /\ Count(t[l]) \in Nat /\ Count(t[l]) <= MaxPartySize
    BY CountType DEF Fits
<1>4. BagOver(u[l]) /\ Count(u[l]) <= MaxPartySize
    <2>1. BagOver(u[l])
        <3>1. BagOver(OneLess(t[l], p))
            BY <1>3, OneLessBag
        <3>. QED
            BY <1>1, <3>1
    <2>2. Count(u[l]) = IF p \in DOMAIN t[l] THEN Count(t[l]) - 1 ELSE Count(t[l])
        <3>1. Count(OneLess(t[l], p)) = IF p \in DOMAIN t[l] THEN Count(t[l]) - 1 ELSE Count(t[l])
            BY <1>3, CountOneLess
        <3>. QED
            BY <1>1, <3>1
    <2>. QED
        BY <1>3, <2>1, <2>2
<1>5. Fits(u)
    BY <1>1, <1>4 DEF Fits
<1>6. ASSUME Tidy(t, m), m[p] = l, p # l
      PROVE  Tidy(u, n)
    <2>1. Of(n, l) = Of(m, l) \ {p}
        BY <1>2 DEF Of, Fits
    <2>2. \A h \in DOMAIN t : h # l => Of(n, h) = Of(m, h)
        BY <1>2, <1>6 DEF Of, Fits
    <2>3. u[l] = SetToBag(Of(n, l))
        <3>1. t[l] = SetToBag(Of(m, l))
            BY <1>6 DEF Tidy
        <3>2. OneLess(SetToBag(Of(m, l)), p) = SetToBag(Of(m, l) \ {p})
            BY SetMoreOrLess
        <3>. QED
            BY ONLY <1>1, <2>1, <3>1, <3>2
    <2>4. \A h \in DOMAIN u : u[h] = SetToBag(Of(n, h)) /\ n[h] = h
        <3>1. \A h \in DOMAIN t : h # p
            BY <1>6 DEF Tidy
        <3>. QED
            BY <1>1, <1>2, <1>6, <2>2, <2>3, <3>1 DEF Tidy, Fits
    <2>5. \A q \in Player : n[q] # NoPlayer => n[q] \in DOMAIN u
        BY <1>1, <1>2, <1>6 DEF Tidy
    <2>. QED
        BY <2>4, <2>5 DEF Tidy
<1>7. ASSUME NEW k, Tidy(t, m), m[p] = l, p # l, Enough(k, t), Count(t[l]) # 2 \/ k = "chat"
      PROVE  Enough(k, u)
    <2>1. /\ DOMAIN t[l] = Of(m, l) /\ l \in Of(m, l) /\ p \in Of(m, l)
          /\ Of(m, l) \in SUBSET Player /\ t[l] = SetToBag(Of(m, l))
        <3>1. /\ BagToSet(t[l]) = Of(m, l) /\ l \in Of(m, l)
              /\ Of(m, l) \in SUBSET Player /\ t[l] = SetToBag(Of(m, l))
            BY <1>7, TidyMembers
        <3>2. p \in Of(m, l)
            BY <1>7 DEF Of
        <3>. QED
            BY <3>1, <3>2 DEF BagToSet
    <2>2. Count(u[l]) = Count(t[l]) - 1
        <3>1. Count(OneLess(t[l], p)) = Count(t[l]) - 1
            BY <1>3, <2>1, CountOneLess
        <3>. QED
            BY <1>1, <3>1
    <2>3. Count(u[l]) >= 2 \/ (k = "chat" /\ BagToSet(u[l]) = {l})
        <3>1. CASE Count(t[l]) # 2 /\ Count(t[l]) >= 2
            BY <1>3, <2>2, <3>1
        <3>2. CASE Count(t[l]) = 2
            <4>1. Cardinality(Of(m, l)) = 2 /\ IsFiniteSet(Of(m, l))
                BY <1>7, <2>1, <3>2, TidyMembers, PlayersAreFinite
            <4>2. Cardinality(Of(m, l) \ {p}) = 1 /\ IsFiniteSet(Of(m, l) \ {p})
                BY <2>1, <4>1, FS_RemoveElement
            <4>3. PICK x : Of(m, l) \ {p} = {x}
                BY <4>2, FS_Singleton
            <4>4. Of(m, l) \ {p} = {l}
                BY <1>7, <2>1, <4>3
            <4>5. u[l] = SetToBag({l})
                BY <1>1, <2>1, <4>4, SetMoreOrLess
            <4>. QED
                BY <1>7, <3>2, <4>5 DEF BagToSet, SetToBag
        <3>3. CASE ~(Count(t[l]) >= 2)
            <4>1. BagToSet(t[l]) = {l}
                BY <1>7, <3>3 DEF Enough
            <4>. QED
                BY <1>7, <2>1, <4>1 DEF BagToSet
        <3>. QED
            BY <1>3, <3>1, <3>2, <3>3
    <2>. QED
        BY <1>1, <1>7, <2>3 DEF Enough
<1>. QED
    BY <1>2, <1>5, <1>6, <1>7 DEF u, n

\* p joins the party of l.
LEMMA AddTable ==
    ASSUME NEW t, NEW m \in Mapping, Fits(t), NEW l \in DOMAIN t, NEW p \in Player,
           Count(t[l]) < MaxPartySize
    PROVE  LET u == [t EXCEPT ![l] = OneMore(@, p)]
               n == [m EXCEPT ![p] = l]
           IN  /\ Fits(u) /\ n \in Mapping
               /\ Tidy(t, m) /\ m[p] = NoPlayer => Tidy(u, n)
               /\ \A k : Enough(k, t) /\ Tidy(t, m) => Enough(k, u)
<1> DEFINE u == [t EXCEPT ![l] = OneMore(@, p)]
           n == [m EXCEPT ![p] = l]
<1>1. /\ DOMAIN u = DOMAIN t /\ u[l] = OneMore(t[l], p)
      /\ \A h \in DOMAIN t : h # l => u[h] = t[h]
      /\ u = [h \in DOMAIN u |-> u[h]]
    BY DEF Fits
<1>2. n \in Mapping /\ n[p] = l /\ \A q \in Player : q # p => n[q] = m[q]
    BY DEF Mapping, Fits
<1> HIDE DEF u, n
<1>3. BagOver(t[l]) /\ Count(t[l]) \in Nat
    BY CountType DEF Fits
<1>4. BagOver(u[l]) /\ Count(u[l]) = Count(t[l]) + 1
    <2>1. BagOver(OneMore(t[l], p))
        BY <1>3, OneMoreBag
    <2>2. Count(OneMore(t[l], p)) = Count(t[l]) + 1
        BY <1>3, CountOneMore
    <2>. QED
        BY <1>1, <2>1, <2>2
<1>5. Fits(u)
    BY <1>1, <1>3, <1>4 DEF Fits
<1>6. ASSUME Tidy(t, m), m[p] = NoPlayer
      PROVE  Tidy(u, n)
    <2>1. Of(n, l) = Of(m, l) \cup {p} /\ p \notin Of(m, l)
        BY <1>2, <1>6 DEF Of, Fits
    <2>2. \A h \in DOMAIN t : h # l => Of(n, h) = Of(m, h)
        BY <1>2, <1>6 DEF Of, Fits
    <2>3. u[l] = SetToBag(Of(n, l))
        BY <1>1, <1>6, <2>1, SetMoreOrLess DEF Tidy
    <2>4. \A h \in DOMAIN u : u[h] = SetToBag(Of(n, h)) /\ n[h] = h
        BY <1>1, <1>2, <1>6, <2>2, <2>3 DEF Tidy, Fits
    <2>5. \A q \in Player : n[q] # NoPlayer => n[q] \in DOMAIN u
        BY <1>1, <1>2, <1>6 DEF Tidy
    <2>. QED
        BY <2>4, <2>5 DEF Tidy
<1>7. ASSUME NEW k, Enough(k, t), Tidy(t, m)
      PROVE  Enough(k, u)
    <2>1. Count(u[l]) >= 2
        <3>1. Count(t[l]) = Cardinality(Of(m, l)) /\ l \in Of(m, l) /\ IsFiniteSet(Of(m, l))
            BY <1>7, TidyMembers, PlayersAreFinite
        <3>2. Count(t[l]) # 0
            BY <3>1, FS_EmptySet
        <3>. QED
            BY <1>3, <1>4, <3>2
    <2>. QED
        BY <1>1, <1>7, <2>1 DEF Enough
<1>. QED
    BY <1>2, <1>5, <1>6, <1>7 DEF u, n

\* l founds a party with p.
Founded(t, l, p) ==
    [h \in DOMAIN t \cup {l} |-> IF h = l THEN OneMore(SetToBag({l}), p) ELSE t[h]]

LEMMA CreateTable ==
    ASSUME NEW t, NEW m \in Mapping, Fits(t), NEW l \in Player, NEW p \in Player
    PROVE  LET u == Founded(t, l, p)
               n == [m EXCEPT ![l] = l, ![p] = l]
           IN  /\ Fits(u) /\ n \in Mapping
               /\ Tidy(t, m) /\ m[p] = NoPlayer /\ m[l] = NoPlayer /\ p # l => Tidy(u, n)
               /\ \A k : Enough(k, t) => Enough(k, u)
<1> DEFINE u == Founded(t, l, p)
           n == [m EXCEPT ![l] = l, ![p] = l]
<1>1. /\ DOMAIN u = DOMAIN t \cup {l} /\ u[l] = OneMore(SetToBag({l}), p)
      /\ \A h \in DOMAIN t : h # l => u[h] = t[h]
      /\ u = [h \in DOMAIN u |-> u[h]]
    BY DEF Founded
<1>2. /\ n \in Mapping /\ n[p] = l /\ n[l] = l
      /\ \A q \in Player : q # p /\ q # l => n[q] = m[q]
    BY DEF Mapping
<1> HIDE DEF u, n
<1>3. BagOver(u[l]) /\ Count(u[l]) = 2
    <2>1. BagOver(SetToBag({l})) /\ Count(SetToBag({l})) = 1
        BY CountSet, FS_Singleton
    <2>2. BagOver(OneMore(SetToBag({l}), p))
        BY <2>1, OneMoreBag
    <2>3. Count(OneMore(SetToBag({l}), p)) = 1 + 1
        BY <2>1, CountOneMore
    <2>. QED
        BY <1>1, <2>2, <2>3
<1>4. Fits(u)
    BY <1>1, <1>3 DEF Fits
<1>5. ASSUME Tidy(t, m), m[p] = NoPlayer, m[l] = NoPlayer, p # l
      PROVE  Tidy(u, n)
    <2>1. l \notin DOMAIN t
        BY <1>5 DEF Tidy, Fits
    <2>2. Of(n, l) = {l} \cup {p}
        BY <1>2, <1>5, <2>1 DEF Of, Tidy
    <2>3. \A h \in DOMAIN t : Of(n, h) = Of(m, h)
        BY <1>2, <1>5, <2>1 DEF Of, Fits
    <2>4. u[l] = SetToBag(Of(n, l))
        <3>1. OneMore(SetToBag({l}), p) = SetToBag({l} \cup {p})
            BY <1>5, SetMoreOrLess
        <3>. QED
            BY <1>1, <2>2, <3>1
    <2>5. \A h \in DOMAIN t : h # l /\ h # p /\ n[h] = h
        BY <1>2, <1>5, <2>1 DEF Tidy, Fits
    <2>6. \A h \in DOMAIN u : u[h] = SetToBag(Of(n, h)) /\ n[h] = h
        BY <1>1, <1>2, <1>5, <2>3, <2>4, <2>5 DEF Tidy
    <2>7. \A q \in Player : n[q] # NoPlayer => n[q] \in DOMAIN u
        BY <1>1, <1>2, <1>5 DEF Tidy
    <2>. QED
        BY <2>6, <2>7 DEF Tidy
<1>6. \A k : Enough(k, t) => Enough(k, u)
    BY <1>1, <1>3 DEF Enough
<1>. QED
    BY <1>2, <1>4, <1>5, <1>6 DEF u, n

\* The party of l is filed under q, one of its members.
Refiled(t, l, q) == [h \in (DOMAIN t \ {l}) \cup {q} |-> IF h = q THEN t[l] ELSE t[h]]
Remapped(t, m, l, q) == [r \in Player |-> IF BagIn(r, t[l]) THEN q ELSE m[r]]

LEMMA TransferTable ==
    ASSUME NEW t, NEW m \in Mapping, Fits(t), NEW l \in DOMAIN t, NEW q \in Player, q # l
    PROVE  LET u == Refiled(t, l, q)
               n == Remapped(t, m, l, q)
           IN  /\ Fits(u) /\ n \in Mapping
               /\ Tidy(t, m) /\ m[q] = l => Tidy(u, n)
               /\ Tidy(t, m) /\ m[q] = l => \A k : Enough(k, t) => Enough(k, u)
<1> DEFINE u == Refiled(t, l, q)
           n == Remapped(t, m, l, q)
<1>1. /\ DOMAIN u = (DOMAIN t \ {l}) \cup {q} /\ u[q] = t[l]
      /\ \A h \in DOMAIN t : h # l /\ h # q => u[h] = t[h]
      /\ u = [h \in DOMAIN u |-> u[h]]
    BY DEF Refiled
<1>2. /\ n \in Mapping
      /\ \A r \in Player : n[r] = IF BagIn(r, t[l]) THEN q ELSE m[r]
    BY DEF Mapping, Remapped
<1> HIDE DEF u, n
<1>3. Fits(u)
    BY <1>1 DEF Fits
<1>4. ASSUME Tidy(t, m), m[q] = l
      PROVE  Tidy(u, n)
    <2>1. \A r \in Player : n[r] = IF m[r] = l THEN q ELSE m[r]
        BY <1>2, <1>4, TidyMembers
    <2>2. q \notin DOMAIN t /\ q # NoPlayer
        BY <1>4 DEF Tidy, Fits
    <2>3. Of(n, q) = Of(m, l)
        BY <1>4, <2>1, <2>2 DEF Of, Tidy
    <2>4. \A h \in DOMAIN t : h # l => Of(n, h) = Of(m, h) /\ n[h] = h
        <3> SUFFICES ASSUME NEW h \in DOMAIN t, h # l
                     PROVE  Of(n, h) = Of(m, h) /\ n[h] = h
            OBVIOUS
        <3>1. h \in Player /\ m[h] = h /\ h # q
            BY <1>4, <2>2 DEF Tidy, Fits
        <3>2. \A r \in Player : n[r] = h <=> m[r] = h
            BY <2>1, <3>1
        <3>. QED
            BY <3>1, <3>2 DEF Of
    <2>5. \A h \in DOMAIN u : u[h] = SetToBag(Of(n, h)) /\ n[h] = h
        BY <1>1, <1>4, <2>1, <2>2, <2>3, <2>4 DEF Tidy
    <2>6. \A r \in Player : n[r] # NoPlayer => n[r] \in DOMAIN u
        BY <1>1, <1>4, <2>1 DEF Tidy
    <2>. QED
        BY <2>5, <2>6 DEF Tidy
<1>5. ASSUME NEW k, Tidy(t, m), m[q] = l, Enough(k, t)
      PROVE  Enough(k, u)
    <2>1. q \notin DOMAIN t /\ q \in BagToSet(t[l])
        <3>1. q \notin DOMAIN t
            BY <1>5 DEF Tidy
        <3>2. BagToSet(t[l]) = Of(m, l)
            BY <1>5, TidyMembers
        <3>. QED
            BY <1>5, <3>1, <3>2 DEF Of
    <2>2. Count(t[l]) >= 2
        BY <1>5, <2>1 DEF Enough
    <2>. QED
        BY <1>1, <1>5, <2>1, <2>2 DEF Enough
<1>. QED
    BY <1>2, <1>3, <1>4, <1>5 DEF u, n

-----------------------------------------------------------------------------
(* The inductive invariant *)

KindInv(k) ==
    /\ Fits(parties[k])
    /\ k \notin muddled => Tidy(parties[k], playerParty[k]) /\ Enough(k, parties[k])

Tables ==
    /\ parties = [k \in Kind |-> parties[k]] /\ playerParty \in [Kind -> Mapping]
    /\ \A k \in Kind : KindInv(k)

Others ==
    /\ online \in SUBSET Player /\ partyID \in Mapping /\ pending \in Mapping
    /\ dialogs \in [Player -> SUBSET Question] /\ muddled \in SUBSET Kind

\* PlayerInfo.PartyID says what the manager says, and who is not here is in no party.
IdsAgree ==
    "party" \notin muddled =>
        \A p \in Player : IF p \in online THEN partyID[p] = playerParty["party"][p]
                          ELSE playerParty["party"][p] = NoPlayer

PInv == Tables /\ Others /\ IdsAgree

LEMMA KindFacts ==
    ASSUME Tables, NEW k \in Kind
    PROVE  /\ playerParty[k] \in Mapping /\ Fits(parties[k])
           /\ k \notin muddled => Tidy(parties[k], playerParty[k]) /\ Enough(k, parties[k])
           /\ DOMAIN parties[k] \subseteq Player
BY DEF Tables, KindInv, Fits

\* What changes the tables of one kind leaves the other's alone.
LEMMA OneKind ==
    ASSUME Tables, muddled \subseteq muddled', NEW k \in Kind, NEW t, NEW m \in Mapping,
           parties' = [parties EXCEPT ![k] = t], playerParty' = [playerParty EXCEPT ![k] = m],
           Fits(t), k \notin muddled' => Tidy(t, m) /\ Enough(k, t)
    PROVE  /\ Tables' /\ parties'[k] = t /\ playerParty'[k] = m
           /\ \A j \in Kind : j # k => playerParty'[j] = playerParty[j]
<1>1. /\ parties' = [j \in Kind |-> parties'[j]] /\ playerParty' \in [Kind -> Mapping]
      /\ parties'[k] = t /\ playerParty'[k] = m
      /\ \A j \in Kind : j # k => parties'[j] = parties[j] /\ playerParty'[j] = playerParty[j]
    BY DEF Tables
<1>2. ASSUME NEW j \in Kind
      PROVE  KindInv(j)'
    <2>1. CASE j = k
        BY <1>1, <2>1 DEF KindInv
    <2>2. CASE j # k
        BY <1>1, <2>2 DEF Tables, KindInv
    <2>. QED
        BY <2>1, <2>2
<1>. QED
    BY <1>1, <1>2 DEF Tables

-----------------------------------------------------------------------------
(* PartyManager and ChatPartyManager *)

LEMMA CreateKeeps ==
    ASSUME Tables, muddled \subseteq muddled', NEW k \in Kind, NEW l \in Player, NEW p \in Player,
           CreateParty(k, l, p),
           k \notin muddled' => playerParty[k][l] = NoPlayer /\ playerParty[k][p] = NoPlayer /\ p # l
    PROVE  /\ Tables' /\ playerParty'[k] = [playerParty[k] EXCEPT ![l] = l, ![p] = l]
           /\ \A j \in Kind : j # k => playerParty'[j] = playerParty[j]
<1> DEFINE t == parties[k]
           m == playerParty[k]
           u == Founded(t, l, p)
           n == [m EXCEPT ![l] = l, ![p] = l]
<1>1. parties' = [parties EXCEPT ![k] = u] /\ playerParty' = [playerParty EXCEPT ![k] = n]
    BY DEF CreateParty, Founded, OneMore, Tables
<1>2. m \in Mapping /\ Fits(t) /\ (k \notin muddled' => Tidy(t, m) /\ Enough(k, t))
    BY KindFacts
<1> HIDE DEF t, m
<1>3. /\ Fits(u) /\ n \in Mapping
      /\ Tidy(t, m) /\ m[p] = NoPlayer /\ m[l] = NoPlayer /\ p # l => Tidy(u, n)
      /\ Enough(k, t) => Enough(k, u)
    BY <1>2, CreateTable
<1>4. k \notin muddled' => Tidy(u, n) /\ Enough(k, u)
    BY <1>2, <1>3 DEF m
<1> HIDE DEF u, n
<1>5. /\ Tables' /\ playerParty'[k] = n
      /\ \A j \in Kind : j # k => playerParty'[j] = playerParty[j]
    BY <1>1, <1>3, <1>4, OneKind
<1>. QED
    BY <1>5 DEF n, m

LEMMA AddKeeps ==
    ASSUME Tables, muddled \subseteq muddled', NEW k \in Kind, NEW l \in DOMAIN parties[k],
           NEW p \in Player, AddMember(k, l, p), Count(parties[k][l]) < MaxPartySize,
           k \notin muddled' => playerParty[k][p] = NoPlayer
    PROVE  /\ Tables' /\ playerParty'[k] = [playerParty[k] EXCEPT ![p] = l]
           /\ \A j \in Kind : j # k => playerParty'[j] = playerParty[j]
<1> DEFINE t == parties[k]
           m == playerParty[k]
           u == [t EXCEPT ![l] = OneMore(@, p)]
           n == [m EXCEPT ![p] = l]
<1>1. parties' = [parties EXCEPT ![k] = u] /\ playerParty' = [playerParty EXCEPT ![k] = n]
    BY DEF AddMember, OneMore, Tables
<1>2. m \in Mapping /\ Fits(t) /\ (k \notin muddled' => Tidy(t, m) /\ Enough(k, t))
    BY KindFacts
<1> l \in DOMAIN t /\ Count(t[l]) < MaxPartySize
    OBVIOUS
<1> HIDE DEF t, m
<1>3. /\ Fits(u) /\ n \in Mapping
      /\ Tidy(t, m) /\ m[p] = NoPlayer => Tidy(u, n)
      /\ Enough(k, t) /\ Tidy(t, m) => Enough(k, u)
    BY <1>2, AddTable
<1>4. k \notin muddled' => Tidy(u, n) /\ Enough(k, u)
    BY <1>2, <1>3 DEF m
<1> HIDE DEF u, n
<1>5. /\ Tables' /\ playerParty'[k] = n
      /\ \A j \in Kind : j # k => playerParty'[j] = playerParty[j]
    BY <1>1, <1>3, <1>4, OneKind
<1>. QED
    BY <1>5 DEF n, m

LEMMA RemoveKeeps ==
    ASSUME Tables, muddled \subseteq muddled', NEW k \in Kind, NEW p \in Player, HasParty(k, p),
           RemoveMember(k, p),
           k \notin muddled' => playerParty[k][p] # p /\ (Size(k, p) # 2 \/ k = "chat")
    PROVE  /\ Tables' /\ playerParty'[k] = [playerParty[k] EXCEPT ![p] = NoPlayer]
           /\ \A j \in Kind : j # k => playerParty'[j] = playerParty[j]
<1> DEFINE t == parties[k]
           m == playerParty[k]
           l == m[p]
           u == [t EXCEPT ![l] = OneLess(@, p)]
           n == [m EXCEPT ![p] = NoPlayer]
<1>1. parties' = [parties EXCEPT ![k] = u] /\ playerParty' = [playerParty EXCEPT ![k] = n]
    BY DEF RemoveMember, OneLess, Tables
<1>2. m \in Mapping /\ Fits(t) /\ (k \notin muddled' => Tidy(t, m) /\ Enough(k, t))
    BY KindFacts
<1>3. /\ l \in DOMAIN t /\ m[p] = l
      /\ k \notin muddled' => p # l /\ (Count(t[l]) # 2 \/ k = "chat")
    BY DEF HasParty, Size, Members
<1> HIDE DEF t, m, l
<1>4. /\ Fits(u) /\ n \in Mapping
      /\ Tidy(t, m) /\ m[p] = l /\ p # l => Tidy(u, n)
      /\ /\ Tidy(t, m) /\ m[p] = l /\ p # l /\ Enough(k, t)
         /\ Count(t[l]) # 2 \/ k = "chat"
         => Enough(k, u)
    BY <1>2, <1>3, RemoveTable
<1>5. k \notin muddled' => Tidy(u, n) /\ Enough(k, u)
    BY <1>2, <1>3, <1>4
<1> HIDE DEF u, n
<1>6. /\ Tables' /\ playerParty'[k] = n
      /\ \A j \in Kind : j # k => playerParty'[j] = playerParty[j]
    BY <1>1, <1>4, <1>5, OneKind
<1>. QED
    BY <1>6 DEF n, m

\* Both ways to dissolve a party free whoever is mapped to it.
LEMMA DissolveKeeps ==
    ASSUME Tables, muddled \subseteq muddled', NEW k \in Kind, NEW p \in Player, HasParty(k, p),
           Dissolve(k, p) \/ RemoveAndDissolve(k, p)
    PROVE  /\ Tables'
           /\ k \notin muddled =>
                 \A q \in Player : playerParty'[k][q] =
                    IF playerParty[k][q] = playerParty[k][p] THEN NoPlayer ELSE playerParty[k][q]
           /\ \A j \in Kind : j # k => playerParty'[j] = playerParty[j]
<1> DEFINE t == parties[k]
           m == playerParty[k]
           l == m[p]
           u == Restrict(t, DOMAIN t \ {l})
           free(q) == IF Dissolve(k, p) THEN BagIn(q, t[l])
                      ELSE q = p \/ BagIn(q, OneLess(t[l], p))
           n == [q \in Player |-> IF free(q) THEN NoPlayer ELSE m[q]]
<1>1. parties' = [parties EXCEPT ![k] = u] /\ playerParty' = [playerParty EXCEPT ![k] = n]
    BY DEF Dissolve, RemoveAndDissolve, OneLess, Tables, Members
<1>2. m \in Mapping /\ Fits(t) /\ (k \notin muddled => Tidy(t, m) /\ Enough(k, t))
    BY KindFacts
<1>3. l \in DOMAIN t /\ m[p] = l
    BY DEF HasParty
<1>4. n \in Mapping
    BY <1>2 DEF Mapping
<1>5. ASSUME Tidy(t, m)
      PROVE  \A q \in Player : n[q] = IF m[q] = l THEN NoPlayer ELSE m[q]
    <2> HIDE DEF t, m, l
    <2>1. /\ \A q \in Player : BagIn(q, t[l]) <=> m[q] = l
          /\ t[l] = SetToBag(Of(m, l)) /\ DOMAIN t[l] = Of(m, l)
        BY <1>2, <1>3, <1>5, TidyMembers DEF BagToSet
    <2>2. DOMAIN OneLess(t[l], p) = Of(m, l) \ {p}
        <3>1. OneLess(t[l], p) = SetToBag(Of(m, l) \ {p})
            BY <2>1, SetMoreOrLess
        <3>. QED
            BY <3>1 DEF SetToBag
    <2>3. \A q \in Player : BagIn(q, OneLess(t[l], p)) <=> m[q] = l /\ q # p
        BY <2>2 DEF BagIn, BagToSet, Of
    <2>4. \A q \in Player : free(q) <=> m[q] = l
        BY <1>3, <2>1, <2>3
    <2>. QED
        BY <2>4
<1> HIDE DEF t, m, l, n
<1>6. /\ Fits(u)
      /\ Tidy(t, m) => Tidy(u, n)
      /\ Enough(k, t) => Enough(k, u)
    BY <1>2, <1>3, <1>4, <1>5, DissolveTable
<1>7. k \notin muddled' => Tidy(u, n) /\ Enough(k, u)
    BY <1>2, <1>6
<1> HIDE DEF u
<1>8. /\ Tables' /\ playerParty'[k] = n
      /\ \A j \in Kind : j # k => playerParty'[j] = playerParty[j]
    BY <1>1, <1>4, <1>6, <1>7, OneKind
<1>. QED
    BY <1>2, <1>5, <1>8 DEF m, l

-----------------------------------------------------------------------------
(* The handlers, one at a time *)

LEMMA TablesFrame ==
    ASSUME Tables, UNCHANGED <<parties, playerParty>>, muddled \subseteq muddled'
    PROVE  Tables'
BY DEF Tables, KindInv

LEMMA NobodyIsNoPlayer ==
    ASSUME Tables, NEW k \in Kind, NEW p \in Player
    PROVE  /\ HasParty(k, p) => IsInParty(k, p) /\ playerParty[k][p] \in Player
           /\ k \notin muddled => (IsInParty(k, p) <=> HasParty(k, p))
<1>1. DOMAIN parties[k] \subseteq Player
    BY KindFacts
<1>2. k \notin muddled => (playerParty[k][p] # NoPlayer => playerParty[k][p] \in DOMAIN parties[k])
    BY KindFacts DEF Tidy
<1>. QED
    BY <1>1, <1>2 DEF HasParty, IsInParty

LEMMA AskKeeps ==
    ASSUME PInv, NEW p \in Player, NEW q \in Player,
           (\E k \in Kind : Invite(k, p, q)) \/ AskOther(p, q)
    PROVE  PInv'
<1>1. UNCHANGED <<online, parties, playerParty, partyID, muddled>>
    BY DEF Invite, AskOther, memberVars
<1>2. \E k \in Kind \cup {"other"} : Show(q, k, p)
    BY DEF Invite, AskOther
<1>3. /\ dialogs' \in [Player -> SUBSET Question] /\ pending' \in Mapping
    BY <1>2 DEF Show, PInv, Others, Mapping, Question
<1>4. Tables'
    BY <1>1, TablesFrame DEF PInv
<1>5. Others' /\ IdsAgree'
    BY <1>1, <1>3 DEF PInv, Others, IdsAgree
<1>. QED
    BY <1>4, <1>5 DEF PInv

\* Who accepts joins the party of the one who asked, or they found one.
LEMMA JoinKeeps ==
    ASSUME PInv, NEW k \in Kind, NEW p \in Player, p \in online, NEW q, MayJoin(k, q), Join(k, p, q),
           UNCHANGED online, dialogs' \in [Player -> SUBSET Question], pending' \in Mapping
    PROVE  PInv'
<1> DEFINE l == playerParty[k][q]
<1>1. q \in Player /\ q \in online
    BY DEF MayJoin, PInv, Others
<1>2. /\ muddled \subseteq muddled' /\ muddled' \in SUBSET Kind
      /\ k \notin muddled' => playerParty[k][p] = NoPlayer /\ q # p
    BY DEF Join, PInv, Others, IsInParty
<1>3. CASE IsInParty(k, q)
    <2>1. /\ l \in DOMAIN parties[k] /\ l \in Player /\ Count(parties[k][l]) < MaxPartySize
        BY <1>1, <1>3, KindFacts DEF PInv, MayJoin, HasParty, Size, Members
    <2>2. /\ AddMember(k, l, p)
          /\ partyID' = IF k = "chat" THEN partyID ELSE [partyID EXCEPT ![p] = l]
        BY <1>3 DEF Join
    <2> HIDE DEF l
    <2>3. /\ Tables' /\ playerParty'[k] = [playerParty[k] EXCEPT ![p] = l]
          /\ \A j \in Kind : j # k => playerParty'[j] = playerParty[j]
        BY <1>2, <2>1, <2>2, AddKeeps DEF PInv
    <2>4. Others'
        BY <1>2, <2>1, <2>2 DEF PInv, Others, Mapping
    <2>5. IdsAgree'
        <3>1. CASE k = "chat"
            BY <1>2, <2>2, <2>3, <3>1 DEF PInv, IdsAgree, Kind
        <3>2. CASE k = "party"
            <4>1. /\ playerParty["party"] \in Mapping /\ partyID \in Mapping
                BY KindFacts DEF PInv, Others, Kind
            <4>. QED
                BY <1>2, <2>2, <2>3, <3>2, <4>1 DEF PInv, IdsAgree, Mapping
        <3>. QED
            BY <3>1, <3>2 DEF Kind
    <2>. QED
        BY <2>3, <2>4, <2>5 DEF PInv
<1>4. CASE ~IsInParty(k, q)
    <2>1. playerParty[k][q] = NoPlayer
        BY <1>4 DEF IsInParty
    <2>2. /\ CreateParty(k, q, p)
          /\ partyID' = IF k = "chat" THEN partyID ELSE [partyID EXCEPT ![p] = q, ![q] = q]
        BY <1>4 DEF Join
    <2>3. /\ Tables' /\ playerParty'[k] = [playerParty[k] EXCEPT ![q] = q, ![p] = q]
          /\ \A j \in Kind : j # k => playerParty'[j] = playerParty[j]
        BY <1>1, <1>2, <2>1, <2>2, CreateKeeps DEF PInv
    <2>4. Others'
        BY <1>1, <1>2, <2>2 DEF PInv, Others, Mapping
    <2>5. IdsAgree'
        <3>1. CASE k = "chat"
            BY <1>2, <2>2, <2>3, <3>1 DEF PInv, IdsAgree, Kind
        <3>2. CASE k = "party"
            <4>1. /\ playerParty["party"] \in Mapping /\ partyID \in Mapping
                BY KindFacts DEF PInv, Others, Kind
            <4>. QED
                BY <1>1, <1>2, <2>2, <2>3, <3>2, <4>1 DEF PInv, IdsAgree, Mapping
        <3>. QED
            BY <3>1, <3>2 DEF Kind
    <2>. QED
        BY <2>3, <2>4, <2>5 DEF PInv
<1>. QED
    BY <1>3, <1>4

LEMMA AnswerKeeps ==
    ASSUME PInv, NEW p \in Player, NEW question \in dialogs[p], NEW accepted \in BOOLEAN,
           Answer(p, question, accepted)
    PROVE  PInv'
<1>1. p \in online /\ UNCHANGED online
    BY DEF Answer
<1>2. dialogs' \in [Player -> SUBSET Question] /\ pending' \in Mapping
    BY DEF Answer, PInv, Others, Mapping
<1>3. CASE question.kind \in Kind /\ MayJoin(question.kind, pending[p])
           /\ Join(question.kind, p, pending[p])
    BY <1>1, <1>2, <1>3, JoinKeeps
<1>4. CASE UNCHANGED <<memberVars, muddled>>
    <2>1. UNCHANGED <<parties, playerParty, partyID, muddled>>
        BY <1>4 DEF memberVars
    <2>2. Tables'
        BY <2>1, TablesFrame DEF PInv
    <2>. QED
        BY <1>1, <1>2, <2>1, <2>2 DEF PInv, Others, IdsAgree
<1>. QED
    BY <1>3, <1>4 DEF Answer

\* A party that is dissolved frees its members, and their PartyID.
LEMMA BreakUpKeeps ==
    ASSUME PInv, NEW p \in Player, HasParty("party", p), muddled \subseteq muddled',
           muddled' \in SUBSET Kind, Dissolve("party", p),
           ClearPartyID(BagToSet(Members("party", p))), UNCHANGED <<online, dialogs, pending>>
    PROVE  /\ PInv'
           /\ "party" \notin muddled => \A q \in Player :
                 playerParty["party"][q] = playerParty["party"][p] =>
                    playerParty'["party"][q] = NoPlayer /\ partyID'[q] = NoPlayer
<1> DEFINE m == playerParty["party"]
           n == playerParty'["party"]
<1>1. /\ Tables'
      /\ "party" \notin muddled =>
            \A q \in Player : n[q] = IF m[q] = m[p] THEN NoPlayer ELSE m[q]
    BY DissolveKeeps DEF PInv, Kind
<1>2. Others'
    BY DEF PInv, Others, ClearPartyID, Mapping
<1>3. ASSUME "party" \notin muddled
      PROVE  \A q \in Player : BagIn(q, Members("party", p)) <=> m[q] = m[p]
    <2>1. /\ m \in Mapping /\ Fits(parties["party"]) /\ Tidy(parties["party"], m)
          /\ m[p] \in DOMAIN parties["party"]
        BY <1>3, KindFacts DEF PInv, Kind, HasParty
    <2> HIDE DEF m
    <2>2. \A q \in Player : BagIn(q, parties["party"][m[p]]) <=> m[q] = m[p]
        BY <2>1, TidyMembers
    <2>. QED
        BY <2>2 DEF Members, m
<1>4. ASSUME "party" \notin muddled, NEW q \in Player
      PROVE  /\ partyID'[q] = IF m[q] = m[p] /\ q \in online THEN NoPlayer ELSE partyID[q]
             /\ IF q \in online THEN partyID[q] = m[q] ELSE m[q] = NoPlayer
    <2>1. partyID'[q] = IF q \in BagToSet(Members("party", p)) \cap online THEN NoPlayer ELSE partyID[q]
        BY DEF ClearPartyID
    <2>2. q \in BagToSet(Members("party", p)) <=> m[q] = m[p]
        BY <1>3, <1>4 DEF BagIn
    <2>3. IF q \in online THEN partyID[q] = m[q] ELSE m[q] = NoPlayer
        BY <1>4 DEF PInv, IdsAgree
    <2>. QED
        BY <2>1, <2>2, <2>3
<1>5. m[p] # NoPlayer
    BY NobodyIsNoPlayer DEF PInv, IsInParty, Kind
<1>6. IdsAgree'
    <2> SUFFICES ASSUME "party" \notin muddled, NEW q \in Player
                 PROVE  IF q \in online THEN partyID'[q] = n[q] ELSE n[q] = NoPlayer
        BY DEF IdsAgree
    <2>. QED
        BY <1>1, <1>4
<1>7. "party" \notin muddled => \A q \in Player :
         m[q] = m[p] => n[q] = NoPlayer /\ partyID'[q] = NoPlayer
    BY <1>1, <1>4, <1>5
<1>. QED
    BY <1>1, <1>2, <1>6, <1>7 DEF PInv

\* Who leaves, and does not break up, has no party, and no PartyID.
LEMMA GoesKeeps ==
    ASSUME PInv, NEW p \in Player, HasParty("party", p), muddled \subseteq muddled',
           muddled' \in SUBSET Kind, RemoveMember("party", p),
           "party" \notin muddled' => playerParty["party"][p] # p /\ Size("party", p) # 2,
           partyID' = [partyID EXCEPT ![p] = NoPlayer], UNCHANGED <<online, dialogs, pending>>
    PROVE  PInv' /\ playerParty'["party"] = [playerParty["party"] EXCEPT ![p] = NoPlayer]
<1>1. /\ Tables' /\ playerParty'["party"] = [playerParty["party"] EXCEPT ![p] = NoPlayer]
    BY RemoveKeeps DEF PInv, Kind
<1>2. Others'
    BY DEF PInv, Others, Mapping
<1>3. playerParty["party"] \in Mapping /\ partyID \in Mapping
    BY KindFacts DEF PInv, Others, Kind
<1>4. IdsAgree'
    BY <1>1, <1>3 DEF PInv, IdsAgree, Mapping
<1>. QED
    BY <1>1, <1>2, <1>4 DEF PInv

LEMMA LeavePartyKeeps ==
    ASSUME PInv, NEW p \in Player, HasParty("party", p), LeaveParty(p),
           UNCHANGED <<online, dialogs, pending, muddled>>
    PROVE  PInv'
<1>0. muddled' \in SUBSET Kind
    BY DEF PInv, Others
<1>1. CASE IsLeader("party", p) \/ Size("party", p) = 2
    BY <1>0, <1>1, BreakUpKeeps DEF LeaveParty
<1>2. CASE ~(IsLeader("party", p) \/ Size("party", p) = 2)
    BY <1>0, <1>2, GoesKeeps DEF LeaveParty, IsLeader
<1>. QED
    BY <1>1, <1>2

\* Whatever happens to a chat party leaves PartyID as it is.
LEMMA ChatOnly ==
    ASSUME PInv, Tables', Others', playerParty'["party"] = playerParty["party"],
           UNCHANGED <<online, partyID>>, muddled \subseteq muddled'
    PROVE  PInv'
BY DEF PInv, IdsAgree

LEMMA LeaveChatKeeps ==
    ASSUME PInv, NEW p \in Player, HasParty("chat", p), LeaveChat(p),
           UNCHANGED <<online, dialogs, pending, muddled>>
    PROVE  PInv'
<1>1. Others'
    BY DEF PInv, Others, LeaveChat
<1>2. "chat" \in Kind /\ "party" \in Kind /\ muddled \subseteq muddled'
    BY DEF Kind
<1>3. CASE Dissolve("chat", p) \/ RemoveAndDissolve("chat", p)
    <2>1. Tables' /\ playerParty'["party"] = playerParty["party"]
        BY <1>2, <1>3, DissolveKeeps DEF PInv
    <2>. QED
        BY <1>1, <1>2, <2>1, ChatOnly DEF LeaveChat
<1>4. CASE ~IsLeader("chat", p) /\ RemoveMember("chat", p)
    <2>1. playerParty["chat"][p] # p
        BY <1>4 DEF IsLeader
    <2>2. Tables' /\ playerParty'["party"] = playerParty["party"]
        BY <1>2, <1>4, <2>1, RemoveKeeps DEF PInv
    <2>. QED
        BY <1>1, <1>2, <2>2, ChatOnly DEF LeaveChat
<1>. QED
    BY <1>3, <1>4 DEF LeaveChat

LEMMA LeaveKeeps ==
    ASSUME PInv, NEW k \in Kind, NEW p \in Player, Leave(k, p)
    PROVE  PInv'
<1>1. CASE k = "party"
    BY <1>1, LeavePartyKeeps DEF Leave
<1>2. CASE k = "chat"
    BY <1>2, LeaveChatKeeps DEF Leave
<1>. QED
    BY <1>1, <1>2 DEF Kind

\* In a tidy table, who is listed in the leader's party is mapped to the leader.
LEMMA ListedIsMapped ==
    ASSUME Tables, NEW k \in Kind, k \notin muddled, NEW p \in Player, IsLeader(k, p),
           NEW q \in Player
    PROVE  BagIn(q, Members(k, p)) <=> playerParty[k][q] = p
<1>1. /\ playerParty[k] \in Mapping /\ Fits(parties[k]) /\ Tidy(parties[k], playerParty[k])
      /\ p \in DOMAIN parties[k] /\ playerParty[k][p] = p
    BY KindFacts DEF IsLeader, HasParty
<1>. QED
    BY <1>1, TidyMembers DEF Members

LEMMA BanishKeeps ==
    ASSUME PInv, NEW p \in Player, NEW q \in Player, BanishMember(p, q)
    PROVE  PInv'
<1>1. muddled \subseteq muddled' /\ muddled' \in SUBSET Kind
    BY DEF BanishMember, PInv, Others, Kind
<1>2. HasParty("party", q) /\ UNCHANGED <<online, dialogs, pending>>
    BY DEF BanishMember
<1>3. CASE Size("party", q) = 2
    BY <1>1, <1>2, <1>3, BreakUpKeeps DEF BanishMember
<1>4. CASE Size("party", q) # 2
    <2>1. "party" \notin muddled' => playerParty["party"][q] # q
        <3> SUFFICES ASSUME "party" \notin muddled' PROVE playerParty["party"][q] # q
            OBVIOUS
        <3>1. p # q /\ "party" \notin muddled
            BY DEF BanishMember
        <3>2. playerParty["party"][q] = p
            BY <3>1, ListedIsMapped DEF BanishMember, PInv, Kind
        <3>. QED
            BY <3>1, <3>2
    <2>. QED
        BY <1>1, <1>2, <1>4, <2>1, GoesKeeps DEF BanishMember
<1>. QED
    BY <1>3, <1>4

LEMMA ChatKickKeeps ==
    ASSUME PInv, NEW p \in Player, NEW q \in Player, ChatKick(p, q)
    PROVE  PInv'
<1>1. Others' /\ UNCHANGED <<online, partyID>> /\ HasParty("chat", q)
    BY DEF PInv, Others, ChatKick
<1>2. "chat" \in Kind /\ "party" \in Kind /\ muddled' = muddled
    BY DEF Kind, ChatKick
<1>3. CASE RemoveAndDissolve("chat", q)
    <2>1. Tables' /\ playerParty'["party"] = playerParty["party"]
        BY <1>1, <1>2, <1>3, DissolveKeeps DEF PInv
    <2>. QED
        BY <1>1, <1>2, <2>1, ChatOnly
<1>4. CASE RemoveMember("chat", q)
    <2>1. "chat" \notin muddled' => playerParty["chat"][q] # q
        BY <1>2, ListedIsMapped DEF ChatKick, PInv
    <2>2. Tables' /\ playerParty'["party"] = playerParty["party"]
        BY <1>1, <1>2, <1>4, <2>1, RemoveKeeps DEF PInv
    <2>. QED
        BY <1>1, <1>2, <2>2, ChatOnly
<1>. QED
    BY <1>3, <1>4 DEF ChatKick

LEMMA TransferKeeps ==
    ASSUME PInv, NEW p \in Player, NEW q \in Player, TransferLeader(p, q)
    PROVE  PInv'
<1> DEFINE t == parties["party"]
           m == playerParty["party"]
           u == Refiled(t, p, q)
           n == Remapped(t, m, p, q)
<1>1. p # q /\ p \in DOMAIN t /\ m[p] = p /\ q \in online /\ m[q] # NoPlayer /\ p \in online
    BY DEF TransferLeader, IsLeader, HasParty, IsInParty
<1>2. parties' = [parties EXCEPT !["party"] = u] /\ playerParty' = [playerParty EXCEPT !["party"] = n]
    BY <1>1 DEF TransferLeader, Members, Refiled, Remapped, PInv, Tables, Kind
<1>3. m \in Mapping /\ Fits(t) /\ ("party" \notin muddled => Tidy(t, m) /\ Enough("party", t))
    BY KindFacts DEF PInv, Kind
<1>4. "party" \notin muddled => m[q] = p
    <2>1. partyID[q] = partyID[p]
        BY DEF TransferLeader
    <2>. QED
        BY <1>1, <2>1 DEF PInv, IdsAgree
<1>5. muddled' = muddled /\ UNCHANGED <<online, dialogs, pending>>
    BY DEF TransferLeader
<1>6. /\ partyID' \in Mapping
      /\ "party" \notin muddled => \A r \in Player :
            partyID'[r] = IF m[r] = p /\ r \in online THEN q ELSE partyID[r]
    <2> DEFINE now == n[q]
    <2>1. parties'["party"] = u /\ playerParty'["party"] = n
        BY <1>2 DEF PInv, Tables, Kind
    <2>2. /\ now \notin DOMAIN u => partyID' = partyID
          /\ now \in DOMAIN u =>
                /\ partyID' = [r \in Player |-> partyID'[r]]
                /\ \A r \in Player : partyID'[r] =
                      IF BagIn(r, u[now]) /\ r \in online THEN now ELSE partyID[r]
        <3>1. partyID' = IF playerParty'["party"][q] \notin DOMAIN parties'["party"] THEN partyID
                         ELSE LET new == playerParty'["party"][q] IN
                              [r \in Player |-> IF BagIn(r, parties'["party"][new]) /\ r \in online
                                                THEN new ELSE partyID[r]]
            BY DEF TransferLeader
        <3> HIDE DEF u, n
        <3>. QED
            BY <2>1, <3>1
    <2>3. DOMAIN u = (DOMAIN t \ {p}) \cup {q} /\ DOMAIN u \subseteq Player /\ u[q] = t[p]
        BY <1>3 DEF Refiled, Fits
    <2>4. partyID' \in Mapping
        BY <2>2, <2>3 DEF PInv, Others, Mapping
    <2>5. ASSUME "party" \notin muddled
          PROVE  \A r \in Player :
                    partyID'[r] = IF m[r] = p /\ r \in online THEN q ELSE partyID[r]
        <3> HIDE DEF t, m
        <3>1. \A r \in Player : BagIn(r, t[p]) <=> m[r] = p
            BY <1>1, <1>3, <2>5, TidyMembers
        <3>2. now = q
            BY <1>4, <2>5, <3>1 DEF Remapped
        <3>. QED
            BY <2>2, <2>3, <3>1, <3>2
    <2>. QED
        BY <2>4, <2>5
<1>7. Tables' /\ playerParty'["party"] = n
    <2> HIDE DEF t, m
    <2>1. /\ Fits(u) /\ n \in Mapping
          /\ "party" \notin muddled => Tidy(u, n) /\ Enough("party", u)
        BY <1>1, <1>3, <1>4, TransferTable
    <2> HIDE DEF u, n
    <2>. QED
        BY <1>2, <1>5, <2>1, OneKind DEF PInv, Kind
<1>8. Others'
    BY <1>5, <1>6 DEF PInv, Others
<1>9. IdsAgree'
    <2> SUFFICES ASSUME "party" \notin muddled, NEW r \in Player
                 PROVE  IF r \in online THEN partyID'[r] = n[r] ELSE n[r] = NoPlayer
        BY <1>5, <1>7 DEF IdsAgree
    <2>1. n[r] = IF m[r] = p THEN q ELSE m[r]
        <3> HIDE DEF t, m
        <3>1. BagIn(r, t[p]) <=> m[r] = p
            BY <1>1, <1>3, TidyMembers
        <3>. QED
            BY <3>1 DEF Remapped
    <2>2. IF r \in online THEN partyID[r] = m[r] ELSE m[r] = NoPlayer
        BY DEF PInv, IdsAgree
    <2>3. p # NoPlayer
        OBVIOUS
    <2> HIDE DEF m, n
    <2>. QED
        BY <1>6, <2>1, <2>2, <2>3
<1>. QED
    BY <1>7, <1>8, <1>9 DEF PInv

-----------------------------------------------------------------------------
(* In and out of the world *)

\* Whom the party of p loses when p leaves the world.
Lost(k, p) == IF IsLeader(k, p) \/ Size(k, p) = 2 THEN BagToSet(Members(k, p)) ELSE {p}

\* A party that p leaves when his connection ends is settled as in any other way.
LEMMA DisconnectTable ==
    ASSUME Tables, NEW k \in Kind, NEW p \in Player, HasParty(k, p), muddled' = muddled,
           parties'[k] = IF IsLeader(k, p) \/ Size(k, p) = 2
                         THEN Restrict(parties[k], DOMAIN parties[k] \ {playerParty[k][p]})
                         ELSE [parties[k] EXCEPT ![playerParty[k][p]] = @ (-) SetToBag({p})],
           playerParty'[k] = [q \in Player |-> IF q \in Lost(k, p) THEN NoPlayer
                                               ELSE playerParty[k][q]]
    PROVE  /\ KindInv(k)' /\ playerParty'[k] \in Mapping
           /\ k \notin muddled => playerParty'[k][p] = NoPlayer
<1> DEFINE t == parties[k]
           m == playerParty[k]
           n == playerParty'[k]
           l == m[p]
<1>1. m \in Mapping /\ Fits(t) /\ (k \notin muddled => Tidy(t, m) /\ Enough(k, t))
    BY KindFacts
<1>2. l \in DOMAIN t /\ m[p] = l
    BY DEF HasParty
<1>3. n \in Mapping
    BY <1>1 DEF Mapping
<1>4. CASE IsLeader(k, p) \/ Size(k, p) = 2
    <2> DEFINE u == Restrict(t, DOMAIN t \ {l})
    <2>1. parties'[k] = u
        BY <1>4
    <2>2. \A q \in Player : n[q] = IF BagIn(q, t[l]) THEN NoPlayer ELSE m[q]
        BY <1>4 DEF Lost, Members, BagIn
    <2> HIDE DEF t, m, n, l
    <2>3. Tidy(t, m) => \A q \in Player : n[q] = IF m[q] = l THEN NoPlayer ELSE m[q]
        BY <1>1, <1>2, <2>2, TidyMembers
    <2>4. /\ Fits(u) /\ (Tidy(t, m) => Tidy(u, n)) /\ (Enough(k, t) => Enough(k, u))
        BY <1>1, <1>2, <1>3, <2>3, DissolveTable
    <2> HIDE DEF u
    <2>5. KindInv(k)'
        BY <1>1, <2>1, <2>4 DEF KindInv, n
    <2>6. k \notin muddled => n[p] = NoPlayer
        BY <1>1, <1>2, <2>3
    <2>. QED
        BY <1>3, <2>5, <2>6 DEF n
<1>5. CASE ~(IsLeader(k, p) \/ Size(k, p) = 2)
    <2> DEFINE u == [t EXCEPT ![l] = OneLess(@, p)]
    <2>1. parties'[k] = u
        BY <1>5 DEF OneLess
    <2>2. n = [m EXCEPT ![p] = NoPlayer]
        <3>1. Lost(k, p) = {p}
            BY <1>5 DEF Lost
        <3>. QED
            BY <1>1, <3>1 DEF Mapping
    <2>3. p # l /\ Count(t[l]) # 2
        BY <1>2, <1>5 DEF IsLeader, HasParty, Size, Members
    <2> HIDE DEF t, m, n, l
    <2>4. Fits(u) /\ (Tidy(t, m) => Tidy(u, n)) /\ (Tidy(t, m) /\ Enough(k, t) => Enough(k, u))
        BY <1>1, <1>2, <2>2, <2>3, RemoveTable
    <2> HIDE DEF u
    <2>5. KindInv(k)'
        BY <1>1, <2>1, <2>4 DEF KindInv, n
    <2>6. n[p] = NoPlayer
        BY <1>1, <2>2 DEF Mapping
    <2>. QED
        BY <1>3, <2>5, <2>6 DEF n
<1>. QED
    BY <1>4, <1>5

LEMMA OutKeepsOthers ==
    ASSUME Others, NEW p \in Player, OutOfWorld(p), partyID' \in Mapping
    PROVE  Others' /\ online' = online \ {p} /\ muddled' = muddled /\ p \in online
BY DEF Others, OutOfWorld, Mapping

LEMMA DisconnectKeeps ==
    ASSUME PInv, NEW p \in Player, HandleDisconnect(p)
    PROVE  PInv'
<1> DEFINE inParty == partyID[p] # NoPlayer /\ HasParty("party", p)
           leaves(k) == IF k = "party" THEN inParty ELSE HasParty("chat", p)
<1>1. /\ parties' = [k \in Kind |->
             IF ~leaves(k) THEN parties[k]
             ELSE IF IsLeader(k, p) \/ Size(k, p) = 2
                  THEN Restrict(parties[k], DOMAIN parties[k] \ {playerParty[k][p]})
                  ELSE [parties[k] EXCEPT ![playerParty[k][p]] = @ (-) SetToBag({p})]]
      /\ playerParty' = [k \in Kind |-> [q \in Player |->
             IF leaves(k) /\ q \in Lost(k, p) THEN NoPlayer ELSE playerParty[k][q]]]
      /\ partyID' = [q \in Player |->
             IF q = p \/ (inParty /\ q \in Lost("party", p) \cap online') THEN NoPlayer
             ELSE partyID[q]]
    BY DEF HandleDisconnect, Lost
<1>2. \A k \in Kind : leaves(k) => HasParty(k, p)
    BY DEF Kind
<1>3. partyID' \in Mapping
    BY <1>1 DEF PInv, Others, Mapping
<1>4. Others' /\ online' = online \ {p} /\ muddled' = muddled /\ p \in online
    BY <1>3, OutKeepsOthers DEF HandleDisconnect, PInv
<1>5. ASSUME NEW k \in Kind
      PROVE  /\ KindInv(k)' /\ playerParty'[k] \in Mapping
             /\ leaves(k) /\ k \notin muddled => playerParty'[k][p] = NoPlayer
    <2>1. CASE leaves(k)
        <3>1. HasParty(k, p)
            BY <1>2, <2>1
        <3>2. playerParty'[k] = [q \in Player |-> IF q \in Lost(k, p) THEN NoPlayer
                                                  ELSE playerParty[k][q]]
            BY <1>1, <2>1
        <3>3. parties'[k] = IF IsLeader(k, p) \/ Size(k, p) = 2
                         THEN Restrict(parties[k], DOMAIN parties[k] \ {playerParty[k][p]})
                         ELSE [parties[k] EXCEPT ![playerParty[k][p]] = @ (-) SetToBag({p})]
            BY <1>1, <2>1
        <3> HIDE DEF leaves
        <3>. QED
            BY <1>4, <3>1, <3>2, <3>3, DisconnectTable DEF PInv
    <2>2. CASE ~leaves(k)
        <3>1. playerParty[k] \in Mapping
            BY KindFacts DEF PInv
        <3>2. playerParty'[k] = playerParty[k]
            BY <1>1, <2>2, <3>1 DEF Mapping
        <3>3. parties'[k] = parties[k]
            BY <1>1, <2>2
        <3>. QED
            BY <1>4, <2>2, <3>1, <3>2, <3>3 DEF PInv, Tables, KindInv
    <2>. QED
        BY <2>1, <2>2
<1>6. Tables'
    <2>1. parties' = [k \in Kind |-> parties'[k]] /\ playerParty' = [k \in Kind |-> playerParty'[k]]
        BY <1>1
    <2> HIDE DEF leaves
    <2>. QED
        BY <1>5, <2>1 DEF Tables
<1>7. IdsAgree'
    <2> SUFFICES ASSUME "party" \notin muddled, NEW q \in Player
                 PROVE  IF q \in online' THEN partyID'[q] = playerParty'["party"][q]
                        ELSE playerParty'["party"][q] = NoPlayer
        BY <1>4 DEF IdsAgree
    <2>1. IF q \in online THEN partyID[q] = playerParty["party"][q]
          ELSE playerParty["party"][q] = NoPlayer
        BY DEF PInv, IdsAgree
    <2>2. playerParty'["party"][q] = IF inParty /\ q \in Lost("party", p) THEN NoPlayer
                                     ELSE playerParty["party"][q]
        BY <1>1 DEF Kind
    <2>3. partyID'[q] = IF q = p \/ (inParty /\ q \in Lost("party", p) \cap online') THEN NoPlayer
                        ELSE partyID[q]
        BY <1>1
    <2>4. playerParty'["party"][p] = NoPlayer
        <3>1. CASE inParty
            BY <1>5, <3>1 DEF Kind
        <3>2. CASE ~inParty
            <4>1. partyID[p] = playerParty["party"][p]
                BY <1>4 DEF PInv, IdsAgree
            <4>2. playerParty["party"][p] = NoPlayer
                BY <3>2, <4>1, NobodyIsNoPlayer DEF PInv, IsInParty, Kind
            <4>. QED
                BY <1>1, <3>2, <4>2 DEF Kind
        <3>. QED
            BY <3>1, <3>2
    <2> HIDE DEF inParty
    <2>. QED
        BY <1>4, <2>1, <2>2, <2>3, <2>4
<1>. QED
    BY <1>4, <1>6, <1>7 DEF PInv

\* C_CHANGE_CHAR leaves the party as Leave does; then the player is not here.
LEMMA ChangeCharKeeps ==
    ASSUME PInv, NEW p \in Player, HandleChangeChar(p)
    PROVE  PInv'
<1>1. /\ p \in online /\ online' = online \ {p} /\ muddled' = muddled
      /\ dialogs' = [dialogs EXCEPT ![p] = {}] /\ pending' = [pending EXCEPT ![p] = NoPlayer]
    BY DEF HandleChangeChar, OutOfWorld
<1>2. /\ partyID \in Mapping /\ playerParty["party"] \in Mapping /\ "party" \in Kind
    BY KindFacts DEF PInv, Others, Kind
<1>3. CASE HasParty("party", p) /\ LeaveParty(p)
    <2> DEFINE m == playerParty["party"]
               n == playerParty'["party"]
    <2>1. CASE ~(IsLeader("party", p) \/ Size("party", p) = 2)
        <3>1. RemoveMember("party", p) /\ partyID' = [partyID EXCEPT ![p] = NoPlayer]
            BY <1>3, <2>1 DEF LeaveParty
        <3>2. m[p] # p /\ Size("party", p) # 2
            BY <1>3, <2>1 DEF IsLeader
        <3>3. Tables' /\ n = [m EXCEPT ![p] = NoPlayer]
            BY <1>1, <1>2, <1>3, <3>1, <3>2, RemoveKeeps DEF PInv
        <3>4. Others'
            BY <1>1, <1>2, <3>1 DEF PInv, Others, Mapping
        <3>5. IdsAgree'
            BY <1>1, <1>2, <3>1, <3>3 DEF PInv, IdsAgree, Mapping
        <3>. QED
            BY <3>3, <3>4, <3>5 DEF PInv
    <2>2. CASE IsLeader("party", p) \/ Size("party", p) = 2
        <3>1. Dissolve("party", p) /\ ClearPartyID(BagToSet(Members("party", p)))
            BY <1>3, <2>2 DEF LeaveParty
        <3>2. /\ Tables'
              /\ "party" \notin muddled =>
                    \A q \in Player : n[q] = IF m[q] = m[p] THEN NoPlayer ELSE m[q]
            BY <1>1, <1>2, <1>3, <3>1, DissolveKeeps DEF PInv
        <3>3. Others'
            BY <1>1, <3>1 DEF PInv, Others, Mapping, ClearPartyID
        <3>4. ASSUME "party" \notin muddled, NEW q \in Player
              PROVE  IF q \in online' THEN partyID'[q] = n[q] ELSE n[q] = NoPlayer
            <4>1. /\ Fits(parties["party"]) /\ Tidy(parties["party"], m)
                  /\ m[p] \in DOMAIN parties["party"]
                BY <1>2, <1>3, <3>4, KindFacts DEF PInv, HasParty
            <4>2. q \in BagToSet(Members("party", p)) <=> m[q] = m[p]
                <5>1. q \in BagToSet(parties["party"][m[p]]) <=> m[q] = m[p]
                    <6> HIDE DEF m
                    <6>. QED
                        BY <1>2, <4>1, TidyMembers DEF BagIn, m
                <5>. QED
                    BY <5>1 DEF Members
            <4>3. partyID'[q] = IF q \in BagToSet(Members("party", p)) \cap online THEN NoPlayer
                                ELSE partyID[q]
                BY <3>1 DEF ClearPartyID
            <4>4. IF q \in online THEN partyID[q] = m[q] ELSE m[q] = NoPlayer
                BY <3>4 DEF PInv, IdsAgree
            <4>5. n[q] = IF m[q] = m[p] THEN NoPlayer ELSE m[q]
                BY <3>2, <3>4
            <4> HIDE DEF m, n
            <4>. QED
                BY <1>1, <4>2, <4>3, <4>4, <4>5
        <3>5. IdsAgree'
            BY <1>1, <3>4 DEF IdsAgree
        <3>. QED
            BY <3>2, <3>3, <3>5 DEF PInv
    <2>. QED
        BY <2>1, <2>2
<1>4. CASE /\ partyID[p] = NoPlayer \/ ~HasParty("party", p)
           /\ partyID' = [partyID EXCEPT ![p] = NoPlayer] /\ UNCHANGED <<parties, playerParty>>
    <2>1. Tables'
        BY <1>1, <1>4, TablesFrame DEF PInv
    <2>2. Others'
        BY <1>1, <1>2, <1>4 DEF PInv, Others, Mapping
    <2>3. "party" \notin muddled => playerParty["party"][p] = NoPlayer
        BY <1>1, <1>2, <1>4, NobodyIsNoPlayer DEF PInv, IdsAgree, IsInParty
    <2>4. IdsAgree'
        BY <1>1, <1>2, <1>4, <2>3 DEF PInv, IdsAgree, Mapping
    <2>. QED
        BY <2>1, <2>2, <2>4 DEF PInv
<1>. QED
    BY <1>3, <1>4 DEF HandleChangeChar

LEMMA EnterKeeps ==
    ASSUME PInv, NEW p \in Player, EnterWorld(p)
    PROVE  PInv'
<1>1. /\ p \notin online /\ online' = online \cup {p} /\ partyID' = [partyID EXCEPT ![p] = NoPlayer]
      /\ UNCHANGED <<parties, playerParty, dialogs, pending, muddled>>
    BY DEF EnterWorld
<1>2. Tables'
    BY <1>1, TablesFrame DEF PInv
<1>3. Others'
    BY <1>1 DEF PInv, Others, Mapping
<1>4. IdsAgree'
    BY <1>1 DEF PInv, Others, IdsAgree, Mapping
<1>. QED
    BY <1>2, <1>3, <1>4 DEF PInv

-----------------------------------------------------------------------------
(* The theorems *)

LEMMA InitPInv == Init => PInv
<1> SUFFICES ASSUME Init PROVE PInv
    OBVIOUS
<1>1. \A k \in Kind : parties[k] = EmptyBag /\ playerParty[k] = [p \in Player |-> NoPlayer]
    BY DEF Init
<1>2. DOMAIN EmptyBag = {} /\ EmptyBag = [l \in DOMAIN EmptyBag |-> EmptyBag[l]]
    BY DEF EmptyBag, SetToBag
<1>3. Tables
    <2>1. ASSUME NEW k \in Kind
          PROVE  KindInv(k)
        BY <1>1, <1>2 DEF KindInv, Fits, Tidy, Enough
    <2>2. parties = [k \in Kind |-> parties[k]] /\ playerParty \in [Kind -> Mapping]
        BY DEF Init, Mapping
    <2>. QED
        BY <2>1, <2>2 DEF Tables
<1>4. Others
    BY DEF Init, Others, Mapping
<1>5. IdsAgree
    BY <1>1 DEF Init, IdsAgree, Kind
<1>. QED
    BY <1>3, <1>4, <1>5 DEF PInv

LEMMA NextPInv == PInv /\ [Next]_vars => PInv'
<1> SUFFICES ASSUME PInv, [Next]_vars PROVE PInv'
    OBVIOUS
<1>1. CASE UNCHANGED vars
    <2>1. UNCHANGED <<online, parties, playerParty, partyID, dialogs, pending, muddled>>
        BY <1>1 DEF vars, memberVars
    <2>2. Tables'
        BY <2>1, TablesFrame DEF PInv
    <2>. QED
        BY <2>1, <2>2 DEF PInv, Others, IdsAgree
<1>2. CASE Next
    BY <1>2, AskKeeps, AnswerKeeps, LeaveKeeps, BanishKeeps, ChatKickKeeps, TransferKeeps,
       DisconnectKeeps, ChangeCharKeeps, EnterKeeps DEF Next
<1>. QED
    BY <1>1, <1>2

LEMMA PInvAgrees == PInv => PartiesAgree
<1> SUFFICES ASSUME PInv PROVE PartiesAgree
    OBVIOUS
<1>1. TypeOK
    <2>1. \A k \in Kind : parties[k] = [l \in DOMAIN parties[k] |-> parties[k][l]]
        BY KindFacts DEF PInv, Fits
    <2>2. parties = [k \in Kind |-> [l \in DOMAIN parties[k] |-> parties[k][l]]]
        <3>1. parties = [k \in Kind |-> parties[k]]
            BY DEF PInv, Tables
        <3>. QED
            BY <2>1, <3>1
    <2>3. \A k \in Kind : /\ DOMAIN parties[k] \subseteq Player
                          /\ \A l \in DOMAIN parties[k] : /\ IsABag(parties[k][l])
                                                         /\ Listed(k, l) \subseteq Player
        BY KindFacts DEF PInv, Fits, BagOver, Listed, BagToSet
    <2>4. playerParty \in [Kind -> [Player -> Player \cup {NoPlayer}]]
        BY DEF PInv, Tables, Mapping
    <2>. QED
        BY <2>2, <2>3, <2>4 DEF PInv, Others, Mapping, TypeOK
<1>2. PartySizes
    BY KindFacts DEF PInv, Fits, Enough, PartySizes, Listed
<1>3. MembershipAgrees
    <2> SUFFICES ASSUME NEW k \in Kind \ muddled
                 PROVE  /\ \A l \in DOMAIN parties[k] :
                              /\ parties[k][l] = SetToBag({p \in Player : playerParty[k][p] = l})
                              /\ playerParty[k][l] = l
                        /\ \A p \in Player : IsInParty(k, p) => HasParty(k, p)
                        /\ k = "party" =>
                              /\ \A p \in online : partyID[p] = playerParty[k][p]
                              /\ \A p \in Player \ online : ~IsInParty(k, p)
        BY DEF MembershipAgrees
    <2>1. Tidy(parties[k], playerParty[k])
        BY KindFacts DEF PInv
    <2>2. k = "party" => /\ \A p \in online : partyID[p] = playerParty[k][p]
                         /\ \A p \in Player \ online : ~IsInParty(k, p)
        BY DEF PInv, Others, IdsAgree, IsInParty
    <2>. QED
        BY <2>1, <2>2 DEF Tidy, Of, IsInParty, HasParty
<1>. QED
    BY <1>1, <1>2, <1>3 DEF PartiesAgree

\* As long as nobody joins a party from within one, the managers' tables, the lists of
\* members and PlayerInfo.PartyID agree, and nobody out of the world is in a party; and
\* no party ever grows beyond its size, not even then.
THEOREM PartiesAlwaysAgree == Spec => []PartiesAgree
BY InitPInv, NextPInv, PInvAgrees, PTL DEF Spec

\* What one departure does to the party that the one who goes is listed in.
SettlesParty ==
    \A p \in online \ online' : \A l \in DOMAIN parties["party"] :
        "party" \notin muddled /\ BagIn(p, parties["party"][l]) =>
            IF p = l \/ Count(parties["party"][l]) = 2
            THEN \A q \in Listed("party", l) \cap online' :
                    ~IsInParty("party", q)' /\ partyID'[q] = NoPlayer
            ELSE /\ l \in DOMAIN parties'["party"]
                 /\ Listed("party", l)' = Listed("party", l) \ {p}

LEMMA StepSettles == PInv /\ [Next]_vars => SettlesParty
<1> SUFFICES ASSUME PInv, [Next]_vars, NEW p \in online \ online', NEW l \in DOMAIN parties["party"],
                    "party" \notin muddled, BagIn(p, parties["party"][l])
             PROVE  IF p = l \/ Count(parties["party"][l]) = 2
                    THEN \A q \in Listed("party", l) \cap online' :
                            ~IsInParty("party", q)' /\ partyID'[q] = NoPlayer
                    ELSE /\ l \in DOMAIN parties'["party"]
                         /\ Listed("party", l)' = Listed("party", l) \ {p}
    BY DEF SettlesParty
<1> DEFINE t == parties["party"]
           m == playerParty["party"]
<1>1. /\ p \in Player /\ m \in Mapping /\ Fits(t) /\ Tidy(t, m) /\ PInv'
      /\ "party" \in Kind /\ muddled' = muddled
    <2>1. muddled' = muddled
        BY DEF Next, vars, Invite, AskOther, BanishMember, ChatKick, TransferLeader, Answer, Leave,
               EnterWorld, HandleDisconnect, HandleChangeChar, OutOfWorld
    <2>. QED
        BY <2>1, NextPInv, KindFacts DEF PInv, Others, Kind
<1>2. /\ m[p] = l /\ l \in Player
      /\ Listed("party", l) = Of(m, l) /\ t[l] = SetToBag(Of(m, l))
    <2> HIDE DEF t, m
    <2>1. m[p] = l /\ l \in Player /\ BagToSet(t[l]) = Of(m, l) /\ t[l] = SetToBag(Of(m, l))
        BY <1>1, TidyMembers DEF t
    <2>. QED
        BY <2>1 DEF Listed, t
<1>3. /\ HasParty("party", p) /\ partyID[p] = l /\ Members("party", p) = t[l]
      /\ IsLeader("party", p) <=> p = l
    <2>1. m[p] = l /\ l \in DOMAIN t
        BY <1>2
    <2>2. partyID[p] = m[p]
        BY <1>1 DEF PInv, IdsAgree
    <2>. QED
        BY <2>1, <2>2 DEF HasParty, Members, IsLeader
<1>4. (\E r \in Player : HandleDisconnect(r) \/ HandleChangeChar(r)) /\ online' # online
    BY DEF Next, vars, Invite, AskOther, BanishMember, ChatKick, TransferLeader, Answer, Leave,
           EnterWorld
<1>5. HandleDisconnect(p) \/ HandleChangeChar(p)
    <2>1. PICK r \in Player : HandleDisconnect(r) \/ HandleChangeChar(r)
        BY <1>4
    <2>2. online' = online \ {r}
        BY <2>1 DEF HandleDisconnect, HandleChangeChar, OutOfWorld
    <2>3. p = r
        BY <2>2
    <2>. QED
        BY <2>1, <2>3
<1>6. Size("party", p) = Count(t[l])
    BY <1>3 DEF Size
<1>7. CASE p = l \/ Count(t[l]) = 2
    <2>1. \A q \in Of(m, l) : playerParty'["party"][q] = NoPlayer
        <3>1. CASE HandleDisconnect(p)
            <4>1. playerParty'["party"] = [q \in Player |->
                     IF q \in BagToSet(Members("party", p)) THEN NoPlayer ELSE m[q]]
                BY <1>2, <1>3, <1>6, <1>7, <3>1 DEF HandleDisconnect, Kind
            <4>. QED
                BY <1>2, <1>3, <4>1 DEF Of, Listed
        <3>2. CASE HandleChangeChar(p)
            <4>1. Dissolve("party", p)
                BY <1>2, <1>3, <1>6, <1>7, <3>2 DEF HandleChangeChar, LeaveParty
            <4>2. \A q \in Player : playerParty'["party"][q] =
                     IF m[q] = m[p] THEN NoPlayer ELSE m[q]
                BY <1>1, <1>3, <4>1, DissolveKeeps DEF PInv
            <4>. QED
                BY <1>2, <4>2 DEF Of
        <3>. QED
            BY <1>5, <3>1, <3>2
    <2>2. \A q \in Of(m, l) \cap online' : partyID'[q] = playerParty'["party"][q]
        BY <1>1 DEF PInv, IdsAgree, Of
    <2>. QED
        BY <1>2, <1>7, <2>1, <2>2 DEF IsInParty
<1>8. CASE ~(p = l \/ Count(t[l]) = 2)
    <2>1. parties'["party"] = [t EXCEPT ![l] = @ (-) SetToBag({p})]
        <3>1. CASE HandleDisconnect(p)
            BY <1>2, <1>3, <1>6, <1>8, <3>1 DEF HandleDisconnect, Kind
        <3>2. CASE HandleChangeChar(p)
            <4>1. RemoveMember("party", p)
                BY <1>2, <1>3, <1>6, <1>8, <3>2 DEF HandleChangeChar, LeaveParty
            <4>. QED
                BY <1>1, <1>2, <4>1 DEF RemoveMember, PInv, Tables
        <3>. QED
            BY <1>5, <3>1, <3>2
    <2>2. l \in DOMAIN parties'["party"] /\ parties'["party"][l] = OneLess(t[l], p)
        BY <2>1 DEF OneLess
    <2>3. OneLess(t[l], p) = SetToBag(Of(m, l) \ {p})
        <3>1. OneLess(SetToBag(Of(m, l)), p) = SetToBag(Of(m, l) \ {p})
            BY SetMoreOrLess
        <3>. QED
            BY ONLY <1>2, <3>1
    <2>4. Listed("party", l)' = Of(m, l) \ {p}
        <3>1. parties'["party"][l] = SetToBag(Of(m, l) \ {p})
            BY ONLY <2>2, <2>3
        <3>. QED
            BY <3>1 DEF Listed, BagToSet, SetToBag
    <2>. QED
        BY <1>2, <1>8, <2>2, <2>4
<1>. QED
    BY <1>7, <1>8

\* Who leaves the world, by a lost connection or by choosing another character, leaves
\* his party settled: dissolved with everybody free, or one member smaller.
THEOREM DeparturesSettleParties == Spec => DepartureSettlesParty
<1>1. PInv /\ [Next]_vars => [SettlesParty]_vars
    BY StepSettles
<1>. QED
    BY <1>1, InitPInv, NextPInv, PTL DEF Spec, DepartureSettlesParty, SettlesParty
=============================================================================
