--------------------------- MODULE WarehouseProofs ---------------------------
(***************************************************************************)
(* Proofs about warehouses, for any players, goods, fees and bounds: the   *)
(* lock of the clan's warehouse is released, what a player sees of a       *)
(* warehouse is what its rows say, and goods are neither made nor lost.    *)
(***************************************************************************)
EXTENDS Warehouse, Sums

USE WarehouseAssumption

-----------------------------------------------------------------------------
(* Amounts of goods in a set.                                                *)

Counted(S) == IsFiniteSet(S) /\ \A x \in S : x.n \in Int
Weigh(g, x) == IF x.good = g THEN x.n ELSE 0
OfGood(g, S) == {x \in S : x.good = g}

LEMMA OfGoodFinite ==
    ASSUME NEW S, Counted(S), NEW g
    PROVE  OfGood(g, S) \in FiniteSubsetsOf(S)
<1>1. OfGood(g, S) \in SUBSET S
    BY DEF OfGood
<1>. QED
    BY <1>1, FS_Subset DEF Counted, FiniteSubsetsOf

\* An amount is the sum of the counts of the things of that good, over whatever larger
\* set the counts are taken.
LEMMA AmountIsSum ==
    ASSUME NEW D, Counted(D), NEW S \in SUBSET D, NEW g
    PROVE  Amount(g, S) = SumFunctionOnSet([x \in D |-> x.n], OfGood(g, S))
<1> DEFINE f == [x \in S |-> x.n]
           h == [x \in D |-> x.n]
<1>1. Counted(S)
    BY FS_Subset DEF Counted
<1>2. \A x \in S : f[x] = h[x]
    OBVIOUS
<1>3. OfGood(g, S) \in FiniteSubsetsOf(S)
    BY <1>1, OfGoodFinite
<1>4. SumFunctionOnSet(f, OfGood(g, S)) = SumFunctionOnSet(h, OfGood(g, S))
    <2> HIDE DEF f, h
    <2>. QED
        BY <1>2, <1>3, SumEqual
<1>5. Amount(g, S) = SumFunctionOnSet(f, OfGood(g, S))
    BY DEF Amount, OfGood
<1>. QED
    BY <1>4, <1>5

LEMMA AmountType ==
    ASSUME NEW S, Counted(S), NEW g
    PROVE  Amount(g, S) \in Int
<1> DEFINE f == [x \in S |-> x.n]
<1>1. \A x \in S : f[x] \in Int
    BY DEF Counted
<1>2. OfGood(g, S) \in FiniteSubsetsOf(S)
    BY OfGoodFinite
<1>3. SumFunctionOnSet(f, OfGood(g, S)) \in Int
    <2> HIDE DEF f
    <2>. QED
        BY <1>1, <1>2, SumType
<1>4. S \in SUBSET S
    OBVIOUS
<1>. QED
    BY <1>3, <1>4, AmountIsSum

\* One more thing adds its count to the amount of its good.
LEMMA AmountMore ==
    ASSUME NEW S, Counted(S), NEW x, x \notin S, x.n \in Int, NEW g
    PROVE  /\ Counted(S \cup {x})
           /\ Amount(g, S \cup {x}) = Amount(g, S) + Weigh(g, x)
<1> DEFINE D == S \cup {x}
           f == [y \in D |-> y.n]
<1>1. Counted(D)
    BY FS_AddElement DEF Counted
<1>2. S \in SUBSET D /\ D \in SUBSET D /\ x \in D
    OBVIOUS
<1>3. /\ Amount(g, S) = SumFunctionOnSet(f, OfGood(g, S))
      /\ Amount(g, D) = SumFunctionOnSet(f, OfGood(g, D))
    <2> HIDE DEF D
    <2>. QED
        BY <1>1, <1>2, AmountIsSum
<1>4. \A y \in D : f[y] \in Int
    BY <1>1 DEF Counted
<1>5. f[x] = x.n
    BY <1>2
<1>6. OfGood(g, S) \in FiniteSubsetsOf(D) /\ x \notin OfGood(g, S)
    <2>1. OfGood(g, S) \in SUBSET S /\ IsFiniteSet(OfGood(g, S))
        BY OfGoodFinite DEF FiniteSubsetsOf
    <2>. QED
        BY <1>2, <2>1 DEF FiniteSubsetsOf
<1>7. Amount(g, S) \in Int
    BY AmountType
<1>8. CASE x.good = g
    <2>1. OfGood(g, D) = OfGood(g, S) \cup {x}
        BY <1>8 DEF OfGood
    <2>2. SumFunctionOnSet(f, OfGood(g, S) \cup {x}) = f[x] + SumFunctionOnSet(f, OfGood(g, S))
        <3> HIDE DEF D, f
        <3>. QED
            BY <1>2, <1>4, <1>6, SumAdd
    <2>3. Amount(g, D) = x.n + Amount(g, S)
        BY ONLY <1>3, <1>5, <2>1, <2>2
    <2>. QED
        BY <1>1, <1>7, <1>8, <2>3 DEF Weigh
<1>9. CASE x.good # g
    <2>1. OfGood(g, D) = OfGood(g, S)
        BY <1>9 DEF OfGood
    <2>2. Amount(g, D) = Amount(g, S)
        BY ONLY <1>3, <2>1
    <2>. QED
        BY <1>1, <1>7, <1>9, <2>2 DEF Weigh
<1>. QED
    BY <1>8, <1>9

LEMMA AmountLess ==
    ASSUME NEW S, Counted(S), NEW x \in S, NEW g
    PROVE  /\ Counted(S \ {x})
           /\ Amount(g, S \ {x}) = Amount(g, S) - Weigh(g, x)
<1> DEFINE R == S \ {x}
<1>1. Counted(R) /\ x.n \in Int
    BY FS_RemoveElement DEF Counted
<1>2. R \cup {x} = S /\ x \notin R
    OBVIOUS
<1>3. Amount(g, R \cup {x}) = Amount(g, R) + Weigh(g, x)
    <2> HIDE DEF R
    <2>. QED
        BY <1>1, <1>2, AmountMore
<1>4. Amount(g, R) \in Int /\ Weigh(g, x) \in Int
    <2> HIDE DEF R
    <2>. QED
        BY <1>1, AmountType DEF Weigh
<1>5. Amount(g, S) = Amount(g, R) + Weigh(g, x)
    BY ONLY <1>2, <1>3
<1>. QED
    BY <1>1, <1>4, <1>5

\* One thing put in the place of another.
LEMMA AmountSwap ==
    ASSUME NEW S, Counted(S), NEW x \in S, NEW y, y \notin S \ {x}, y.n \in Int, NEW g
    PROVE  /\ Counted((S \ {x}) \cup {y})
           /\ Amount(g, (S \ {x}) \cup {y}) = (Amount(g, S) - Weigh(g, x)) + Weigh(g, y)
<1> DEFINE R == S \ {x}
<1>1. Counted(R) /\ Amount(g, R) = Amount(g, S) - Weigh(g, x)
    BY AmountLess
<1>2. Counted(R \cup {y}) /\ Amount(g, R \cup {y}) = Amount(g, R) + Weigh(g, y)
    <2>1. y \notin R
        OBVIOUS
    <2> HIDE DEF R
    <2>. QED
        BY <1>1, <2>1, AmountMore
<1>. QED
    BY <1>1, <1>2

LEMMA AmountOfNothing == \A g : Amount(g, {}) = 0 /\ Counted({})
<1>1. Counted({})
    BY FS_EmptySet DEF Counted
<1>2. ASSUME NEW g
      PROVE  Amount(g, {}) = 0
    <2>1. {} \in SUBSET {} /\ OfGood(g, {}) = {}
        BY DEF OfGood
    <2>2. Amount(g, {}) = SumFunctionOnSet([x \in {} |-> x.n], OfGood(g, {}))
        BY <1>1, <2>1, AmountIsSum
    <2>3. SumFunctionOnSet([x \in {} |-> x.n], {}) = 0
        BY SumEmpty
    <2>. QED
        BY ONLY <2>1, <2>2, <2>3
<1>. QED
    BY <1>1, <1>2

\* A sum over all players changes by what the value of one does.
LEMMA SumChanges ==
    ASSUME NEW f \in [Player -> Int], NEW h \in [Player -> Int], NEW p \in Player,
           \A q \in Player \ {p} : f[q] = h[q]
    PROVE  /\ SumFunction(f) \in Int
           /\ SumFunction(h) = (SumFunction(f) - f[p]) + h[p]
<1> DEFINE R == Player \ {p}
<1>1. /\ SumFunction(f) = SumFunctionOnSet(f, Player)
      /\ SumFunction(h) = SumFunctionOnSet(h, Player)
    BY DEF SumFunction
<1>2. /\ \A q \in Player : f[q] \in Int /\ h[q] \in Int
      /\ \A q \in R : f[q] = h[q]
    OBVIOUS
<1>3. R \in FiniteSubsetsOf(Player) /\ R \in FiniteSubsetsOf(R) /\ p \notin R
      /\ R \cup {p} = Player
    BY FS_Subset DEF FiniteSubsetsOf
<1> HIDE DEF R
<1>4. /\ SumFunctionOnSet(f, R \cup {p}) = f[p] + SumFunctionOnSet(f, R)
      /\ SumFunctionOnSet(h, R \cup {p}) = h[p] + SumFunctionOnSet(h, R)
    BY <1>2, <1>3, SumAdd
<1>5. SumFunctionOnSet(f, R) = SumFunctionOnSet(h, R)
    BY <1>2, <1>3, SumEqual
<1>6. SumFunctionOnSet(f, R) \in Int
    BY <1>2, <1>3, SumType
<1>7. /\ SumFunction(f) = f[p] + SumFunctionOnSet(f, R)
      /\ SumFunction(h) = h[p] + SumFunctionOnSet(f, R)
    BY ONLY <1>1, <1>3, <1>4, <1>5
<1>. QED
    BY <1>2, <1>6, <1>7

-----------------------------------------------------------------------------
(* What holds of the things in an inventory while nothing has gone wrong, and *)
(* what taking, putting and paying make of them.                             *)

\* An inventory is finite, and gold is in one slot.
GoodBag(b) ==
    /\ IsFiniteSet(b) /\ b \subseteq Slot
    /\ \A x, y \in b : x.good = Gold /\ y.good = Gold => x = y

NewSlot(id, g, n) == [obj |-> id, good |-> g, n |-> n]
With(x, n) == [x EXCEPT !.n = n]
Swapped(b, x, n) == (b \ {x}) \cup {With(x, n)}
FeeIn(g) == IF g = Gold THEN Fee ELSE 0
Paid(b) == {x \in b : x.good # Gold}
              \cup {[x EXCEPT !.n = @ - Fee] : x \in {y \in b : y.good = Gold /\ y.n > Fee}}

LEMMA WithSlot ==
    ASSUME NEW x \in Slot, NEW n \in Nat
    PROVE  /\ With(x, n) \in Slot /\ With(x, n).n = n
           /\ With(x, n).good = x.good /\ With(x, n).obj = x.obj
BY DEF With, Slot

LEMMA GoodBagCounted ==
    ASSUME NEW b, GoodBag(b)
    PROVE  Counted(b)
BY DEF GoodBag, Counted, Slot

\* A slot of a good bag may be replaced by a fuller or emptier one of the same good.
LEMMA BagSwap ==
    ASSUME NEW b, GoodBag(b), NEW x \in b, x.good = Gold, NEW n \in Nat, NEW g
    PROVE  /\ GoodBag(Swapped(b, x, n))
           /\ Amount(g, Swapped(b, x, n)) = Amount(g, b) + (IF g = Gold THEN n - x.n ELSE 0)
<1> DEFINE y == With(x, n)
           c == (b \ {x}) \cup {y}
<1>1. x \in Slot /\ x.n \in Nat
    BY DEF GoodBag, Slot
<1>2. y \in Slot /\ y.n = n /\ y.good = Gold
    BY <1>1, WithSlot
<1> HIDE DEF y
<1>3. y \notin b \ {x}
    BY <1>2 DEF GoodBag
<1>4. Counted(b) /\ y.n \in Int
    BY <1>2, GoodBagCounted
<1>5. Amount(g, c) = (Amount(g, b) - Weigh(g, x)) + Weigh(g, y) /\ Counted(c)
    BY <1>3, <1>4, AmountSwap
<1>6. Amount(g, b) \in Int
    BY <1>4, AmountType
<1>7. Amount(g, c) = Amount(g, b) + (IF g = Gold THEN n - x.n ELSE 0)
    BY <1>1, <1>2, <1>5, <1>6 DEF Weigh
<1>8. c \subseteq Slot
    BY <1>2 DEF GoodBag
<1>9. \A z, w \in c : z.good = Gold /\ w.good = Gold => z = w
    BY <1>2 DEF GoodBag
<1>. QED
    BY <1>5, <1>7, <1>8, <1>9 DEF GoodBag, Counted, y, Swapped

LEMMA BagWithout ==
    ASSUME NEW b, GoodBag(b), NEW x \in b, NEW g
    PROVE  /\ GoodBag(b \ {x})
           /\ Amount(g, b \ {x}) = Amount(g, b) - Weigh(g, x)
<1>1. Counted(b)
    BY GoodBagCounted
<1>2. /\ Counted(b \ {x})
      /\ Amount(g, b \ {x}) = Amount(g, b) - Weigh(g, x)
    BY <1>1, AmountLess
<1>. QED
    BY <1>2 DEF GoodBag, Counted

\* RemoveItem takes n of what is in the slot.
LEMMA TakeEffect ==
    ASSUME NEW b, GoodBag(b), NEW x \in b, NEW n \in Part(x), NEW g
    PROVE  /\ GoodBag(Take(b, x, n))
           /\ Amount(g, Take(b, x, n)) = Amount(g, b) - (IF g = x.good THEN n ELSE 0)
           /\ \A z \in Take(b, x, n) : z \in b \/ z.n > 0
<1>1. x \in Slot /\ x.n \in Nat /\ n \in 0..x.n /\ (n = x.n \/ x.good = Gold)
    BY DEF GoodBag, Slot, Part
<1>2. Amount(g, b) \in Int
    BY GoodBagCounted, AmountType
<1>3. CASE x.good = Gold /\ x.n > n
    <2>1. Take(b, x, n) = Swapped(b, x, x.n - n)
        BY <1>3 DEF Take, With, Swapped
    <2>2. x.n - n \in Nat /\ x.n - n > 0
        BY <1>1, <1>3
    <2>3. With(x, x.n - n).n > 0
        BY <1>1, <2>2, WithSlot
    <2>4. /\ GoodBag(Take(b, x, n))
          /\ Amount(g, Take(b, x, n)) = Amount(g, b) + (IF g = Gold THEN (x.n - n) - x.n ELSE 0)
        BY <1>3, <2>1, <2>2, BagSwap
    <2>. QED
        BY <1>1, <1>2, <1>3, <2>1, <2>3, <2>4 DEF Swapped
<1>4. CASE ~(x.good = Gold /\ x.n > n)
    <2>1. Take(b, x, n) = b \ {x}
        BY <1>4 DEF Take
    <2>2. n = x.n
        BY <1>1, <1>4
    <2>3. GoodBag(b \ {x}) /\ Amount(g, b \ {x}) = Amount(g, b) - Weigh(g, x)
        BY BagWithout
    <2>. QED
        BY <1>1, <1>2, <2>1, <2>2, <2>3 DEF Weigh
<1>. QED
    BY <1>3, <1>4

\* AddItemWithID adds n of g, to the gold there is or in a slot of its own.
LEMMA PutEffect ==
    ASSUME NEW b, GoodBag(b), NEW id \in 1..MaxObj, NEW g \in Good, NEW n \in Nat,
           g \in Arms => \A x \in b : x.obj # id,
           NEW h
    PROVE  /\ GoodBag(Put(b, id, g, n))
           /\ Amount(h, Put(b, id, g, n)) = Amount(h, b) + (IF h = g THEN n ELSE 0)
           /\ n > 0 => \A z \in Put(b, id, g, n) : z \in b \/ z.n > 0
<1> DEFINE new == NewSlot(id, g, n)
           same == {x \in b : g = Gold /\ x.good = g}
<1>1. new \in Slot /\ new.n = n /\ new.good = g /\ new.obj = id
    BY DEF NewSlot, Slot
<1>2. Amount(h, b) \in Int /\ Counted(b)
    BY GoodBagCounted, AmountType
<1>3. CASE same = {}
    <2>1. Put(b, id, g, n) = b \cup {new}
        BY <1>3 DEF Put, NewSlot
    <2>2. new \notin b
        <3>1. CASE g = Gold
            BY <1>1, <1>3, <3>1
        <3>2. CASE g \in Arms
            BY <1>1, <3>2
        <3>. QED
            BY <3>1, <3>2 DEF Good
    <2> HIDE DEF new
    <2>3. Counted(b \cup {new}) /\ Amount(h, b \cup {new}) = Amount(h, b) + Weigh(h, new)
        BY <1>1, <1>2, <2>2, AmountMore
    <2>4. b \cup {new} \subseteq Slot
        BY <1>1 DEF GoodBag
    <2>5. \A x, y \in b \cup {new} : x.good = Gold /\ y.good = Gold => x = y
        BY <1>1, <1>3 DEF GoodBag
    <2>. QED
        BY <1>1, <2>1, <2>3, <2>4, <2>5 DEF GoodBag, Counted, Weigh, new
<1>4. CASE same # {}
    <2>1. PICK x \in b : g = Gold /\ x.good = Gold
        BY <1>4
    <2>2. same = {x}
        BY <2>1 DEF GoodBag
    <2>3. x \in Slot /\ x.n \in Nat
        BY DEF GoodBag, Slot
    <2> DEFINE m == x.n + n
    <2>4. Put(b, id, g, n) = Swapped(b, x, m)
        BY <2>2 DEF Put, With, Swapped
    <2>5. m \in Nat /\ m - x.n = n /\ (n > 0 => m > 0)
        BY <2>3
    <2> HIDE DEF m
    <2>6. /\ GoodBag(Swapped(b, x, m))
          /\ Amount(h, Swapped(b, x, m)) = Amount(h, b) + (IF h = Gold THEN m - x.n ELSE 0)
        BY <2>1, <2>5, BagSwap
    <2>7. With(x, m).n = m
        BY <2>3, <2>5, WithSlot
    <2>. QED
        BY <2>1, <2>4, <2>5, <2>6, <2>7 DEF Swapped
<1>. QED
    BY <1>3, <1>4

\* All the gold there is, is in one slot.
LEMMA GoldInOneSlot ==
    ASSUME NEW b, GoodBag(b)
    PROVE  /\ \A x \in b : x.good = Gold => Amount(Gold, b) = x.n
           /\ (\A x \in b : x.good # Gold) => Amount(Gold, b) = 0
<1> DEFINE f == [x \in b |-> x.n]
<1>1. Counted(b) /\ b \in SUBSET b
    BY GoodBagCounted
<1>2. Amount(Gold, b) = SumFunctionOnSet(f, OfGood(Gold, b))
    BY <1>1, AmountIsSum
<1>3. ASSUME NEW x \in b, x.good = Gold
      PROVE  Amount(Gold, b) = x.n
    <2>1. OfGood(Gold, b) = {} \cup {x}
        BY <1>3 DEF OfGood, GoodBag
    <2>2. {} \in FiniteSubsetsOf(b)
        BY FS_EmptySet DEF FiniteSubsetsOf
    <2>3. \A y \in b : f[y] \in Int
        BY <1>1 DEF Counted
    <2>4. f[x] = x.n
        OBVIOUS
    <2> HIDE DEF f
    <2>5. SumFunctionOnSet(f, {} \cup {x}) = f[x] + SumFunctionOnSet(f, {})
        BY <2>2, <2>3, SumAdd
    <2>6. SumFunctionOnSet(f, {}) = 0
        BY SumEmpty
    <2>7. Amount(Gold, b) = x.n + 0
        BY ONLY <1>2, <2>1, <2>4, <2>5, <2>6
    <2>8. x.n \in Int
        BY <1>1 DEF Counted
    <2>. QED
        BY <2>7, <2>8
<1>4. ASSUME \A x \in b : x.good # Gold
      PROVE  Amount(Gold, b) = 0
    <2>1. OfGood(Gold, b) = {}
        BY <1>4 DEF OfGood
    <2>2. SumFunctionOnSet(f, {}) = 0
        BY SumEmpty
    <2>. QED
        BY ONLY <1>2, <2>1, <2>2
<1>. QED
    BY <1>3, <1>4

\* Who can pay has paid.
LEMMA PaidEffect ==
    ASSUME NEW b, GoodBag(b), Amount(Gold, b) >= Fee, NEW g
    PROVE  /\ GoodBag(Paid(b))
           /\ Amount(g, Paid(b)) = Amount(g, b) - FeeIn(g)
           /\ \A z \in Paid(b) : z \in b \/ z.n > 0
<1>1. Amount(g, b) \in Int
    BY GoodBagCounted, AmountType
<1>2. CASE \A x \in b : x.good # Gold
    <2>1. Paid(b) = b
        BY <1>2 DEF Paid
    <2>2. Fee = 0
        BY <1>2, GoldInOneSlot
    <2>. QED
        BY <1>1, <2>1, <2>2 DEF FeeIn
<1>3. ASSUME NEW x \in b, x.good = Gold
      PROVE  /\ GoodBag(Paid(b))
             /\ Amount(g, Paid(b)) = Amount(g, b) - FeeIn(g)
             /\ \A z \in Paid(b) : z \in b \/ z.n > 0
    <2>1. x.n \in Nat /\ x \in Slot /\ x.n >= Fee
        BY <1>3, GoldInOneSlot DEF GoodBag, Slot
    <2>2. {y \in b : y.good # Gold} = b \ {x}
        BY <1>3 DEF GoodBag
    <2>3. CASE x.n > Fee
        <3>1. {y \in b : y.good = Gold /\ y.n > Fee} = {x}
            BY <1>3, <2>3 DEF GoodBag
        <3> DEFINE m == x.n - Fee
        <3>2. Paid(b) = Swapped(b, x, m)
            BY <2>2, <3>1 DEF Paid, With, Swapped
        <3>3. m \in Nat /\ m > 0 /\ m - x.n = 0 - Fee
            BY <2>1, <2>3
        <3> HIDE DEF m
        <3>4. With(x, m).n = m
            BY <2>1, <3>3, WithSlot
        <3>5. /\ GoodBag(Swapped(b, x, m))
              /\ Amount(g, Swapped(b, x, m)) = Amount(g, b) + (IF g = Gold THEN m - x.n ELSE 0)
            BY <1>3, <3>3, BagSwap
        <3>. QED
            BY <1>1, <3>2, <3>3, <3>4, <3>5 DEF FeeIn, Swapped
    <2>4. CASE x.n = Fee
        <3>1. {y \in b : y.good = Gold /\ y.n > Fee} = {}
            BY <1>3, <2>1, <2>4 DEF GoodBag
        <3>2. Paid(b) = b \ {x}
            BY <2>2, <3>1 DEF Paid
        <3>3. GoodBag(b \ {x}) /\ Amount(g, b \ {x}) = Amount(g, b) - Weigh(g, x)
            BY BagWithout
        <3>. QED
            BY <1>3, <2>4, <3>2, <3>3 DEF Weigh, FeeIn
    <2>. QED
        BY <2>1, <2>3, <2>4
<1>. QED
    BY <1>2, <1>3

-----------------------------------------------------------------------------
(* Types, the game loop's work, the numbers of rows, the lock: what holds    *)
(* whether or not something has failed.                                      *)

\* The packet the loop is at is that of a player in the world who looks at the store.
AtWork ==
    work = Idle \/ /\ work.who \in online /\ work.store \in {work.who, Clan}
                   /\ cache[work.who].store = work.store

\* Every row has a number of its own, of those that were given out.
RowIds ==
    /\ \A r, t \in rows : r.row = t.row => r = t
    /\ \A r \in rows : r.row <= nextRow

Frame == Types /\ AtWork /\ RowIds /\ LockIsReleased

LEMMA BoundedMax ==
    ASSUME NEW N \in Nat, NEW S \in SUBSET (0..N), S # {}
    PROVE  Max(S) \in S
<1> DEFINE Top(T) == \E x \in T : \A y \in T : x >= y
           G == {T \in FiniteSubsetsOf(0..N) : T = {} \/ Top(T)}
<1>1. {} \in G
    BY FS_EmptySet DEF FiniteSubsetsOf
<1>2. ASSUME NEW T \in FiniteSubsetsOf(0..N), T # {}, \A R \in SUBSET T : R # T => R \in G
      PROVE  T \in G
    <2>1. PICK x \in T : TRUE
        BY <1>2
    <2>2. T \ {x} \in G
        <3>1. T \ {x} \in SUBSET T /\ T \ {x} # T
            BY <2>1
        <3>. QED
            BY <1>2, <3>1
    <2>3. T \subseteq Int
        BY DEF FiniteSubsetsOf
    <2>4. CASE T \ {x} = {}
        <3>1. \A y \in T : x >= y
            BY <2>3, <2>4
        <3>. QED
            BY <3>1
    <2>5. CASE T \ {x} # {}
        <3>1. PICK m \in T \ {x} : \A y \in T \ {x} : m >= y
            BY <2>2, <2>5
        <3>2. (\A y \in T : x >= y) \/ (\A y \in T : m >= y)
            BY <2>3, <3>1
        <3>. QED
            BY <3>1, <3>2
    <2>. QED
        BY <2>4, <2>5
<1>3. FiniteSubsetsOf(0..N) \subseteq G
    <2> HIDE DEF G
    <2>. QED
        BY <1>1, <1>2, FiniteInduction
<1>4. S \in FiniteSubsetsOf(0..N)
    <2>1. IsFiniteSet(0..N)
        BY FS_Interval
    <2>2. IsFiniteSet(S)
        BY <2>1, FS_Subset
    <2>. QED
        BY <2>2 DEF FiniteSubsetsOf
<1>5. \E x \in S : \A y \in S : x >= y
    BY <1>3, <1>4
<1>. QED
    BY <1>5 DEF Max

LEMMA MaxObjIDType ==
    ASSUME Types
    PROVE  MaxObjID \in 0..MaxObj
<1> DEFINE S == {0} \cup {x.obj : x \in UNION {saved[p] : p \in Player}}
<1>1. S \in SUBSET (0..MaxObj) /\ S # {}
    BY DEF Types, Slot
<1> HIDE DEF S
<1>2. Max(S) \in S
    BY <1>1, BoundedMax
<1>. QED
    BY <1>1, <1>2 DEF MaxObjID, S

LEMMA TakeType ==
    ASSUME NEW b \in SUBSET Slot, NEW x \in b, NEW n \in Part(x)
    PROVE  Take(b, x, n) \in SUBSET Slot
<1>1. x \in Slot /\ x.n \in Nat /\ n \in 0..x.n
    BY DEF Slot, Part
<1>2. CASE x.n > n
    <2>1. x.n - n \in Nat
        BY <1>1, <1>2
    <2>2. [x EXCEPT !.n = @ - n] \in Slot
        BY <1>1, <2>1 DEF Slot
    <2>. QED
        BY <2>2 DEF Take
<1>. QED
    BY <1>2 DEF Take

\* What is given is entered for who gives it, and for the good it is of.
LEMMA GiveType ==
    ASSUME Types, NEW p \in Player, NEW g \in Good, NEW n \in Int, unsaved' = Give(p, g, n)
    PROVE  /\ unsaved' \in [Player -> [Good -> Int]]
           /\ \A h \in Good : unsaved'[p][h] = unsaved[p][h] + (IF h = g THEN n ELSE 0)
           /\ \A q \in Player \ {p} : unsaved'[q] = unsaved[q]
<1>1. unsaved \in [Player -> [Good -> Int]]
    BY DEF Types
<1> DEFINE b == [unsaved[p] EXCEPT ![g] = @ + n]
<1>2. unsaved' = [unsaved EXCEPT ![p] = b]
    BY <1>1 DEF Give
<1>3. b \in [Good -> Int] /\ \A h \in Good : b[h] = unsaved[p][h] + (IF h = g THEN n ELSE 0)
    BY <1>1
<1> HIDE DEF b
<1>. QED
    BY <1>1, <1>2, <1>3

LEMMA RepaidType ==
    ASSUME owed \in SUBSET Row, NEW r \in Row, NEW n \in Nat
    PROVE  Repaid(r, n) \in SUBSET Row
<1>1. \A o \in owed : [o EXCEPT !.n = @ - (n - r.n)] \in Row
    BY DEF Row
<1>. QED
    BY <1>1 DEF Repaid

LEMMA NothingIs == Nothing \in [Good -> Int] /\ \A g \in Good : Nothing[g] = 0
BY DEF Nothing

LEMMA PutType ==
    ASSUME NEW b \in SUBSET Slot, NEW id \in 1..MaxObj, NEW g \in Good, NEW n \in Nat
    PROVE  Put(b, id, g, n) \in SUBSET Slot
<1>1. [obj |-> id, good |-> g, n |-> n] \in Slot
    BY DEF Slot
<1>2. \A x \in b : [x EXCEPT !.n = @ + n] \in Slot
    BY DEF Slot
<1>. QED
    BY <1>1, <1>2 DEF Put

LEMMA PaidType ==
    ASSUME NEW b \in SUBSET Slot
    PROVE  Paid(b) \in SUBSET Slot
<1>1. ASSUME NEW x \in b, x.n > Fee
      PROVE  [x EXCEPT !.n = @ - Fee] \in Slot
    <2>1. x.n - Fee \in Nat
        BY <1>1 DEF Slot
    <2>. QED
        BY <2>1 DEF Slot
<1>. QED
    BY <1>1 DEF Paid

\* The fee is taken or not.
LEMMA PayFeeIs ==
    ASSUME PayFee(work.who), Types, work.who \in Player
    PROVE  \/ inv' = [inv EXCEPT ![work.who] = Paid(inv[work.who])] /\ fees' = fees + Fee
              /\ unsaved' = Give(work.who, Gold, Fee) /\ work.out /\ work.moved
           \/ UNCHANGED <<inv, fees, unsaved>>
BY DEF PayFee, Paid, Types

\* Reading a list for a player in the world.
LEMMA LoadType ==
    ASSUME Types, NEW p \in online, NEW s \in {p, Clan}
    PROVE  /\ Load(p, s) \in [Player -> [store : Player \cup {Clan, NoPlayer}, list : SUBSET Row]]
           /\ Load(p, s)[p] = [store |-> s, list |-> RowsOf(KeyOf(p, s))]
           /\ \A q \in Player \ {p} : Load(p, s)[q] = cache[q]
           /\ \A q \in Player \ online : Load(p, s)[q] = Closed
<1>1. RowsOf(KeyOf(p, s)) \in SUBSET Row /\ p \in Player
    BY DEF RowsOf, Types
<1>. QED
    BY <1>1 DEF Load, Types

LEMMA IdleIs == Idle.who = NoPlayer /\ Idle.store = NoPlayer /\ Idle.out = FALSE
BY DEF Idle

-----------------------------------------------------------------------------
LEMMA OpenFrame ==
    ASSUME Frame, NEW p \in Player,
           \/ OpenWarehouse(p) \/ OpenClanWarehouse(p) \/ ReleaseClanWarehouse(p)
           \/ \E s \in {p, Clan} : BeginDeposit(p, s) \/ BeginWithdraw(p, s)
    PROVE  Frame'
<1>1. CASE OpenWarehouse(p)
    <2>1. cache' = Load(p, p) /\ p \in online /\ p \in {p, Clan}
        BY <1>1 DEF OpenWarehouse, Ready
    <2>2. /\ cache' \in [Player -> [store : Player \cup {Clan, NoPlayer}, list : SUBSET Row]]
          /\ \A q \in Player \ online : cache'[q] = Closed
        BY <2>1, LoadType DEF Frame
    <2>3. Types'
        BY <1>1, <2>2 DEF OpenWarehouse, Frame, Types, history, ledger, disk
    <2>. QED
        BY <1>1, <2>3 DEF OpenWarehouse, Frame, AtWork, RowIds, LockIsReleased, history, ledger, disk, Ready
<1>2. CASE OpenClanWarehouse(p)
    <2>1. cache' = Load(p, Clan) /\ p \in online /\ Clan \in {p, Clan}
        BY <1>2 DEF OpenClanWarehouse, Ready
    <2>2. /\ cache' \in [Player -> [store : Player \cup {Clan, NoPlayer}, list : SUBSET Row]]
          /\ \A q \in Player \ online : cache'[q] = Closed
        BY <2>1, LoadType DEF Frame
    <2>3. Types'
        BY <1>2, <2>2 DEF OpenClanWarehouse, Frame, Types, disk, ledger
    <2>. QED
        BY <1>2, <2>3 DEF OpenClanWarehouse, Frame, AtWork, RowIds, LockIsReleased, disk, Ready
<1>3. CASE ReleaseClanWarehouse(p)
    <2>1. Types'
        BY <1>3 DEF ReleaseClanWarehouse, Release, Frame, Types, history, ledger, disk, Ready
    <2>. QED
        BY <1>3, <2>1
        DEF ReleaseClanWarehouse, Release, Frame, AtWork, RowIds, LockIsReleased, history, ledger, disk, Ready
<1>4. ASSUME NEW s \in {p, Clan}, BeginDeposit(p, s)
      PROVE  Frame'
    <2>1. cache' \in [Player -> [store : Player \cup {Clan, NoPlayer}, list : SUBSET Row]]
          /\ cache'[p].store = s /\ \A q \in Player \ online : cache'[q] = Closed
        <3>1. p \in online /\ ((cache' = cache /\ cache[p].store = s) \/ cache' = Load(p, s))
            BY <1>4 DEF BeginDeposit, Ready
        <3>2. CASE cache' = cache /\ cache[p].store = s
            BY <3>2 DEF Frame, Types
        <3>3. CASE cache' = Load(p, s)
            <4>1. p \in online /\ s \in {p, Clan} /\ Types
                BY <3>1 DEF Frame
            <4>2. /\ Load(p, s) \in [Player -> [store : Player \cup {Clan, NoPlayer}, list : SUBSET Row]]
                  /\ Load(p, s)[p] = [store |-> s, list |-> RowsOf(KeyOf(p, s))]
                  /\ \A q \in Player \ online : Load(p, s)[q] = Closed
                BY <4>1, LoadType
            <4>. QED
                BY <3>3, <4>2
        <3>. QED
            BY <3>1, <3>2, <3>3
    <2>2. Types'
        BY <1>4, <2>1 DEF BeginDeposit, Frame, Types, history, ledger, disk, Ready
    <2>3. AtWork'
        BY <1>4, <2>1 DEF BeginDeposit, AtWork, Ready
    <2>. QED
        BY <1>4, <2>2, <2>3 DEF BeginDeposit, Frame, RowIds, LockIsReleased, history, ledger, disk
<1>5. ASSUME NEW s \in {p, Clan}, BeginWithdraw(p, s)
      PROVE  Frame'
    <2>1. Types'
        BY <1>5 DEF BeginWithdraw, Frame, Types, history, ledger, disk, Ready
    <2>2. AtWork'
        BY <1>5 DEF BeginWithdraw, AtWork, Ready
    <2>. QED
        BY <1>5, <2>1, <2>2 DEF BeginWithdraw, Frame, RowIds, LockIsReleased, history, ledger, disk
<1>. QED
    BY <1>1, <1>2, <1>3, <1>4, <1>5

LEMMA LeaveFrame ==
    ASSUME Frame, NEW p \in Player,
           \/ LeaveClan(p) \/ BanMember(p)
           \/ HandleDisconnect(p) \/ HandleChangeChar(p) \/ EnterWorld(p)
    PROVE  Frame'
<1>1. CASE LeaveClan(p)
    <2>1. Types'
        BY <1>1 DEF LeaveClan, Release, Mishap, Frame, Types, disk, ledger, Ready
    <2>. QED
        BY <1>1, <2>1 DEF LeaveClan, Release, Frame, AtWork, RowIds, LockIsReleased, disk, Ready
<1>2. CASE BanMember(p)
    <2>1. Types'
        BY <1>2 DEF BanMember, Frame, Types, disk, ledger, Ready
    <2>. QED
        BY <1>2, <2>1 DEF BanMember, Frame, AtWork, RowIds, LockIsReleased, disk, Ready
<1>3. CASE HandleDisconnect(p) \/ HandleChangeChar(p)
    <2>1. work = Idle /\ p \in online /\ work' = work /\ Vanish(p)
        BY <1>3 DEF HandleDisconnect, HandleChangeChar, Vanish, Ready
    <2>2. Closed \in [store : Player \cup {Clan, NoPlayer}, list : SUBSET Row]
        BY DEF Closed
    <2>3. lock' \in Player \cup {NoPlayer} /\ leaked' \subseteq Player
        BY <1>3 DEF HandleDisconnect, HandleChangeChar, Release, Frame, Types
    <2>4. Types'
        <3>1. /\ inv' \in [Player -> SUBSET Slot] /\ saved' \in [Player -> SUBSET Slot]
              /\ cache' \in [Player -> [store : Player \cup {Clan, NoPlayer}, list : SUBSET Row]]
            BY <2>1, <2>2 DEF Vanish, Frame, Types
        <3>2. \A q \in Player \ online' : inv'[q] = {} /\ cache'[q] = Closed
            BY <2>1 DEF Vanish, Frame, Types
        <3>3. /\ unsaved' \in [Player -> [Good -> Int]] /\ undone' \in [Player -> [Good -> Int]]
            <4>1. /\ unsaved \in [Player -> [Good -> Int]] /\ undone \in [Player -> [Good -> Int]]
                BY DEF Frame, Types
            <4>2. unsaved' = [unsaved EXCEPT ![p] = Nothing]
                BY <2>1 DEF Vanish
            <4>3. \/ undone' = undone
                  \/ undone' = [undone EXCEPT ![p] = [g \in Good |-> undone[p][g] + unsaved[p][g]]]
                BY <2>1, <4>1 DEF Vanish
            <4>4. [g \in Good |-> undone[p][g] + unsaved[p][g]] \in [Good -> Int]
                BY <4>1
            <4>. QED
                BY <4>1, <4>2, <4>3, <4>4, NothingIs
        <3>4. mishaps' \in 0..MaxMishaps
            <4>1. mishaps' = mishaps \/ (mishaps < MaxMishaps /\ mishaps' = mishaps + 1)
                BY <2>1 DEF Vanish, Mishap
            <4>2. mishaps \in 0..MaxMishaps /\ MaxMishaps \in Nat
                BY DEF Frame, Types
            <4>. QED
                BY ONLY <4>1, <4>2
        <3>. QED
            BY <2>1, <2>3, <3>1, <3>2, <3>3, <3>4 DEF Vanish, Frame, Types
    <2>5. LockIsReleased'
        BY <1>3 DEF HandleDisconnect, HandleChangeChar, Vanish, Release, Frame, LockIsReleased
    <2>. QED
        BY <2>1, <2>4, <2>5 DEF Vanish, Frame, AtWork, RowIds
<1>4. CASE EnterWorld(p)
    <2>0. Closed \in [store : Player \cup {Clan, NoPlayer}, list : SUBSET Row]
        BY DEF Closed
    <2>1. Types'
        BY <1>4, <2>0 DEF EnterWorld, Frame, Types, history, ledger, disk
    <2>. QED
        BY <1>4, <2>1 DEF EnterWorld, Frame, AtWork, RowIds, LockIsReleased, history, ledger, disk
<1>. QED
    BY <1>1, <1>2, <1>3, <1>4


-----------------------------------------------------------------------------
(* Orders.                                                                   *)

\* A row with another count in it.
LEMMA WithRow ==
    ASSUME NEW r \in Row, NEW n \in Int
    PROVE  /\ With(r, n) \in Row /\ With(r, n).n = n
           /\ With(r, n).row = r.row /\ With(r, n).store = r.store
           /\ With(r, n).obj = r.obj /\ With(r, n).good = r.good
BY DEF With, Row

LEMMA AtWorkIs ==
    ASSUME Frame, NEW p \in Player, work.who = p
    PROVE  /\ p \in online /\ work.store \in {p, Clan} /\ cache[p].store = work.store
           /\ work.store \in Store /\ KeyOf(p, work.store) \in Store
<1>1. work # Idle
    BY IdleIs
<1>2. p \in online /\ work.store \in {p, Clan} /\ cache[p].store = work.store
    BY <1>1 DEF Frame, AtWork
<1>. QED
    BY <1>2 DEF KeyOf, Store

LEMMA SoundType ==
    ASSUME Types, NEW p, NEW s, StillSound(p, s)
    PROVE  sound' \in BOOLEAN /\ (sound' => sound)
<1>1. sound \in BOOLEAN
    BY DEF Types
<1>2. sound' = (sound /\ (s = Clan => lock = p))
    BY DEF StillSound
<1>. QED
    BY ONLY <1>1, <1>2

LEMMA MishapType ==
    ASSUME Types, Mishap \/ UNCHANGED mishaps
    PROVE  mishaps' \in 0..MaxMishaps
BY DEF Types, Mishap

\* Whatever an order makes of rows, list and inventory, types and numbers hold if they
\* hold of these.
LEMMA MoveFrame ==
    ASSUME Frame, NEW p \in Player, work.who = p,
           NEW L \in SUBSET Row, cache' = [cache EXCEPT ![p].list = L],
           NEW b \in SUBSET Slot, inv' = [inv EXCEPT ![p] = b],
           rows' \subseteq Row, RowIds',
           nextObj' \in 0..MaxObj, nextRow' \in 0..MaxRow,
           sound' \in BOOLEAN, mishaps' \in 0..MaxMishaps,
           owed' \in SUBSET Row, unsaved' \in [Player -> [Good -> Int]],
           work' = work \/ work' = [work EXCEPT !.moved = TRUE],
           UNCHANGED <<online, member, lock, saved, leaked, fees, undone>>
    PROVE  Frame'
<1>1. p \in online /\ work.store \in {p, Clan} /\ cache[p].store = work.store
    BY AtWorkIs
<1>2. /\ cache' \in [Player -> [store : Player \cup {Clan, NoPlayer}, list : SUBSET Row]]
      /\ cache'[p].store = cache[p].store
      /\ \A q \in Player \ {p} : cache'[q] = cache[q]
    <2>1. cache \in [Player -> [store : Player \cup {Clan, NoPlayer}, list : SUBSET Row]]
        BY DEF Frame, Types
    <2>. QED
        BY <2>1
<1>3. /\ inv' \in [Player -> SUBSET Slot]
      /\ \A q \in Player \ {p} : inv'[q] = inv[q]
    BY DEF Frame, Types
<1>4. /\ work' \in [who : Player \cup {NoPlayer}, store : Player \cup {Clan, NoPlayer},
                    out : BOOLEAN, moved : BOOLEAN]
      /\ work'.who = work.who /\ work'.store = work.store
    <2>1. work \in [who : Player \cup {NoPlayer}, store : Player \cup {Clan, NoPlayer},
                    out : BOOLEAN, moved : BOOLEAN]
        BY DEF Frame, Types
    <2>2. CASE work' = work
        BY <2>1, <2>2
    <2>3. CASE work' = [work EXCEPT !.moved = TRUE]
        <3>1. work' = [who |-> work.who, store |-> work.store, out |-> work.out, moved |-> TRUE]
            BY <2>1, <2>3
        <3>2. /\ work.who \in Player \cup {NoPlayer} /\ work.store \in Player \cup {Clan, NoPlayer}
              /\ work.out \in BOOLEAN
            BY <2>1
        <3>. QED
            BY ONLY <3>1, <3>2
    <2>. QED
        BY <2>2, <2>3
<1>5. \A q \in Player \ online' : inv'[q] = {} /\ cache'[q] = Closed
    BY <1>1, <1>2, <1>3 DEF Frame, Types
<1>6. Types'
    BY <1>2, <1>3, <1>4, <1>5 DEF Frame, Types
<1>7. AtWork'
    BY <1>1, <1>2, <1>4 DEF AtWork
<1>. QED
    BY <1>6, <1>7 DEF Frame, LockIsReleased

\* Changing the count in a row.
Recount(e, k) == {IF r.row = e.row THEN [r EXCEPT !.n = @ + k] ELSE r : r \in rows}

LEMMA RecountIs ==
    ASSUME Frame, NEW e, NEW k \in Int, rows' = Recount(e, k), nextRow' = nextRow
    PROVE  rows' \subseteq Row /\ RowIds'
<1> DEFINE F(r) == IF r.row = e.row THEN [r EXCEPT !.n = @ + k] ELSE r
<1>1. rows \subseteq Row
    BY DEF Frame, Types
<1>2. \A r \in rows : F(r) \in Row /\ F(r).row = r.row
    BY <1>1 DEF Row
<1>3. rows' = {F(r) : r \in rows}
    BY DEF Recount
<1> HIDE DEF F
<1>4. rows' \subseteq Row
    BY <1>2, <1>3
<1>5. ASSUME NEW r \in rows', NEW t \in rows', r.row = t.row
      PROVE  r = t
    <2>1. PICK a \in rows : r = F(a)
        BY <1>3
    <2>2. PICK b \in rows : t = F(b)
        BY <1>3
    <2>3. a.row = b.row
        BY <1>2, <1>5, <2>1, <2>2
    <2>. QED
        BY <2>1, <2>2, <2>3 DEF Frame, RowIds
<1>6. \A r \in rows' : r.row <= nextRow'
    <2>1. ASSUME NEW r \in rows'
          PROVE  r.row <= nextRow'
        <3>1. PICK a \in rows : r = F(a)
            BY <1>3
        <3>2. r.row = a.row
            BY <1>2, <3>1
        <3>. QED
            BY <3>2 DEF Frame, RowIds
    <2>. QED
        BY <2>1
<1>. QED
    BY <1>4, <1>5, <1>6 DEF RowIds

LEMMA StackFrame ==
    ASSUME Frame, NEW p \in Player, NEW x \in inv[p], NEW n \in Part(x), NEW e \in cache[p].list,
           StackOrder(p, x, n, e)
    PROVE  Frame' /\ (sound' => sound)
<1>1. work.who = p
    BY DEF StackOrder, Depositing
<1>2. p \in online /\ inv[p] \in SUBSET Slot /\ cache[p].list \in SUBSET Row
    BY <1>1, AtWorkIs DEF Frame, Types
<1>3. n \in Nat /\ e \in Row /\ e.n \in Int /\ Gold \in Good
    BY <1>2 DEF Slot, Row, Part, Good
<1>4. rows' \subseteq Row /\ RowIds'
    <2>1. rows' = Recount(e, n) /\ nextRow' = nextRow
        BY DEF StackOrder, Recount
    <2>. QED
        BY <1>3, <2>1, RecountIs
<1>5. Take(inv[p], x, n) \in SUBSET Slot
    BY <1>2, TakeType
<1>6. (cache[p].list \ {e}) \cup {[e EXCEPT !.n = @ + n]} \in SUBSET Row
    <2>1. [e EXCEPT !.n = @ + n] \in Row
        BY <1>3 DEF Row
    <2>. QED
        BY <1>2, <2>1
<1>7. sound' \in BOOLEAN /\ (sound' => sound)
    BY SoundType DEF StackOrder, Frame
<1>8. mishaps' \in 0..MaxMishaps /\ nextObj' \in 0..MaxObj /\ nextRow' \in 0..MaxRow
    BY DEF StackOrder, Frame, Types
<1>9. /\ cache' = [cache EXCEPT ![p].list = (cache[p].list \ {e}) \cup {[e EXCEPT !.n = @ + n]}]
      /\ inv' = [inv EXCEPT ![p] = Take(inv[p], x, n)]
      /\ work' = work
      /\ UNCHANGED <<online, member, lock, saved, leaked, fees, undone>>
    <2>1. cache \in [Player -> [store : Player \cup {Clan, NoPlayer}, list : SUBSET Row]]
          /\ inv \in [Player -> SUBSET Slot]
        BY DEF Frame, Types
    <2>. QED
        BY <2>1 DEF StackOrder
<1>10. owed' \in SUBSET Row /\ unsaved' \in [Player -> [Good -> Int]]
    <2>1. unsaved' = Give(p, Gold, n) /\ owed' = owed
        BY DEF StackOrder
    <2>. QED
        BY <1>3, <2>1, GiveType DEF Frame, Types
<1>11. Frame'
    BY <1>10, <1>1, <1>4, <1>5, <1>6, <1>7, <1>8, <1>9, MoveFrame
<1>. QED
    BY <1>7, <1>11

LEMMA NewRowFrame ==
    ASSUME Frame, NEW p \in Player, NEW x \in inv[p], NEW n \in Part(x), NewRowOrder(p, x, n)
    PROVE  Frame' /\ (sound' => sound)
<1> DEFINE r == [row |-> nextRow + 1, store |-> KeyOf(p, work.store),
                 obj |-> RowNumber(x, n), good |-> x.good, n |-> n]
<1>1. work.who = p
    BY DEF NewRowOrder, Depositing
<1>2. p \in online /\ inv[p] \in SUBSET Slot /\ cache[p].list \in SUBSET Row
      /\ rows \subseteq Row /\ KeyOf(p, work.store) \in Store
    BY <1>1, AtWorkIs DEF Frame, Types
<1>3. n \in Nat /\ x \in Slot /\ x.good \in Good /\ nextRow \in 0..MaxRow /\ nextObj \in 0..MaxObj
    BY <1>2 DEF Slot, Frame, Types, Part
<1>4. RowNumber(x, n) \in 1..MaxObj /\ nextObj' \in 0..MaxObj
    BY <1>3 DEF RowNumber, Slot, NewRowOrder
<1>5. nextRow' = nextRow + 1 /\ nextRow' \in 1..MaxRow
    BY <1>3 DEF NewRowOrder
<1>6. r \in Row
    BY <1>2, <1>3, <1>4, <1>5 DEF Row, Slot
<1>7. /\ rows' = rows \cup {r}
      /\ cache' = [cache EXCEPT ![p].list = cache[p].list \cup {r}]
      /\ inv' = [inv EXCEPT ![p] = Take(inv[p], x, n)]
      /\ work' = work
      /\ UNCHANGED <<online, member, lock, saved, leaked, fees, undone>>
    <2>1. cache \in [Player -> [store : Player \cup {Clan, NoPlayer}, list : SUBSET Row]]
          /\ inv \in [Player -> SUBSET Slot]
        BY DEF Frame, Types
    <2>2. r = [row |-> nextRow', store |-> KeyOf(p, work.store),
               obj |-> RowNumber(x, n), good |-> x.good, n |-> n]
        BY <1>5
    <2> HIDE DEF r
    <2>. QED
        BY <2>1, <2>2 DEF NewRowOrder
<1>8. r.row = nextRow + 1
    OBVIOUS
<1> HIDE DEF r
<1>9. rows' \subseteq Row
    BY <1>2, <1>6, <1>7
<1>10. RowIds'
    <2>1. \A t \in rows : t.row <= nextRow /\ t.row \in Int
        BY <1>2 DEF Frame, RowIds, Row
    <2>2. \A t \in rows : t.row # r.row
        BY <1>3, <1>8, <2>1
    <2>3. \A t \in rows' : t.row <= nextRow'
        BY <1>3, <1>5, <1>7, <1>8, <2>1
    <2>. QED
        BY <1>7, <2>2, <2>3 DEF Frame, RowIds
<1>11. Take(inv[p], x, n) \in SUBSET Slot
    BY <1>2, TakeType
<1>12. cache[p].list \cup {r} \in SUBSET Row
    BY <1>2, <1>6
<1>13. sound' \in BOOLEAN /\ (sound' => sound)
    BY SoundType DEF NewRowOrder, Frame
<1>14. mishaps' \in 0..MaxMishaps
    <2>1. Mishap \/ UNCHANGED mishaps
        BY DEF NewRowOrder
    <2>. QED
        BY <2>1, MishapType DEF Frame
<1>15. nextRow' \in 0..MaxRow
    BY <1>5
<1>16. owed' \in SUBSET Row /\ unsaved' \in [Player -> [Good -> Int]]
    <2>1. unsaved' = Give(p, x.good, n) /\ owed' = owed
        BY DEF NewRowOrder
    <2>. QED
        BY <1>3, <2>1, GiveType DEF Frame, Types
<1>17. Frame'
    BY <1>16, <1>1, <1>4, <1>7, <1>9, <1>10, <1>11, <1>12, <1>13, <1>14, <1>15, MoveFrame
<1>. QED
    BY <1>13, <1>17

LEMMA WithdrawFrame ==
    ASSUME Frame, NEW p \in Player, NEW e \in cache[p].list, NEW n \in Part(e),
           WithdrawOrder(p, e, n)
    PROVE  Frame' /\ (sound' => sound)
<1>1. work.who = p
    BY DEF WithdrawOrder, Withdrawing
<1>2. p \in online /\ inv[p] \in SUBSET Slot /\ cache[p].list \in SUBSET Row /\ rows \subseteq Row
    BY <1>1, AtWorkIs DEF Frame, Types
<1>3. n \in Nat /\ e \in Row /\ e.n \in Int /\ e.good \in Good /\ e.obj \in 1..MaxObj
      /\ nextObj \in 0..MaxObj
    BY <1>2 DEF Row, Frame, Types, Part
<1>4. rows' \subseteq Row /\ RowIds'
    <2>1. rows' = WithdrawRow(e, n) /\ nextRow' = nextRow
        BY DEF WithdrawOrder
    <2> DEFINE F(r) == IF r.row = e.row THEN [r EXCEPT !.n = @ - n] ELSE r
    <2>2. \A r \in rows : F(r) \in Row /\ F(r).row = r.row
        BY <1>2, <1>3 DEF Row
    <2>3. \A r \in rows' : \E t \in rows : r = F(t)
        BY <2>1 DEF WithdrawRow
    <2> HIDE DEF F
    <2>4. ASSUME NEW r \in rows', NEW t \in rows', r.row = t.row
          PROVE  r = t
        <3>1. PICK a \in rows : r = F(a)
            BY <2>3
        <3>2. PICK b \in rows : t = F(b)
            BY <2>3
        <3>3. a.row = b.row
            BY <2>2, <2>4, <3>1, <3>2
        <3>. QED
            BY <3>1, <3>2, <3>3 DEF Frame, RowIds
    <2>5. ASSUME NEW r \in rows'
          PROVE  r \in Row /\ r.row <= nextRow'
        <3>1. PICK a \in rows : r = F(a)
            BY <2>3
        <3>. QED
            BY <2>1, <2>2, <3>1 DEF Frame, RowIds
    <2>. QED
        BY <2>4, <2>5 DEF RowIds
<1> DEFINE fresh == e.good = Gold /\ \A x \in inv[p] : x.good # Gold
           id == IF fresh THEN nextObj + 1 ELSE e.obj
           gone == n >= e.n \/ \A r \in WithdrawRow(e, n) : r.row # e.row
           left == IF gone THEN {} ELSE {[e EXCEPT !.n = @ - n]}
<1>5. id \in 1..MaxObj /\ nextObj' \in 0..MaxObj
    BY <1>3 DEF WithdrawOrder
<1>6. left \in SUBSET Row
    <2>1. [e EXCEPT !.n = @ - n] \in Row
        BY <1>3 DEF Row
    <2>. QED
        BY <2>1
<1>7. /\ cache' = [cache EXCEPT ![p].list = (cache[p].list \ {e}) \cup left]
      /\ inv' = [inv EXCEPT ![p] = Put(inv[p], id, e.good, n)]
      /\ work' = [work EXCEPT !.moved = TRUE]
      /\ nextRow' = nextRow
      /\ UNCHANGED <<online, member, lock, saved, leaked, fees, mishaps, undone>>
    <2>1. cache \in [Player -> [store : Player \cup {Clan, NoPlayer}, list : SUBSET Row]]
          /\ inv \in [Player -> SUBSET Slot]
        BY DEF Frame, Types
    <2>2. cache' = [cache EXCEPT ![p].list = (cache[p].list \ {e}) \cup left]
        BY <2>1 DEF WithdrawOrder
    <2>3. inv' = [inv EXCEPT ![p] = Put(inv[p], id, e.good, n)]
        BY <2>1 DEF WithdrawOrder
    <2>. QED
        BY <2>2, <2>3 DEF WithdrawOrder
<1> HIDE DEF fresh, id, gone, left
<1>8. Put(inv[p], id, e.good, n) \in SUBSET Slot
    BY <1>2, <1>3, <1>5, PutType
<1>9. (cache[p].list \ {e}) \cup left \in SUBSET Row
    BY <1>2, <1>6
<1>10. sound' \in BOOLEAN /\ (sound' => sound)
    BY SoundType DEF WithdrawOrder, Frame
<1>11. mishaps' \in 0..MaxMishaps /\ nextRow' \in 0..MaxRow
    BY <1>7 DEF Frame, Types
<1>12. owed' \in SUBSET Row /\ unsaved' \in [Player -> [Good -> Int]]
    <2>1. PICK r \in rows : owed' = Repaid(r, n)
        BY DEF WithdrawOrder
    <2>2. unsaved' = Give(p, e.good, -n) /\ -n \in Int
        BY <1>3 DEF WithdrawOrder
    <2>. QED
        BY <1>2, <1>3, <2>1, <2>2, GiveType, RepaidType DEF Frame, Types
<1>13. Frame'
    BY <1>12, <1>1, <1>4, <1>5, <1>7, <1>8, <1>9, <1>10, <1>11, MoveFrame
<1>. QED
    BY <1>10, <1>13

LEMMA FailureFrame ==
    ASSUME Frame, NEW p \in Player, NEW e \in cache[p].list, NEW n \in Part(e),
           WithdrawFails(p, e, n)
    PROVE  Frame' /\ (sound' => sound)
<1>1. work.who = p
    BY DEF WithdrawFails, Withdrawing
<1>2. e \in Row /\ e.n \in Int /\ n \in Nat /\ 0 - n \in Int
    BY <1>1, AtWorkIs DEF Frame, Types, Row, Part
<1>3. rows' = Recount(e, 0 - n)
    <2>1. \A r \in rows : r.n - n = r.n + (0 - n)
        BY <1>2 DEF Frame, Types, Row
    <2>. QED
        BY <2>1 DEF WithdrawFails, Recount
<1>4. nextRow' = nextRow /\ (Mishap \/ UNCHANGED mishaps)
    BY DEF WithdrawFails
<1>5. rows' \subseteq Row /\ RowIds'
    BY <1>2, <1>3, <1>4, RecountIs
<1>6. mishaps' \in 0..MaxMishaps
    BY <1>4, MishapType DEF Frame
<1>7. sound' \in BOOLEAN /\ (sound' => sound)
    BY SoundType DEF WithdrawFails, Frame
<1>8. owed' \subseteq Row
    <2>1. [e EXCEPT !.n = n] \in Row
        BY <1>2 DEF Row
    <2>. QED
        BY <2>1 DEF WithdrawFails, Frame, Types
<1>9. Types'
    <2>1. UNCHANGED <<online, inv, cache, member, lock, work, saved, nextRow, nextObj, leaked, fees,
                      unsaved, undone>>
        BY DEF WithdrawFails, mind
    <2>. QED
        BY <1>5, <1>6, <1>7, <1>8, <2>1 DEF Frame, Types
<1>. QED
    BY <1>5, <1>7, <1>9 DEF WithdrawFails, mind, Frame, AtWork, LockIsReleased

-----------------------------------------------------------------------------
(* The loop's own steps, and all of them together.                           *)

LEMMA FinishFrame ==
    ASSUME Frame, FinishWork
    PROVE  Frame'
<1>1. work.who \in online /\ work.who \in Player /\ cache[work.who].store = work.store
    BY DEF FinishWork, Frame, AtWork, Types
<1>2. PayFee(work.who) /\ work' = Idle
    BY DEF FinishWork
<1>3. \/ inv' = [inv EXCEPT ![work.who] = Paid(inv[work.who])] /\ fees' = fees + Fee
         /\ unsaved' = Give(work.who, Gold, Fee)
      \/ UNCHANGED <<inv, fees, unsaved>>
    BY <1>1, <1>2, PayFeeIs DEF Frame
<1>4. /\ inv' \in [Player -> SUBSET Slot] /\ fees' \in Nat
      /\ \A q \in Player \ {work.who} : inv'[q] = inv[q]
    <2>1. inv[work.who] \in SUBSET Slot /\ inv \in [Player -> SUBSET Slot] /\ fees \in Nat
        BY <1>1 DEF Frame, Types
    <2>2. Paid(inv[work.who]) \in SUBSET Slot
        BY <2>1, PaidType
    <2>. QED
        BY <1>3, <2>1, <2>2
<1>9. unsaved' \in [Player -> [Good -> Int]]
    <2>1. Gold \in Good /\ Fee \in Int
        BY DEF Good
    <2>2. CASE unsaved' = Give(work.who, Gold, Fee)
        BY <1>1, <2>1, <2>2, GiveType DEF Frame
    <2>. QED
        BY <1>3, <2>2 DEF Frame, Types
<1>5. lock' = lock \/ lock' = NoPlayer
    BY DEF FinishWork, Release
<1>6. Idle \in [who : Player \cup {NoPlayer}, store : Player \cup {Clan, NoPlayer},
                out : BOOLEAN, moved : BOOLEAN]
    BY DEF Idle
<1>7. UNCHANGED <<online, cache, member, saved, rows, nextRow, nextObj, sound, leaked, mishaps,
                owed, undone>>
    BY DEF FinishWork, disk
<1>8. Types'
    <2>1. \A q \in Player \ online' : inv'[q] = {} /\ cache'[q] = Closed
        <3>1. \A q \in Player \ online : inv[q] = {} /\ cache[q] = Closed
            BY DEF Frame, Types
        <3>. QED
            BY <1>1, <1>4, <1>7, <3>1
    <2>2. lock' \in Player \cup {NoPlayer}
        BY <1>5 DEF Frame, Types
    <2>3. UNCHANGED rows /\ UNCHANGED sound /\ UNCHANGED mishaps /\ UNCHANGED saved
          /\ UNCHANGED owed /\ UNCHANGED undone
        BY <1>7
    <2>. QED
        BY <1>9, <1>2, <1>4, <1>6, <1>7, <2>1, <2>2, <2>3 DEF Frame, Types
<1>. QED
    BY <1>2, <1>5, <1>7, <1>8 DEF Frame, AtWork, RowIds, LockIsReleased

LEMMA SaveFrame ==
    ASSUME Frame, AutoSave
    PROVE  Frame'
<1>1. saved' \in [Player -> SUBSET Slot]
    BY DEF AutoSave, Frame, Types
<1>2. unsaved' \in [Player -> [Good -> Int]]
    BY NothingIs DEF AutoSave
<1>3. Types'
    BY <1>1, <1>2 DEF AutoSave, mind, history, ledger, Frame, Types
<1>. QED
    BY <1>3 DEF AutoSave, mind, history, ledger, Frame, AtWork, RowIds, LockIsReleased

LEMMA RestartFrame ==
    ASSUME Frame, Restart
    PROVE  Frame'
<1>1. /\ Idle \in [who : Player \cup {NoPlayer}, store : Player \cup {Clan, NoPlayer},
                   out : BOOLEAN, moved : BOOLEAN]
      /\ Closed \in [store : Player \cup {Clan, NoPlayer}, list : SUBSET Row]
    BY DEF Idle, Closed
<1>2. nextObj' \in 0..MaxObj
    BY MaxObjIDType DEF Frame, Restart
<1>3. /\ mishaps' \in 0..MaxMishaps
      /\ unsaved' \in [Player -> [Good -> Int]] /\ undone' \in [Player -> [Good -> Int]]
    <2>1. Mishap \/ UNCHANGED mishaps
        BY DEF Restart
    <2>2. mishaps' \in 0..MaxMishaps
        BY <2>1, MishapType DEF Frame
    <2>3. unsaved \in [Player -> [Good -> Int]] /\ undone \in [Player -> [Good -> Int]]
        BY DEF Frame, Types
    <2>. QED
        BY <2>2, <2>3, NothingIs DEF Restart
<1>4. /\ inv' \in [Player -> SUBSET Slot]
      /\ cache' \in [Player -> [store : Player \cup {Clan, NoPlayer}, list : SUBSET Row]]
      /\ \A q \in Player \ online' : inv'[q] = {} /\ cache'[q] = Closed
    BY <1>1 DEF Restart
<1>5. Types'
    <2>1. UNCHANGED <<member, saved, rows, nextRow, fees, sound, owed>>
        BY DEF Restart, disk
    <2>2. online' = {} /\ lock' = NoPlayer /\ work' = Idle /\ leaked' = {}
        BY DEF Restart
    <2>. QED
        BY <1>1, <1>2, <1>3, <1>4, <2>1, <2>2 DEF Frame, Types
<1>. QED
    BY <1>5 DEF Restart, disk, Frame, AtWork, RowIds, LockIsReleased

LEMMA InitFrame == Init => Frame
<1> SUFFICES ASSUME Init
             PROVE  Frame
    OBVIOUS
<1>1. /\ Idle \in [who : Player \cup {NoPlayer}, store : Player \cup {Clan, NoPlayer},
                   out : BOOLEAN, moved : BOOLEAN]
      /\ Closed \in [store : Player \cup {Clan, NoPlayer}, list : SUBSET Row]
    BY DEF Idle, Closed
<1>2. Object \subseteq Slot
    BY DEF Object, Slot
<1>3. FirstBag \in [Player -> SUBSET Slot]
    BY <1>2
<1>4. /\ inv \in [Player -> SUBSET Slot]
      /\ cache \in [Player -> [store : Player \cup {Clan, NoPlayer}, list : SUBSET Row]]
      /\ \A q \in Player : inv[q] = {} /\ cache[q] = Closed
    BY <1>1 DEF Init
<1>5. Types
    BY <1>1, <1>3, <1>4, NothingIs DEF Init, Types
<1>. QED
    BY <1>5 DEF Init, Frame, AtWork, RowIds, LockIsReleased

LEMMA StepFrame ==
    ASSUME Frame, [Next]_vars
    PROVE  Frame'
<1>1. ASSUME NEW p \in Player, Step(p)
      PROVE  Frame'
    <2>1. CASE \/ OpenWarehouse(p) \/ OpenClanWarehouse(p) \/ ReleaseClanWarehouse(p)
               \/ \E s \in {p, Clan} : BeginDeposit(p, s) \/ BeginWithdraw(p, s)
        BY <2>1, OpenFrame
    <2>2. CASE DepositOrder(p)
        BY <2>2, StackFrame, NewRowFrame DEF DepositOrder
    <2>3. CASE \E e \in cache[p].list : \E n \in Part(e) :
                  WithdrawOrder(p, e, n) \/ WithdrawFails(p, e, n)
        BY <2>3, FailureFrame, WithdrawFrame
    <2>4. CASE \/ LeaveClan(p) \/ BanMember(p)
               \/ HandleDisconnect(p) \/ HandleChangeChar(p) \/ EnterWorld(p)
        BY <2>4, LeaveFrame
    <2>. QED
        BY <1>1, <2>1, <2>2, <2>3, <2>4 DEF Step
<1>2. CASE UNCHANGED vars
    <2>1. Types'
        BY <1>2 DEF vars, mind, disk, history, ledger, Frame, Types
    <2>. QED
        BY <1>2, <2>1 DEF vars, mind, disk, history, ledger, Frame, AtWork, RowIds, LockIsReleased
<1>. QED
    BY <1>1, <1>2, FinishFrame, SaveFrame, RestartFrame DEF Next

LEMMA FrameHolds == Spec => []Frame
<1>1. Init => Frame
    BY InitFrame
<1>2. Frame /\ [Next]_vars => Frame'
    BY StepFrame
<1>. QED
    BY <1>1, <1>2, PTL DEF Spec

\* Who holds the lock of the clan's warehouse is a member in the world, but for a ban
\* and a change of character, which forget it.
THEOREM WarehouseLockIsReleased == Spec => []LockIsReleased
<1>1. Frame => LockIsReleased
    BY DEF Frame
<1>. QED
    BY <1>1, FrameHolds, PTL

-----------------------------------------------------------------------------
(* What holds as long as the clan's warehouse was worked in under its lock.   *)

Bags == \A p \in Player : GoodBag(inv[p]) /\ GoodBag(saved[p])

\* What is owed of a row is of its good, once for each row, and not less than nothing.
Debts ==
    /\ \A o, d \in owed : o.row = d.row => o = d
    /\ \A o \in owed : o.n >= 0 /\ o.row <= nextRow
    /\ \A o \in owed, r \in rows : o.row = r.row => o.good = r.good

\* Before a DELETE has failed nothing is empty.
Full ==
    owed = {} =>
        /\ \A p \in Player : \A x \in inv[p] \cup saved[p] : x.n > 0
        /\ \A r \in rows : r.n > 0

Stored == IsFiniteSet(rows) /\ IsFiniteSet(owed) /\ Debts /\ Full

\* Each entry of the list is of a row there is, of the clan or of who lost his place in it.
Known(list) ==
    /\ \A e, f \in list : e.row = f.row => e = f
    /\ \A e \in list : \E r \in rows : r.store \in {Clan, Nameless} /\ Shows(e, r)

\* The clan's list is of rows there are even when its holder has left the clan.
Caches ==
    /\ \A p \in Player : cache[p].store = p => Current(cache[p].list, p)
    /\ \A p \in Player : cache[p].store = Clan /\ lock = p =>
          /\ Known(cache[p].list)
          /\ p \in member => Current(cache[p].list, Clan)

\* What is handed out can still be paid for when the packet ends.
Solvent == work.out => Amount(Gold, inv[work.who]) >= Fee

\* An inventory and its saved rows differ by what was put in, paid and taken out since.
Ledger ==
    \A g \in Good : \A p \in Player :
        Amount(g, Owned(p)) + unsaved[p][g] = Amount(g, saved[p])

Away(g) == Amount(g, rows) + Amount(g, owed) + (IF g = Gold THEN fees ELSE 0)
Balance == \A g \in Good : Held(g) + Away(g) = Supply[g]

Sane == Bags /\ Stored /\ Caches /\ Solvent /\ Ledger /\ Balance

LEMMA StoresDiffer ==
    /\ Clan # Nameless /\ Clan # NoPlayer
    /\ \A p \in Player : p # Clan /\ p # Nameless /\ p # NoPlayer
BY DEF Clan, Nameless

LEMMA NeverSoundAgain ==
    ASSUME Frame, [Next]_vars, sound'
    PROVE  sound
<1>1. ASSUME NEW p \in Player, Step(p)
      PROVE  sound
    <2>1. CASE \/ OpenWarehouse(p) \/ OpenClanWarehouse(p) \/ ReleaseClanWarehouse(p)
               \/ LeaveClan(p) \/ BanMember(p) \/ EnterWorld(p)
        BY <2>1 DEF OpenWarehouse, OpenClanWarehouse, ReleaseClanWarehouse, LeaveClan, BanMember,
                    EnterWorld, history
    <2>2. CASE \E s \in {p, Clan} : BeginDeposit(p, s) \/ BeginWithdraw(p, s)
        BY <2>2 DEF BeginDeposit, BeginWithdraw, history
    <2>3. CASE DepositOrder(p)
        BY <2>3, StackFrame, NewRowFrame DEF DepositOrder
    <2>4. CASE \E e \in cache[p].list : \E n \in Part(e) :
                  WithdrawOrder(p, e, n) \/ WithdrawFails(p, e, n)
        BY <2>4, WithdrawFrame, FailureFrame
    <2>5. CASE HandleDisconnect(p) \/ HandleChangeChar(p)
        BY <2>5 DEF HandleDisconnect, HandleChangeChar, Vanish
    <2>. QED
        BY <1>1, <2>1, <2>2, <2>3, <2>4, <2>5 DEF Step
<1>2. CASE FinishWork
    BY <1>2 DEF FinishWork
<1>3. CASE AutoSave
    BY <1>3 DEF AutoSave
<1>4. CASE Restart
    BY <1>4 DEF Restart
<1>5. CASE UNCHANGED vars
    BY <1>5 DEF vars, history
<1>. QED
    BY <1>1, <1>2, <1>3, <1>4, <1>5 DEF Next

\* The list shows a row as it is but for the count.
LEMMA ShowsIs ==
    ASSUME NEW e \in Row, NEW r \in Row
    PROVE  /\ Shows(e, r) <=>
                /\ e.row = r.row /\ e.store = r.store /\ e.obj = r.obj /\ e.good = r.good
                /\ e.n = r.n \/ \E o \in owed : o.row = r.row /\ e.n \in r.n..(r.n + o.n)
           /\ Shows(e, r)' <=>
                /\ e.row = r.row /\ e.store = r.store /\ e.obj = r.obj /\ e.good = r.good
                /\ e.n = r.n \/ \E o \in owed' : o.row = r.row /\ e.n \in r.n..(r.n + o.n)
<1>1. [e EXCEPT !.n = r.n] = [row |-> e.row, store |-> e.store, obj |-> e.obj, good |-> e.good, n |-> r.n]
    BY DEF Row
<1>2. r = [row |-> r.row, store |-> r.store, obj |-> r.obj, good |-> r.good, n |-> r.n]
    BY DEF Row
<1>3. [e EXCEPT !.n = r.n] = r <=>
          e.row = r.row /\ e.store = r.store /\ e.obj = r.obj /\ e.good = r.good
    BY <1>1, <1>2
<1>. QED
    BY <1>3 DEF Shows

LEMMA HeldSame ==
    ASSUME NEW g,
           \A p \in Player : (Amount(g, Owned(p)) - undone[p][g])' = Amount(g, Owned(p)) - undone[p][g]
    PROVE  Held(g)' = Held(g)
<1>1. [p \in Player |-> Amount(g, Owned(p)) - undone[p][g]]'
        = [p \in Player |-> Amount(g, Owned(p)) - undone[p][g]]
    OBVIOUS
<1>. QED
    BY <1>1 DEF Held

\* Where all goods stay where they are, what is said of them stays true.
LEMMA Quiet ==
    ASSUME Sane, \A p \in Player : Owned(p)' = Owned(p),
           UNCHANGED <<rows, owed, undone, fees, nextRow>>
    PROVE  Balance' /\ Debts' /\ IsFiniteSet(rows') /\ IsFiniteSet(owed')
<1>1. ASSUME NEW g \in Good
      PROVE  Held(g)' + Away(g)' = Supply[g]
    <2>1. Held(g)' = Held(g)
        BY HeldSame
    <2>2. Amount(g, rows') = Amount(g, rows) /\ Amount(g, owed') = Amount(g, owed) /\ fees' = fees
        OBVIOUS
    <2>3. Away(g)' = Away(g)
        BY <2>2 DEF Away
    <2>. QED
        BY <2>1, <2>3 DEF Sane, Balance
<1>2. Debts'
    BY DEF Sane, Stored, Debts
<1>. QED
    BY <1>1, <1>2 DEF Balance, Sane, Stored

\* Where rows and what is owed of them stay, lists show what they showed.
LEMMA SameRows ==
    ASSUME UNCHANGED <<rows, owed>>
    PROVE  /\ \A s : RowsOf(s)' = RowsOf(s)
           /\ \A list, s : Current(list, s)' = Current(list, s)
           /\ \A list : Known(list)' = Known(list)
<1>1. \A s : RowsOf(s)' = RowsOf(s)
    BY DEF RowsOf
<1>2. \A e, r : Shows(e, r)' = Shows(e, r)
    BY DEF Shows
<1>. QED
    BY <1>1, <1>2 DEF Current, Known

\* Lists are right after a step when each of them, taken by itself, is.
LEMMA CachesAfter ==
    ASSUME \A q \in Player : \A list : cache'[q].list = list =>
              /\ cache'[q].store = q => Current(list, q)'
              /\ cache'[q].store = Clan /\ lock' = q =>
                    Known(list)' /\ (q \in member' => Current(list, Clan)')
    PROVE  Caches'
<1>1. ASSUME NEW q \in Player, NEW list, cache'[q].list = list
      PROVE  /\ \A s : Current(cache[q].list, s)' <=> Current(list, s)'
             /\ Known(cache[q].list)' <=> Known(list)'
    BY <1>1 DEF Current, Known
<1>2. ASSUME NEW q \in Player
      PROVE  /\ cache'[q].store = q => Current(cache[q].list, q)'
             /\ cache'[q].store = Clan /\ lock' = q =>
                   Known(cache[q].list)' /\ (q \in member' => Current(cache[q].list, Clan)')
    <2>1. PICK list : cache'[q].list = list
        OBVIOUS
    <2>. QED
        BY <1>1, <2>1
<1>. QED
    BY <1>2 DEF Caches

LEMMA OpenSane ==
    ASSUME Frame, Sane, NEW p \in Player,
           \/ OpenWarehouse(p) \/ OpenClanWarehouse(p) \/ ReleaseClanWarehouse(p)
           \/ \E s \in {p, Clan} : BeginDeposit(p, s) \/ BeginWithdraw(p, s)
    PROVE  Sane'
<1>1. UNCHANGED <<online, inv, saved, rows, fees, member, nextRow, owed, unsaved, undone>>
    BY DEF OpenWarehouse, OpenClanWarehouse, ReleaseClanWarehouse, BeginDeposit, BeginWithdraw,
           disk, history, ledger
<1>2. Bags'
    BY <1>1 DEF Sane, Bags
<1>3. Stored' /\ Balance' /\ Ledger'
    <2>1. \A q \in Player : Owned(q)' = Owned(q)
        BY <1>1 DEF Owned
    <2>2. Balance' /\ Debts' /\ IsFiniteSet(rows') /\ IsFiniteSet(owed')
        BY <1>1, <2>1, Quiet
    <2>3. Full' /\ Ledger'
        BY <1>1, <2>1 DEF Sane, Stored, Full, Ledger
    <2>. QED
        BY <2>2, <2>3 DEF Stored
<1>4. Solvent'
    <2>1. CASE work' = work
        BY <1>1, <2>1 DEF Sane, Solvent
    <2>2. CASE \E s \in {p, Clan} : BeginDeposit(p, s)
        BY <2>2 DEF BeginDeposit, Solvent
    <2>3. CASE \E s \in {p, Clan} : BeginWithdraw(p, s)
        BY <2>3 DEF BeginWithdraw, Solvent, CanPay
    <2>. QED
        BY <2>1, <2>2, <2>3 DEF OpenWarehouse, OpenClanWarehouse, ReleaseClanWarehouse
<1>5. p \in online /\ (lock' = lock \/ lock' \in {NoPlayer, p})
    BY DEF OpenWarehouse, OpenClanWarehouse, ReleaseClanWarehouse, BeginDeposit, BeginWithdraw,
           Release, Ready
<1>6. \/ cache' = cache /\ (lock' = lock \/ lock' = NoPlayer)
      \/ \E s \in {p, Clan} : cache' = Load(p, s)
    BY DEF OpenWarehouse, OpenClanWarehouse, ReleaseClanWarehouse, BeginDeposit, BeginWithdraw,
           Release
<1>7. /\ \A list, s : Current(list, s)' = Current(list, s)
      /\ \A list : Known(list)' = Known(list)
    BY <1>1, SameRows
<1>8. CASE cache' = cache /\ (lock' = lock \/ lock' = NoPlayer)
    <2>1. ASSUME NEW q \in Player, NEW list, cache'[q].list = list, cache'[q].store = q
          PROVE  Current(list, q)'
        <3>1. Current(cache[q].list, q)
            BY <1>8, <2>1 DEF Sane, Caches
        <3>. QED
            BY <1>7, <1>8, <2>1, <3>1
    <2>2. ASSUME NEW q \in Player, NEW list, cache'[q].list = list, cache'[q].store = Clan, lock' = q
          PROVE  Known(list)' /\ (q \in member' => Current(list, Clan)')
        <3>1. cache[q].store = Clan /\ lock = q
            BY <1>8, <2>2, StoresDiffer
        <3>2. Known(cache[q].list) /\ (q \in member => Current(cache[q].list, Clan))
            BY <3>1 DEF Sane, Caches
        <3>. QED
            BY <1>1, <1>7, <1>8, <2>2, <3>2
    <2>3. Caches'
        BY <2>1, <2>2, CachesAfter
    <2>. QED
        BY <1>2, <1>3, <1>4, <2>3 DEF Sane
<1>9. ASSUME NEW s \in {p, Clan}, cache' = Load(p, s)
      PROVE  Sane'
    <2>1. /\ cache'[p] = [store |-> s, list |-> RowsOf(KeyOf(p, s))]
          /\ \A q \in Player \ {p} : cache'[q] = cache[q]
        <3>1. Types /\ p \in online /\ s \in {p, Clan}
            BY <1>5 DEF Frame
        <3>2. /\ Load(p, s)[p] = [store |-> s, list |-> RowsOf(KeyOf(p, s))]
              /\ \A q \in Player \ {p} : Load(p, s)[q] = cache[q]
            BY <3>1, LoadType
        <3>. QED
            BY <1>9, <3>2
    <2>2. /\ s = p => KeyOf(p, s) = p
          /\ s = Clan => KeyOf(p, s) \in {Clan, Nameless} /\ (p \in member => KeyOf(p, s) = Clan)
        BY StoresDiffer DEF KeyOf
    <2>3. \A k : Current(RowsOf(k), k) /\ (k \in {Clan, Nameless} => Known(RowsOf(k)))
        <3>1. \A k : RowsOf(k) \subseteq rows /\ \A r \in RowsOf(k) : r.store = k
            BY DEF RowsOf
        <3>2. \A r \in rows : Shows(r, r)
            BY DEF Frame, Types, Row, Shows
        <3>3. \A r, t \in rows : r.row = t.row => r = t
            BY DEF Frame, RowIds
        <3>. QED
            BY <3>1, <3>2, <3>3 DEF Current, Known
    <2>4. ASSUME NEW q \in Player, NEW list, cache'[q].list = list, cache'[q].store = q
          PROVE  Current(list, q)'
        <3>1. CASE q = p
            BY <1>7, <2>1, <2>2, <2>3, <2>4, <3>1, StoresDiffer
        <3>2. CASE q # p
            <4>1. Current(cache[q].list, q)
                BY <2>1, <2>4, <3>2 DEF Sane, Caches
            <4>. QED
                BY <1>7, <2>1, <2>4, <3>2, <4>1
        <3>. QED
            BY <3>1, <3>2
    <2>5. ASSUME NEW q \in Player, NEW list, cache'[q].list = list, cache'[q].store = Clan, lock' = q
          PROVE  Known(list)' /\ (q \in member' => Current(list, Clan)')
        <3>1. CASE q = p
            <4>1. s = Clan /\ list = RowsOf(KeyOf(p, s))
                BY <2>1, <2>5, <3>1
            <4>2. Known(list) /\ (q \in member => Current(list, Clan))
                BY <2>2, <2>3, <3>1, <4>1
            <4>. QED
                BY <1>1, <1>7, <4>2
        <3>2. CASE q # p
            <4>1. cache'[q] = cache[q] /\ lock = q
                BY <1>5, <2>1, <2>5, <3>2, StoresDiffer
            <4>2. Known(cache[q].list) /\ (q \in member => Current(cache[q].list, Clan))
                BY <2>5, <4>1 DEF Sane, Caches
            <4>. QED
                BY <1>1, <1>7, <2>5, <4>1, <4>2
        <3>. QED
            BY <3>1, <3>2
    <2>6. Caches'
        BY <2>4, <2>5, CachesAfter
    <2>. QED
        BY <1>2, <1>3, <1>4, <2>6 DEF Sane
<1>. QED
    BY <1>6, <1>8, <1>9

\* A list that goes, or stays with what it shows, leaves the lists right.
LEMMA ListsStay ==
    ASSUME Sane, UNCHANGED <<rows, owed>>, member' \subseteq member,
           lock' = lock \/ lock' = NoPlayer,
           \A q \in Player : cache'[q] = cache[q] \/ cache'[q] = Closed
    PROVE  Caches'
<1>1. /\ \A list, s : Current(list, s)' = Current(list, s)
      /\ \A list : Known(list)' = Known(list)
    BY SameRows
<1>2. Closed.store = NoPlayer
    BY DEF Closed
<1>3. ASSUME NEW q \in Player, NEW list, cache'[q].list = list, cache'[q].store = q
      PROVE  Current(list, q)'
    <2>1. cache'[q] = cache[q]
        BY <1>2, <1>3, StoresDiffer
    <2>2. Current(cache[q].list, q)
        BY <1>3, <2>1 DEF Sane, Caches
    <2>. QED
        BY <1>1, <1>3, <2>1, <2>2
<1>4. ASSUME NEW q \in Player, NEW list, cache'[q].list = list, cache'[q].store = Clan, lock' = q
      PROVE  Known(list)' /\ (q \in member' => Current(list, Clan)')
    <2>1. cache'[q] = cache[q] /\ lock = q
        BY <1>2, <1>4, StoresDiffer
    <2>2. Known(cache[q].list) /\ (q \in member => Current(cache[q].list, Clan))
        BY <1>4, <2>1 DEF Sane, Caches
    <2>. QED
        BY <1>1, <1>4, <2>1, <2>2
<1>. QED
    BY <1>3, <1>4, CachesAfter

LEMMA PartingSane ==
    ASSUME Frame, Sane, NEW p \in Player, LeaveClan(p) \/ BanMember(p)
    PROVE  Sane'
<1>1. /\ UNCHANGED <<online, inv, saved, cache, rows, fees, nextRow, owed, unsaved, undone>>
      /\ work' = work /\ work = Idle
      /\ member' \subseteq member
      /\ lock' = lock \/ lock' = NoPlayer
    BY DEF LeaveClan, BanMember, Release, Ready, disk, ledger
<1>2. Bags' /\ Solvent'
    BY <1>1, IdleIs DEF Sane, Bags, Solvent
<1>3. \A q \in Player : Owned(q)' = Owned(q)
    BY <1>1 DEF Owned
<1>4. Balance' /\ Debts' /\ IsFiniteSet(rows') /\ IsFiniteSet(owed')
    BY <1>1, <1>3, Quiet
<1>5. Full' /\ Ledger'
    BY <1>1, <1>3 DEF Sane, Stored, Full, Ledger
<1>6. Caches'
    BY <1>1, ListsStay
<1>. QED
    BY <1>2, <1>4, <1>5, <1>6 DEF Sane, Stored

\* What comes of an inventory with the world's leaving it, and with a failed save.
LEMMA AmountOfBag ==
    ASSUME Sane, NEW p \in Player, NEW g
    PROVE  Amount(g, inv[p]) \in Int /\ Amount(g, saved[p]) \in Int /\ Amount(g, Owned(p)) \in Int
<1>1. GoodBag(inv[p]) /\ GoodBag(saved[p])
    BY DEF Sane, Bags
<1>2. Amount(g, inv[p]) \in Int /\ Amount(g, saved[p]) \in Int
    BY <1>1, GoodBagCounted, AmountType
<1>. QED
    BY <1>2 DEF Owned

\* Who leaves has saved what he had, or gets back what he had when it was saved.
LEMMA VanishSane ==
    ASSUME Frame, Sane, NEW p \in Player, HandleDisconnect(p) \/ HandleChangeChar(p)
    PROVE  Sane'
<1>1. Vanish(p) /\ p \in online /\ work = Idle /\ (lock' = lock \/ lock' = NoPlayer)
    BY DEF HandleDisconnect, HandleChangeChar, Ready, Release
<1>2. /\ inv \in [Player -> SUBSET Slot] /\ saved \in [Player -> SUBSET Slot]
      /\ cache \in [Player -> [store : Player \cup {Clan, NoPlayer}, list : SUBSET Row]]
      /\ unsaved \in [Player -> [Good -> Int]] /\ undone \in [Player -> [Good -> Int]]
    BY DEF Frame, Types
<1>3. /\ UNCHANGED <<member, work, rows, nextRow, fees, owed>>
      /\ online' = online \ {p}
      /\ inv'[p] = {} /\ cache'[p] = Closed /\ unsaved'[p] = Nothing
      /\ \A q \in Player \ {p} : /\ inv'[q] = inv[q] /\ cache'[q] = cache[q]
                                 /\ unsaved'[q] = unsaved[q]
    BY <1>1, <1>2 DEF Vanish
<1>4. \A q \in Player \ {p} : saved'[q] = saved[q] /\ undone'[q] = undone[q]
    BY <1>1, <1>2 DEF Vanish
<1>5. \/ saved'[p] = inv[p] /\ undone'[p] = undone[p]
      \/ saved'[p] = saved[p] /\ \A g \in Good : undone'[p][g] = undone[p][g] + unsaved[p][g]
    BY <1>1, <1>2 DEF Vanish
<1>6. Bags'
    <2>1. GoodBag({})
        BY FS_EmptySet DEF GoodBag
    <2>. QED
        BY <1>3, <1>4, <1>5, <2>1 DEF Sane, Bags
<1>7. Solvent'
    BY <1>1, <1>3, IdleIs DEF Solvent
<1>8. Caches'
    BY <1>1, <1>3, ListsStay
<1>9. /\ Owned(p) = inv[p] /\ Owned(p)' = saved'[p]
      /\ \A q \in Player \ {p} : Owned(q)' = Owned(q)
    BY <1>1, <1>3, <1>4 DEF Owned
<1>10. Ledger'
    <2>1. ASSUME NEW g \in Good, NEW q \in Player
          PROVE  Amount(g, Owned(q)') + unsaved'[q][g] = Amount(g, saved'[q])
        <3>1. CASE q = p
            <4>1. Amount(g, saved'[p]) \in Int
                BY <1>5, AmountOfBag
            <4>. QED
                BY <1>3, <1>9, <3>1, <4>1, NothingIs
        <3>2. CASE q # p
            BY <1>3, <1>4, <1>9, <3>2 DEF Sane, Ledger
        <3>. QED
            BY <3>1, <3>2
    <2>. QED
        BY <2>1 DEF Ledger
<1>11. Balance'
    <2>1. ASSUME NEW g \in Good
          PROVE  Held(g)' = Held(g)
        <3>1. ASSUME NEW q \in Player
              PROVE  Amount(g, Owned(q)') - undone'[q][g] = Amount(g, Owned(q)) - undone[q][g]
            <4>1. CASE q = p
                <5>1. /\ Amount(g, inv[p]) \in Int /\ Amount(g, saved[p]) \in Int
                      /\ undone[p][g] \in Int /\ unsaved[p][g] \in Int
                    BY <1>2, AmountOfBag
                <5>2. Amount(g, inv[p]) + unsaved[p][g] = Amount(g, saved[p])
                    BY <1>9 DEF Sane, Ledger
                <5>. QED
                    BY <1>5, <1>9, <4>1, <5>1, <5>2
            <4>2. CASE q # p
                BY <1>4, <1>9, <4>2
            <4>. QED
                BY <4>1, <4>2
        <3>. QED
            BY <3>1, HeldSame
    <2>2. \A g : Away(g)' = Away(g)
        BY <1>3 DEF Away
    <2>. QED
        BY <2>1, <2>2 DEF Sane, Balance
<1>12. Stored'
    <2>1. Debts' /\ IsFiniteSet(rows') /\ IsFiniteSet(owed')
        BY <1>3 DEF Sane, Stored, Debts
    <2>2. Full'
        <3>1. ASSUME owed' = {}, NEW q \in Player, NEW x \in inv'[q] \cup saved'[q]
              PROVE  x.n > 0
            <4>1. x \in inv[q] \cup saved[q]
                BY <1>3, <1>4, <1>5, <3>1
            <4>. QED
                BY <1>3, <3>1, <4>1 DEF Sane, Stored, Full
        <3>2. owed' = {} => \A r \in rows' : r.n > 0
            BY <1>3 DEF Sane, Stored, Full
        <3>. QED
            BY <3>1, <3>2 DEF Full
    <2>. QED
        BY <2>1, <2>2 DEF Stored
<1>. QED
    BY <1>6, <1>7, <1>8, <1>10, <1>11, <1>12 DEF Sane

LEMMA EnterSane ==
    ASSUME Frame, Sane, NEW p \in Player, EnterWorld(p)
    PROVE  Sane'
<1>1. /\ UNCHANGED <<saved, rows, nextRow, fees, owed, unsaved, undone, member, lock, work>>
      /\ work = Idle /\ p \notin online /\ online' = online \cup {p}
    BY DEF EnterWorld, disk, history, ledger
<1>2. /\ inv \in [Player -> SUBSET Slot]
      /\ cache \in [Player -> [store : Player \cup {Clan, NoPlayer}, list : SUBSET Row]]
    BY DEF Frame, Types
<1>3. /\ inv'[p] = saved[p] /\ cache'[p] = Closed
      /\ \A q \in Player \ {p} : inv'[q] = inv[q] /\ cache'[q] = cache[q]
    BY <1>2 DEF EnterWorld
<1>4. \A q \in Player : Owned(q)' = Owned(q)
    BY <1>1, <1>3 DEF Owned
<1>5. Bags' /\ Solvent'
    BY <1>1, <1>3, IdleIs DEF Sane, Bags, Solvent
<1>6. Balance' /\ Debts' /\ IsFiniteSet(rows') /\ IsFiniteSet(owed')
    BY <1>1, <1>4, Quiet
<1>7. Full' /\ Ledger'
    BY <1>1, <1>3, <1>4 DEF Sane, Stored, Full, Ledger
<1>8. Caches'
    BY <1>1, <1>3, ListsStay
<1>. QED
    BY <1>5, <1>6, <1>7, <1>8 DEF Sane, Stored

LEMMA SaveSane ==
    ASSUME Frame, Sane, AutoSave
    PROVE  Sane'
<1>1. UNCHANGED <<online, inv, cache, member, lock, work, rows, fees, nextRow, owed, undone>>
    BY DEF AutoSave, mind
<1>2. \A p \in Player : saved'[p] = Owned(p) /\ unsaved'[p] = Nothing
    BY DEF AutoSave, Owned
<1>3. Bags' /\ Solvent'
    BY <1>1, <1>2 DEF Sane, Bags, Owned, Solvent
<1>4. \A q \in Player : Owned(q)' = Owned(q)
    BY <1>1, <1>2 DEF Owned
<1>5. Balance' /\ Debts' /\ IsFiniteSet(rows') /\ IsFiniteSet(owed')
    BY <1>1, <1>4, Quiet
<1>6. Full'
    <2>1. \A q \in Player : inv'[q] \cup saved'[q] \subseteq inv[q] \cup saved[q]
        BY <1>1, <1>2 DEF Owned
    <2>. QED
        BY <1>1, <2>1 DEF Sane, Stored, Full
<1>7. Ledger'
    <2>1. \A g \in Good : \A q \in Player : Amount(g, Owned(q)) \in Int
        BY AmountOfBag
    <2>. QED
        BY <1>2, <1>4, <2>1, NothingIs DEF Ledger
<1>8. Caches'
    BY <1>1, ListsStay
<1>. QED
    BY <1>3, <1>5, <1>6, <1>7, <1>8 DEF Sane, Stored

\* A crash gives back to each player what he had when his inventory was saved.
LEMMA RestartSane ==
    ASSUME Frame, Sane, Restart
    PROVE  Sane'
<1>1. /\ UNCHANGED <<saved, rows, nextRow, fees, owed, member>>
      /\ online' = {} /\ work' = Idle /\ lock' = NoPlayer
      /\ \A p \in Player : inv'[p] = {} /\ cache'[p] = Closed /\ unsaved'[p] = Nothing
      /\ \A p \in Player : \A g \in Good : undone'[p][g] = undone[p][g] + unsaved[p][g]
    BY DEF Restart, disk
<1>2. Bags' /\ Solvent'
    <2>1. GoodBag({})
        BY FS_EmptySet DEF GoodBag
    <2>. QED
        BY <1>1, <2>1, IdleIs DEF Sane, Bags, Solvent
<1>3. \A q \in Player : Owned(q)' = saved[q]
    BY <1>1 DEF Owned
<1>4. Ledger'
    <2>1. \A g \in Good : \A q \in Player : Amount(g, saved[q]) \in Int
        BY AmountOfBag
    <2>. QED
        BY <1>1, <1>3, <2>1, NothingIs DEF Ledger
<1>5. Balance'
    <2>1. ASSUME NEW g \in Good
          PROVE  Held(g)' = Held(g)
        <3>1. ASSUME NEW q \in Player
              PROVE  Amount(g, Owned(q)') - undone'[q][g] = Amount(g, Owned(q)) - undone[q][g]
            <4>1. /\ Amount(g, Owned(q)) \in Int /\ Amount(g, saved[q]) \in Int
                  /\ undone[q][g] \in Int /\ unsaved[q][g] \in Int
                BY AmountOfBag DEF Frame, Types
            <4>2. Amount(g, Owned(q)) + unsaved[q][g] = Amount(g, saved[q])
                BY DEF Sane, Ledger
            <4>. QED
                BY <1>1, <1>3, <4>1, <4>2
        <3>. QED
            BY <3>1, HeldSame
    <2>2. \A g : Away(g)' = Away(g)
        BY <1>1 DEF Away
    <2>. QED
        BY <2>1, <2>2 DEF Sane, Balance
<1>6. Debts' /\ IsFiniteSet(rows') /\ IsFiniteSet(owed') /\ Full'
    BY <1>1 DEF Sane, Stored, Debts, Full
<1>7. Caches'
    BY <1>1, ListsStay
<1>. QED
    BY <1>2, <1>4, <1>5, <1>6, <1>7 DEF Sane, Stored

-----------------------------------------------------------------------------
(* Orders move goods between an inventory and a store, and change the list   *)
(* of who gave them as they change the rows.                                 *)

\* The store of a row that p sees when the loop is at his packet.
Fits(p, k) ==
    IF work.store = p THEN k = p ELSE k \in {Clan, Nameless} /\ (p \in member => k = Clan)

LEMMA WhatIsSeen ==
    ASSUME Frame, Sane, NEW p \in Player, work.who = p, work.store = Clan => lock = p
    PROVE  /\ \A e, f \in cache[p].list : e.row = f.row => e = f
           /\ \A e \in cache[p].list : \E r \in rows : Shows(e, r) /\ Fits(p, r.store)
           /\ Fits(p, KeyOf(p, work.store))
<1>1. work.store \in {p, Clan} /\ cache[p].store = work.store
    BY AtWorkIs
<1>2. \A k : \A r \in RowsOf(k) : r \in rows /\ r.store = k
    BY DEF RowsOf
<1>3. CASE work.store = p
    <2>1. Current(cache[p].list, p) /\ KeyOf(p, work.store) = p
        BY <1>1, <1>3, StoresDiffer DEF Sane, Caches, KeyOf
    <2>. QED
        BY <1>2, <1>3, <2>1 DEF Fits, Current
<1>4. CASE work.store = Clan
    <2>1. Known(cache[p].list) /\ (p \in member => Current(cache[p].list, Clan))
        BY <1>1, <1>4 DEF Sane, Caches
    <2>2. work.store # p
        BY <1>4, StoresDiffer
    <2>3. \A e \in cache[p].list : \E r \in rows : Shows(e, r) /\ Fits(p, r.store)
        <3>1. CASE p \in member
            <4>1. \A e \in cache[p].list : \E r \in RowsOf(Clan) : Shows(e, r)
                BY <2>1, <3>1 DEF Current
            <4>. QED
                BY <1>2, <2>2, <4>1 DEF Fits
        <3>2. CASE p \notin member
            BY <2>1, <2>2, <3>2 DEF Known, Fits
        <3>. QED
            BY <3>1, <3>2
    <2>. QED
        BY <1>4, <2>1, <2>2, <2>3 DEF Fits, KeyOf, Known
<1>. QED
    BY <1>1, <1>3, <1>4

\* An order replaces the row i, or makes it, and the entry of it in the list of who gave
\* the order: nobody else relies on a list that has it.
LEMMA MoveCaches ==
    ASSUME Frame, Sane, NEW p \in Player, work.who = p, work.store = Clan => lock = p,
           NEW i, NEW R, NEW L,
           rows' = {r \in rows : r.row # i} \cup R,
           cache' = [cache EXCEPT ![p].list = {e \in cache[p].list : e.row # i} \cup L],
           \A r \in R : r.row = i /\ Fits(p, r.store),
           \A r \in rows : r.row = i => Fits(p, r.store),
           \A e, f \in L : e = f,
           \A e \in L : e.row = i /\ \E r \in R : Shows(e, r)',
           \A r \in R : \E e \in L : Shows(e, r)',
           \A o : o.row # i => (o \in owed' <=> o \in owed),
           UNCHANGED <<member, lock>>
    PROVE  Caches'
<1>1. work.store \in {p, Clan} /\ cache[p].store = work.store
    BY AtWorkIs
<1>2. cache \in [Player -> [store : Player \cup {Clan, NoPlayer}, list : SUBSET Row]]
      /\ rows \subseteq Row
    BY DEF Frame, Types
<1>3. /\ cache'[p].store = work.store
      /\ cache'[p].list = {e \in cache[p].list : e.row # i} \cup L
      /\ \A q \in Player \ {p} : cache'[q] = cache[q]
    BY <1>1, <1>2
<1>4. /\ \A e, f \in cache[p].list : e.row = f.row => e = f
      /\ \A e \in cache[p].list : \E r \in rows : Shows(e, r) /\ Fits(p, r.store)
    BY WhatIsSeen
<1>5. \A e, r : r.row # i => (Shows(e, r)' <=> Shows(e, r))
    BY DEF Shows
<1>6. \A q \in Player : \A e \in cache[q].list : \A r \in rows :
         Shows(e, r) => e.row = r.row /\ e.store = r.store
    BY <1>2, ShowsIs
<1>7. \A e, f \in cache'[p].list : e.row = f.row => e = f
    BY <1>3, <1>4
<1>8. \A k, r : r \in RowsOf(k)' <=> ((r \in rows /\ r.row # i) \/ r \in R) /\ r.store = k
    BY DEF RowsOf
<1>9. ASSUME NEW k, Current(cache[p].list, k), \A r \in R : r.store = k,
             NEW list, cache'[p].list = list
      PROVE  Current(list, k)'
    <2>1. ASSUME NEW e \in list
          PROVE  \E r \in RowsOf(k)' : Shows(e, r)'
        <3>1. CASE e \in L
            BY <1>8, <1>9, <3>1
        <3>2. CASE e \in cache[p].list /\ e.row # i
            <4>1. PICK r \in rows : r.store = k /\ Shows(e, r)
                BY <1>9, <3>2 DEF Current, RowsOf
            <4>2. r.row # i
                BY <1>6, <3>2, <4>1
            <4>. QED
                BY <1>5, <1>8, <4>1, <4>2
        <3>. QED
            BY <1>3, <1>9, <3>1, <3>2
    <2>2. ASSUME NEW r \in RowsOf(k)'
          PROVE  \E e \in list : Shows(e, r)'
        <3>1. CASE r \in R
            BY <1>3, <1>9, <3>1
        <3>2. CASE r \in rows /\ r.row # i
            <4>1. PICK e \in cache[p].list : Shows(e, r)
                BY <1>8, <1>9, <2>2, <3>2 DEF Current, RowsOf
            <4>2. e.row # i
                BY <1>6, <3>2, <4>1
            <4>. QED
                BY <1>3, <1>5, <1>9, <3>2, <4>1, <4>2
        <3>. QED
            BY <1>8, <2>2, <3>1, <3>2
    <2>3. \A e, f \in list : e.row = f.row => e = f
        BY <1>7, <1>9
    <2>. QED
        BY <2>1, <2>2, <2>3 DEF Current
<1>10. ASSUME NEW q \in Player, NEW list, cache'[q].list = list, cache'[q].store = q
       PROVE  Current(list, q)'
    <2>1. CASE q = p
        <3>1. work.store = p
            BY <1>3, <1>10, <2>1
        <3>2. Current(cache[p].list, p) /\ \A r \in R : r.store = p
            BY <1>1, <3>1 DEF Sane, Caches, Fits
        <3>. QED
            BY <1>9, <1>10, <2>1, <3>2
    <2>2. CASE q # p
        <3>1. Current(list, q)
            BY <1>3, <1>10, <2>2 DEF Sane, Caches
        <3>2. \A r : Fits(p, r.store) => r.store # q
            BY <1>1, <2>2, StoresDiffer DEF Fits
        <3>3. \A r : r \in RowsOf(q)' <=> r \in RowsOf(q)
            BY <1>8, <3>2 DEF RowsOf
        <3>4. \A r \in RowsOf(q) : r.row # i
            BY <3>2 DEF RowsOf
        <3>. QED
            BY <1>5, <3>1, <3>3, <3>4 DEF Current
    <2>. QED
        BY <2>1, <2>2
<1>11. ASSUME NEW q \in Player, NEW list, cache'[q].list = list, cache'[q].store = Clan, lock' = q
       PROVE  Known(list)' /\ (q \in member' => Current(list, Clan)')
    <2>1. CASE q = p
        <3>1. work.store = Clan /\ work.store # p
            BY <1>3, <1>11, <2>1, StoresDiffer
        <3>2. \A k : Fits(p, k) => k \in {Clan, Nameless}
            BY <3>1 DEF Fits
        <3>3. Known(list)'
            <4>1. ASSUME NEW e \in list
                  PROVE  \E r \in rows' : r.store \in {Clan, Nameless} /\ Shows(e, r)'
                <5>1. CASE e \in L
                    BY <3>2, <5>1
                <5>2. CASE e \in cache[p].list /\ e.row # i
                    <6>1. PICK r \in rows : Shows(e, r) /\ Fits(p, r.store)
                        BY <1>4, <5>2
                    <6>2. r.row # i
                        BY <1>6, <5>2, <6>1
                    <6>. QED
                        BY <1>5, <3>2, <6>1, <6>2
                <5>. QED
                    BY <1>3, <1>11, <2>1, <5>1, <5>2
            <4>2. \A e, f \in list : e.row = f.row => e = f
                BY <1>7, <1>11, <2>1
            <4>. QED
                BY <4>1, <4>2 DEF Known
        <3>4. ASSUME p \in member
              PROVE  Current(list, Clan)'
            <4>1. Current(cache[p].list, Clan) /\ \A r \in R : r.store = Clan
                BY <1>1, <1>11, <2>1, <3>1, <3>4 DEF Sane, Caches, Fits
            <4>. QED
                BY <1>9, <1>11, <2>1, <4>1
        <3>. QED
            BY <2>1, <3>3, <3>4
    <2>2. CASE q # p
        <3>1. work.store = p
            BY <1>1, <1>11, <2>2
        <3>2. \A r : Fits(p, r.store) => r.store \notin {Clan, Nameless}
            BY <3>1, StoresDiffer DEF Fits
        <3>3. Known(list) /\ (q \in member => Current(list, Clan))
            BY <1>3, <1>11, <2>2 DEF Sane, Caches
        <3>4. \A r : r.store \in {Clan, Nameless} => (r \in rows' <=> r \in rows)
            BY <3>2
        <3>5. \A r \in rows : r.store \in {Clan, Nameless} => r.row # i
            BY <3>2
        <3>6. Known(list)'
            BY <1>5, <3>3, <3>4, <3>5 DEF Known
        <3>7. \A r : r \in RowsOf(Clan)' <=> r \in RowsOf(Clan)
            BY <3>4 DEF RowsOf
        <3>8. \A r \in RowsOf(Clan) : r.row # i
            BY <3>5 DEF RowsOf
        <3>9. q \in member => Current(list, Clan)'
            BY <1>5, <3>3, <3>7, <3>8 DEF Current
        <3>. QED
            BY <3>6, <3>9
    <2>. QED
        BY <2>1, <2>2
<1>. QED
    BY <1>10, <1>11, CachesAfter

\* What one player owns changes by what he gives, and what is away by as much.
Gives(p, b, h, n) ==
    /\ p \in online /\ GoodBag(b) /\ h \in Good /\ n \in Int
    /\ inv' = [inv EXCEPT ![p] = b] /\ UNCHANGED <<online, saved, undone>>
    /\ unsaved' = Give(p, h, n)
    /\ \A g \in Good :
          /\ Amount(g, b) = Amount(g, inv[p]) - (IF g = h THEN n ELSE 0)
          /\ Away(g) \in Int /\ Away(g)' = Away(g) + (IF g = h THEN n ELSE 0)

LEMMA MoveSane ==
    ASSUME Frame, Sane, NEW p, NEW b, NEW h, NEW n, Gives(p, b, h, n)
    PROVE  Bags' /\ Ledger' /\ Balance' /\ inv'[p] = b /\ \A q \in Player \ {p} : inv'[q] = inv[q]
<1>0. /\ p \in online /\ GoodBag(b) /\ h \in Good /\ n \in Int
      /\ inv' = [inv EXCEPT ![p] = b] /\ UNCHANGED <<online, saved, undone>>
      /\ unsaved' = Give(p, h, n)
      /\ \A g \in Good :
            /\ Amount(g, b) = Amount(g, inv[p]) - (IF g = h THEN n ELSE 0)
            /\ Away(g) \in Int /\ Away(g)' = Away(g) + (IF g = h THEN n ELSE 0)
    BY DEF Gives
<1>1. /\ p \in Player /\ inv \in [Player -> SUBSET Slot]
      /\ unsaved \in [Player -> [Good -> Int]] /\ undone \in [Player -> [Good -> Int]]
    BY <1>0 DEF Frame, Types
<1>2. inv'[p] = b /\ \A q \in Player \ {p} : inv'[q] = inv[q]
    BY <1>0, <1>1
<1>3. Bags'
    BY <1>0, <1>2 DEF Sane, Bags
<1>4. /\ Owned(p) = inv[p] /\ Owned(p)' = b
      /\ \A q \in Player \ {p} : Owned(q)' = Owned(q)
    BY <1>0, <1>2 DEF Owned
<1>5. /\ \A g \in Good : unsaved'[p][g] = unsaved[p][g] + (IF g = h THEN n ELSE 0)
      /\ \A q \in Player \ {p} : unsaved'[q] = unsaved[q]
    BY <1>0, <1>1, GiveType DEF Frame
<1>6. \A g \in Good : \A q \in Player :
         /\ Amount(g, inv[q]) \in Int /\ Amount(g, Owned(q)) \in Int
         /\ undone[q][g] \in Int /\ unsaved[q][g] \in Int
    BY <1>1, AmountOfBag
<1>7. Ledger'
    <2>1. ASSUME NEW g \in Good, NEW q \in Player
          PROVE  Amount(g, Owned(q)') + unsaved'[q][g] = Amount(g, saved'[q])
        <3>0. Amount(g, Owned(q)) + unsaved[q][g] = Amount(g, saved[q])
            BY DEF Sane, Ledger
        <3>1. CASE q = p
            <4>1. Amount(g, b) = Amount(g, inv[p]) - (IF g = h THEN n ELSE 0) /\ n \in Int
                BY <1>0
            <4>2. Amount(g, inv[p]) \in Int /\ unsaved[p][g] \in Int
                BY <1>1, <1>6
            <4>3. unsaved'[p][g] = unsaved[p][g] + (IF g = h THEN n ELSE 0)
                BY <1>5
            <4>4. Amount(g, b) + unsaved'[p][g] = Amount(g, inv[p]) + unsaved[p][g]
                BY <4>1, <4>2, <4>3
            <4>. QED
                BY <1>0, <1>4, <3>0, <3>1, <4>4
        <3>2. CASE q # p
            BY <1>0, <1>4, <1>5, <3>0, <3>2
        <3>. QED
            BY <3>1, <3>2
    <2>. QED
        BY <2>1 DEF Ledger
<1>8. Balance'
    <2>1. ASSUME NEW g \in Good
          PROVE  Held(g)' + Away(g)' = Supply[g]
        <3> DEFINE f == [q \in Player |-> Amount(g, Owned(q)) - undone[q][g]]
                   k == [q \in Player |-> Amount(g, Owned(q)') - undone'[q][g]]
        <3>1. Amount(g, b) = Amount(g, inv[p]) - (IF g = h THEN n ELSE 0) /\ n \in Int
            BY <1>0
        <3>2. /\ f \in [Player -> Int]
              /\ f[p] = Amount(g, inv[p]) - undone[p][g]
            BY <1>1, <1>4, <1>6
        <3>3. /\ \A q \in Player \ {p} : k[q] = f[q]
              /\ k[p] = Amount(g, b) - undone[p][g]
            BY <1>0, <1>1, <1>4
        <3>4. k[p] = f[p] - (IF g = h THEN n ELSE 0) /\ k[p] \in Int
            BY <1>1, <1>6, <3>1, <3>2, <3>3
        <3>5. k \in [Player -> Int]
            <4>1. \A q \in Player : k[q] \in Int
                BY <3>2, <3>3, <3>4
            <4>. QED
                BY <4>1
        <3>6. Held(g) = SumFunction(f) /\ Held(g)' = SumFunction(k)
            BY DEF Held
        <3> HIDE DEF f, k
        <3>7. SumFunction(f) \in Int /\ SumFunction(k) = (SumFunction(f) - f[p]) + k[p]
            <4>1. f \in [Player -> Int] /\ k \in [Player -> Int] /\ p \in Player
                BY <1>1, <3>2, <3>5
            <4>2. \A q \in Player \ {p} : f[q] = k[q]
                BY <3>3
            <4>. QED
                BY ONLY <4>1, <4>2, SumChanges
        <3>8. Held(g) + Away(g) = Supply[g]
            BY DEF Sane, Balance
        <3>9. Away(g) \in Int /\ Away(g)' = Away(g) + (IF g = h THEN n ELSE 0)
            BY <1>0
        <3>10. f[p] \in Int
            BY <1>1, <3>2
        <3>11. SumFunction(k) + Away(g)' = SumFunction(f) + Away(g)
            BY <1>0, <3>4, <3>7, <3>9, <3>10
        <3>. QED
            BY <3>6, <3>8, <3>11
    <2>. QED
        BY <2>1 DEF Balance
<1>. QED
    BY <1>2, <1>3, <1>7, <1>8


-----------------------------------------------------------------------------
(* The orders themselves.                                                    *)

LEMMA AwayType ==
    ASSUME Frame, Sane, NEW g
    PROVE  /\ Counted(rows) /\ Counted(owed)
           /\ Amount(g, rows) \in Int /\ Amount(g, owed) \in Int /\ Away(g) \in Int
<1>1. rows \subseteq Row /\ owed \subseteq Row /\ fees \in Int
    BY DEF Frame, Types
<1>2. Counted(rows) /\ Counted(owed)
    BY <1>1 DEF Row, Sane, Stored, Counted
<1>3. Amount(g, rows) \in Int /\ Amount(g, owed) \in Int
    BY <1>2, AmountType
<1>. QED
    BY <1>1, <1>2, <1>3 DEF Away

\* What an order finds: the bag it takes from or puts into.
LEMMA OrderFinds ==
    ASSUME Frame, Sane, sound', NEW p \in Player, work.who = p, StillSound(p, work.store)
    PROVE  /\ p \in online /\ GoodBag(inv[p])
           /\ inv \in [Player -> SUBSET Slot]
           /\ work.store = Clan => lock = p
<1>1. p \in online
    BY AtWorkIs
<1>2. work.store = Clan => lock = p
    BY DEF StillSound
<1>. QED
    BY <1>1, <1>2 DEF Sane, Bags, Frame, Types

\* The row that an entry of the list is of: the only one of its number, as the entry is
\* the only one of its.
LEMMA RowOfEntry ==
    ASSUME Frame, Sane, NEW p \in Player, work.who = p, work.store = Clan => lock = p,
           NEW e \in cache[p].list
    PROVE  \E r \in rows :
              /\ e \in Row /\ r \in Row /\ Fits(p, r.store) /\ Shows(e, r) /\ r.row = e.row
              /\ \A t \in rows : t.row = e.row <=> t = r
              /\ {t \in rows : t.row # e.row} = rows \ {r}
              /\ {f \in cache[p].list : f.row # e.row} = cache[p].list \ {e}
<1>1. /\ \A f, h \in cache[p].list : f.row = h.row => f = h
      /\ \A f \in cache[p].list : \E r \in rows : Shows(f, r) /\ Fits(p, r.store)
    BY WhatIsSeen
<1>2. PICK r \in rows : Shows(e, r) /\ Fits(p, r.store)
    BY <1>1
<1>3. e \in Row /\ r \in Row
    BY DEF Frame, Types
<1>4. r.row = e.row
    BY <1>2, <1>3, ShowsIs
<1>5. \A t \in rows : t.row = e.row <=> t = r
    BY <1>4 DEF Frame, RowIds
<1>. QED
    BY <1>1, <1>2, <1>3, <1>4, <1>5

\* A row recounted.
Recounted(S, r, m) == (S \ {r}) \cup {With(r, m)}

LEMMA RecountedAmount ==
    ASSUME NEW S, S \subseteq Row, IsFiniteSet(S), \A t, u \in S : t.row = u.row => t = u,
           NEW r \in S, NEW m \in Int
    PROVE  /\ \A g : Amount(g, Recounted(S, r, m))
                        = Amount(g, S) + (IF g = r.good THEN m - r.n ELSE 0)
           /\ IsFiniteSet(Recounted(S, r, m))
           /\ \A t \in Recounted(S, r, m) : t = With(r, m) \/ t \in S
           /\ \A t \in Recounted(S, r, m) : \E u \in S : t.row = u.row /\ t.good = u.good
<1> DEFINE y == With(r, m)
           T == (S \ {r}) \cup {y}
<1>1. r \in Row /\ r.n \in Int
    BY DEF Row
<1>2. y.n = m /\ y.row = r.row /\ y.good = r.good
    BY <1>1, WithRow
<1>3. Counted(S)
    BY DEF Counted, Row
<1> HIDE DEF y
<1>4. y \notin S \ {r} /\ y.n \in Int
    BY <1>2
<1>5. ASSUME NEW g
      PROVE  Counted(T) /\ Amount(g, T) = Amount(g, S) + (IF g = r.good THEN m - r.n ELSE 0)
    <2>1. Counted(T) /\ Amount(g, T) = (Amount(g, S) - Weigh(g, r)) + Weigh(g, y)
        BY <1>3, <1>4, AmountSwap
    <2>2. Amount(g, S) \in Int
        BY <1>3, AmountType
    <2>. QED
        BY <1>1, <1>2, <2>1, <2>2 DEF Weigh
<1>6. \A t \in T : (t = y \/ t \in S) /\ \E u \in S : t.row = u.row /\ t.good = u.good
    BY <1>2
<1>7. T = Recounted(S, r, m)
    BY DEF Recounted, y
<1> HIDE DEF T
<1>8. IsFiniteSet(T)
    BY <1>5 DEF Counted
<1>. QED
    BY <1>5, <1>6, <1>7, <1>8 DEF y

LEMMA RowTraded ==
    ASSUME Frame, Sane, NEW r \in rows, NEW m \in Int, rows' = Recounted(rows, r, m)
    PROVE  /\ \A g : Amount(g, rows') = Amount(g, rows) + (IF g = r.good THEN m - r.n ELSE 0)
           /\ IsFiniteSet(rows')
           /\ \A t \in rows' : t = With(r, m) \/ t \in rows
           /\ \A t \in rows' : \E u \in rows : t.row = u.row /\ t.good = u.good
<1>1. rows \subseteq Row /\ IsFiniteSet(rows) /\ \A t, u \in rows : t.row = u.row => t = u
    BY DEF Frame, Types, RowIds, Sane, Stored
<1>. QED
    BY <1>1, RecountedAmount

LEMMA StackSane ==
    ASSUME Frame, Sane, sound', NEW p \in Player, NEW x \in inv[p], NEW n \in Part(x),
           NEW e \in cache[p].list, StackOrder(p, x, n, e)
    PROVE  Sane'
<1> DEFINE b == Take(inv[p], x, n)
<1>1. /\ work.who = p /\ ~work.out /\ work' = work /\ StillSound(p, work.store)
      /\ x.good = Gold /\ e.good = Gold /\ unsaved' = Give(p, Gold, n)
      /\ UNCHANGED <<online, saved, undone>> /\ UNCHANGED <<member, lock>>
      /\ fees' = fees /\ owed' = owed /\ nextRow' = nextRow
    BY DEF StackOrder, Depositing
<1>2. /\ p \in online /\ GoodBag(inv[p]) /\ inv \in [Player -> SUBSET Slot]
      /\ work.store = Clan => lock = p
    BY <1>1, OrderFinds
<1>3. PICK r \in rows :
              /\ e \in Row /\ r \in Row /\ Fits(p, r.store) /\ Shows(e, r) /\ r.row = e.row
              /\ \A t \in rows : t.row = e.row <=> t = r
              /\ {t \in rows : t.row # e.row} = rows \ {r}
              /\ {f \in cache[p].list : f.row # e.row} = cache[p].list \ {e}
    BY <1>1, <1>2, RowOfEntry
<1>4. n \in Nat /\ e.n \in Int /\ r.n \in Int /\ (x.n > 0 => n > 0) /\ Gold \in Good
    BY <1>2, <1>3 DEF Slot, Row, Part, Good
<1>5. r.good = Gold /\ (e.n = r.n \/ \E o \in owed : o.row = r.row /\ e.n \in r.n..(r.n + o.n))
      /\ e.store = r.store /\ e.obj = r.obj
    BY <1>1, <1>3, ShowsIs
<1> DEFINE y == With(r, r.n + n)
           z == With(e, e.n + n)
<1>6. /\ y \in Row /\ y.n = r.n + n /\ y.row = r.row /\ y.store = r.store /\ y.good = r.good
         /\ y.obj = r.obj
      /\ z \in Row /\ z.n = e.n + n /\ z.row = e.row /\ z.store = e.store /\ z.good = e.good
         /\ z.obj = e.obj
    <2>1. r.n + n \in Int /\ e.n + n \in Int
        BY <1>4
    <2>. QED
        BY <1>3, <2>1, WithRow
<1>7. inv' = [inv EXCEPT ![p] = b]
    BY <1>2 DEF StackOrder
<1>8. rows' = (rows \ {r}) \cup {y}
    <2>1. [r EXCEPT !.n = @ + n] = y
        BY DEF With
    <2> HIDE DEF y
    <2> DEFINE F(t) == IF t.row = e.row THEN [t EXCEPT !.n = @ + n] ELSE t
    <2>2. F(r) = y /\ \A t \in rows \ {r} : F(t) = t
        BY <1>3, <2>1
    <2>3. rows' = {F(t) : t \in rows}
        BY DEF StackOrder
    <2> HIDE DEF F
    <2>. QED
        BY <2>2, <2>3
<1>9. cache' = [cache EXCEPT ![p].list = (cache[p].list \ {e}) \cup {z}]
    BY DEF StackOrder, With, Frame, Types
<1>10. /\ GoodBag(b) /\ \A u \in b : u \in inv[p] \/ u.n > 0
       /\ \A g : Amount(g, b) = Amount(g, inv[p]) - (IF g = Gold THEN n ELSE 0)
    BY <1>1, <1>2, TakeEffect
<1>11. /\ \A g : Amount(g, rows') = Amount(g, rows) + (IF g = Gold THEN n ELSE 0)
       /\ IsFiniteSet(rows')
       /\ \A t \in rows' : t = y \/ t \in rows
       /\ \A t \in rows' : \E u \in rows : t.row = u.row /\ t.good = u.good
    <2>1. r.n + n \in Int /\ (r.n + n) - r.n = n
        BY <1>4
    <2>2. /\ \A g : Amount(g, rows') = Amount(g, rows) + (IF g = r.good THEN (r.n + n) - r.n ELSE 0)
          /\ IsFiniteSet(rows')
          /\ \A t \in rows' : t = y \/ t \in rows
          /\ \A t \in rows' : \E u \in rows : t.row = u.row /\ t.good = u.good
        <3> DEFINE m == r.n + n
        <3> HIDE DEF m
        <3>1. m \in Int /\ rows' = Recounted(rows, r, m)
            BY <1>8, <2>1 DEF m, Recounted
        <3>2. /\ \A g : Amount(g, rows') = Amount(g, rows) + (IF g = r.good THEN m - r.n ELSE 0)
              /\ IsFiniteSet(rows')
              /\ \A t \in rows' : t = With(r, m) \/ t \in rows
              /\ \A t \in rows' : \E u \in rows : t.row = u.row /\ t.good = u.good
            BY <3>1, RowTraded
        <3>. QED
            BY <3>2 DEF m
    <2>. QED
        BY <1>5, <2>1, <2>2
<1> HIDE DEF b, y, z
<1>12. Bags' /\ Ledger' /\ Balance' /\ inv'[p] = b /\ \A q \in Player \ {p} : inv'[q] = inv[q]
    <2>1. \A g \in Good :
             /\ Amount(g, b) = Amount(g, inv[p]) - (IF g = Gold THEN n ELSE 0)
             /\ Away(g) \in Int /\ Away(g)' = Away(g) + (IF g = Gold THEN n ELSE 0)
        <3>1. ASSUME NEW g \in Good
              PROVE  Away(g) \in Int /\ Away(g)' = Away(g) + (IF g = Gold THEN n ELSE 0)
            <4>1. Amount(g, rows) \in Int /\ Amount(g, owed) \in Int /\ Away(g) \in Int /\ fees \in Int
                BY AwayType DEF Frame, Types
            <4>2. Amount(g, rows') = Amount(g, rows) + (IF g = Gold THEN n ELSE 0)
                BY <1>11
            <4>. QED
                BY <1>1, <1>4, <4>1, <4>2 DEF Away
        <3>. QED
            BY <1>10, <3>1
    <2>2. n \in Int
        BY <1>4
    <2>3. Gives(p, b, Gold, n)
        BY <1>1, <1>2, <1>4, <1>7, <1>10, <2>1, <2>2 DEF Gives
    <2>. QED
        BY <2>3, MoveSane
<1>13. Caches'
    <2>1. /\ rows' = {t \in rows : t.row # e.row} \cup {y}
          /\ cache' = [cache EXCEPT ![p].list = {f \in cache[p].list : f.row # e.row} \cup {z}]
        BY <1>3, <1>8, <1>9
    <2>2. Shows(z, y)'
        <3>1. CASE e.n = r.n
            BY <1>3, <1>5, <1>6, <3>1, ShowsIs
        <3>2. CASE \E o \in owed : o.row = r.row /\ e.n \in r.n..(r.n + o.n)
            <4>1. PICK o \in owed : o.row = r.row /\ e.n \in r.n..(r.n + o.n)
                BY <3>2
            <4>2. o.n \in Int
                BY DEF Frame, Types, Row
            <4>3. z.n \in y.n..(y.n + o.n)
                BY <1>4, <1>6, <4>1, <4>2
            <4>. QED
                BY <1>1, <1>3, <1>5, <1>6, <4>1, <4>3, ShowsIs
        <3>. QED
            BY <1>5, <3>1, <3>2
    <2>3. /\ \A t \in {y} : t.row = e.row /\ Fits(p, t.store)
          /\ \A t \in rows : t.row = e.row => Fits(p, t.store)
          /\ \A f, h \in {z} : f = h
          /\ \A f \in {z} : f.row = e.row /\ \E t \in {y} : Shows(f, t)'
          /\ \A t \in {y} : \E f \in {z} : Shows(f, t)'
        BY <1>3, <1>6, <2>2
    <2>4. work.who = p /\ (work.store = Clan => lock = p) /\ UNCHANGED <<member, lock>>
          /\ \A o : o.row # e.row => (o \in owed' <=> o \in owed)
        BY <1>1, <1>2
    <2> DEFINE i == e.row
               R == {y}
               L == {z}
    <2> HIDE DEF i, R, L
    <2>5. /\ Frame /\ Sane /\ p \in Player
          /\ work.who = p /\ (work.store = Clan => lock = p)
          /\ rows' = {t \in rows : t.row # i} \cup R
          /\ cache' = [cache EXCEPT ![p].list = {f \in cache[p].list : f.row # i} \cup L]
          /\ \A t \in R : t.row = i /\ Fits(p, t.store)
          /\ \A t \in rows : t.row = i => Fits(p, t.store)
          /\ \A f, h \in L : f = h
          /\ \A f \in L : f.row = i /\ \E t \in R : Shows(f, t)'
          /\ \A t \in R : \E f \in L : Shows(f, t)'
          /\ \A o : o.row # i => (o \in owed' <=> o \in owed)
          /\ UNCHANGED <<member, lock>>
        BY <2>1, <2>3, <2>4 DEF i, R, L
    <2>. QED
        BY ONLY <2>5, MoveCaches
<1>14. Stored'
    <2>1. Debts' /\ IsFiniteSet(owed')
        BY <1>1, <1>11 DEF Sane, Stored, Debts
    <2>2. Full'
        <3>1. ASSUME owed' = {}, NEW q \in Player, NEW u \in inv'[q] \cup saved'[q]
              PROVE  u.n > 0
            BY <1>1, <1>10, <1>12, <3>1 DEF Sane, Stored, Full
        <3>2. ASSUME owed' = {}, NEW t \in rows'
              PROVE  t.n > 0
            BY <1>1, <1>4, <1>6, <1>11, <3>2 DEF Sane, Stored, Full
        <3>. QED
            BY <3>1, <3>2 DEF Full
    <2>. QED
        BY <1>11, <2>1, <2>2 DEF Stored
<1>15. Solvent'
    BY <1>1 DEF Solvent
<1>. QED
    BY <1>12, <1>13, <1>14, <1>15 DEF Sane

LEMMA NewRowSane ==
    ASSUME Frame, Sane, sound', NEW p \in Player, NEW x \in inv[p], NEW n \in Part(x),
           NewRowOrder(p, x, n)
    PROVE  Sane'
<1> DEFINE b == Take(inv[p], x, n)
           i == nextRow + 1
           y == [row |-> nextRow + 1, store |-> KeyOf(p, work.store),
                 obj |-> RowNumber(x, n), good |-> x.good, n |-> n]
<1>1. /\ work.who = p /\ ~work.out /\ work' = work /\ StillSound(p, work.store)
      /\ unsaved' = Give(p, x.good, n) /\ nextRow' = nextRow + 1
      /\ UNCHANGED <<online, saved, undone>> /\ UNCHANGED <<member, lock>>
      /\ fees' = fees /\ owed' = owed
    BY DEF NewRowOrder, Depositing
<1>2. /\ p \in online /\ GoodBag(inv[p]) /\ inv \in [Player -> SUBSET Slot]
      /\ work.store = Clan => lock = p
    BY <1>1, OrderFinds
<1>3. /\ n \in Nat /\ (x.n > 0 => n > 0) /\ x.good \in Good /\ nextRow \in Int
      /\ rows \subseteq Row
    BY <1>2 DEF Slot, Part, Frame, Types
<1>4. inv' = [inv EXCEPT ![p] = b]
    BY <1>2 DEF NewRowOrder
<1>5. rows' = rows \cup {y} /\ cache' = [cache EXCEPT ![p].list = cache[p].list \cup {y}]
    BY <1>1 DEF NewRowOrder
<1>6. y.row = i /\ y.store = KeyOf(p, work.store) /\ y.good = x.good /\ y.n = n
    OBVIOUS
<1>7. y \in Row
    <2>1. Frame'
        BY NewRowFrame
    <2> HIDE DEF y
    <2>. QED
        BY <1>5, <2>1 DEF Frame, Types
<1>8. /\ \A t \in rows : t.row <= nextRow /\ t.row \in Int
      /\ \A t \in rows : t.row # i
    <2>1. \A t \in rows : t.row <= nextRow /\ t.row \in Int
        BY <1>3 DEF Frame, RowIds, Row
    <2>. QED
        BY <1>3, <2>1
<1>9. /\ GoodBag(b) /\ \A u \in b : u \in inv[p] \/ u.n > 0
      /\ \A g : Amount(g, b) = Amount(g, inv[p]) - (IF g = x.good THEN n ELSE 0)
    BY <1>2, TakeEffect
<1> HIDE DEF b, y, i
<1>10. /\ \A g : Amount(g, rows') = Amount(g, rows) + Weigh(g, y)
       /\ IsFiniteSet(rows')
    <2>1. Counted(rows) /\ y \notin rows /\ y.n \in Int
        BY <1>3, <1>6, <1>8, AwayType
    <2>2. Counted(rows') /\ \A g : Amount(g, rows') = Amount(g, rows) + Weigh(g, y)
        BY <1>5, <2>1, AmountMore
    <2>. QED
        BY <2>2 DEF Counted
<1>11. Bags' /\ Ledger' /\ Balance' /\ inv'[p] = b /\ \A q \in Player \ {p} : inv'[q] = inv[q]
    <2>1. \A g \in Good :
             /\ Amount(g, b) = Amount(g, inv[p]) - (IF g = x.good THEN n ELSE 0)
             /\ Away(g) \in Int /\ Away(g)' = Away(g) + (IF g = x.good THEN n ELSE 0)
        <3>1. ASSUME NEW g \in Good
              PROVE  Away(g) \in Int /\ Away(g)' = Away(g) + (IF g = x.good THEN n ELSE 0)
            <4>1. Amount(g, rows) \in Int /\ Amount(g, owed) \in Int /\ Away(g) \in Int /\ fees \in Int
                BY AwayType DEF Frame, Types
            <4>2. Amount(g, rows') = Amount(g, rows) + (IF g = x.good THEN n ELSE 0)
                BY <1>6, <1>10 DEF Weigh
            <4>. QED
                BY <1>1, <1>3, <4>1, <4>2 DEF Away
        <3>. QED
            BY <1>9, <3>1
    <2>2. n \in Int
        BY <1>3
    <2>3. Gives(p, b, x.good, n)
        BY <1>1, <1>2, <1>3, <1>4, <1>9, <2>1, <2>2 DEF Gives
    <2>. QED
        BY <2>3, MoveSane
<1>12. Caches'
    <2>0. \A f \in cache[p].list : f.row # i
        <3>1. ASSUME NEW f \in cache[p].list
              PROVE  f.row # i
            <4>1. \E t \in rows : t.row = f.row
                BY <1>1, <1>2, <3>1, RowOfEntry
            <4>. QED
                BY <1>8, <4>1
        <3>. QED
            BY <3>1
    <2>1. /\ rows' = {t \in rows : t.row # i} \cup {y}
          /\ cache' = [cache EXCEPT ![p].list = {f \in cache[p].list : f.row # i} \cup {y}]
        <3>1. {t \in rows : t.row # i} = rows /\ {f \in cache[p].list : f.row # i} = cache[p].list
            BY <1>8, <2>0
        <3>. QED
            BY <1>5, <3>1
    <2>2. \A f : f = y => Shows(f, f)'
        BY <1>7, ShowsIs
    <2>3. /\ \A t \in {y} : t.row = i /\ Fits(p, t.store)
          /\ \A t \in rows : t.row = i => Fits(p, t.store)
          /\ \A f, h \in {y} : f = h
          /\ \A f \in {y} : f.row = i /\ \E t \in {y} : Shows(f, t)'
          /\ \A t \in {y} : \E f \in {y} : Shows(f, t)'
        <3>1. Fits(p, KeyOf(p, work.store))
            BY <1>1, <1>2, WhatIsSeen
        <3>. QED
            BY <1>6, <1>8, <2>2, <3>1
    <2>4. work.who = p /\ (work.store = Clan => lock = p) /\ UNCHANGED <<member, lock>>
          /\ \A o : o.row # i => (o \in owed' <=> o \in owed)
        BY <1>1, <1>2
    <2> DEFINE R == {y}
    <2> HIDE DEF R
    <2>5. /\ Frame /\ Sane /\ p \in Player
          /\ work.who = p /\ (work.store = Clan => lock = p)
          /\ rows' = {t \in rows : t.row # i} \cup R
          /\ cache' = [cache EXCEPT ![p].list = {f \in cache[p].list : f.row # i} \cup R]
          /\ \A t \in R : t.row = i /\ Fits(p, t.store)
          /\ \A t \in rows : t.row = i => Fits(p, t.store)
          /\ \A f, h \in R : f = h
          /\ \A f \in R : f.row = i /\ \E t \in R : Shows(f, t)'
          /\ \A t \in R : \E f \in R : Shows(f, t)'
          /\ \A o : o.row # i => (o \in owed' <=> o \in owed)
          /\ UNCHANGED <<member, lock>>
        BY <2>1, <2>3, <2>4 DEF R
    <2>. QED
        BY ONLY <2>5, MoveCaches
<1>13. Stored'
    <2>1. Debts'
        <3>1. \A o \in owed : o.row \in Int /\ o.row <= nextRow
            BY DEF Frame, Types, Row, Sane, Stored, Debts
        <3>2. \A o \in owed : o.row # i /\ o.row <= nextRow'
            BY <1>1, <1>3, <3>1 DEF i
        <3>3. \A o \in owed', t \in rows' : o.row = t.row => o.good = t.good
            BY <1>1, <1>5, <1>6, <3>2 DEF Sane, Stored, Debts
        <3>. QED
            BY <1>1, <3>2, <3>3 DEF Sane, Stored, Debts
    <2>2. Full'
        <3>0. owed' = {} => x.n > 0 /\ n > 0
            BY <1>1, <1>3 DEF Sane, Stored, Full
        <3>1. ASSUME owed' = {}, NEW q \in Player, NEW u \in inv'[q] \cup saved'[q]
              PROVE  u.n > 0
            BY <1>1, <1>9, <1>11, <3>1 DEF Sane, Stored, Full
        <3>2. ASSUME owed' = {}, NEW t \in rows'
              PROVE  t.n > 0
            BY <1>1, <1>5, <1>6, <3>0, <3>2 DEF Sane, Stored, Full
        <3>. QED
            BY <3>1, <3>2 DEF Full
    <2>. QED
        BY <1>1, <1>10, <2>1, <2>2 DEF Stored, Sane
<1>14. Solvent'
    BY <1>1 DEF Solvent
<1>. QED
    BY <1>11, <1>12, <1>13, <1>14 DEF Sane

\* What is left in the store when n of good h has been handed out of it.
HandedOut(h, n) ==
    /\ \A g \in Good : Away(g)' = Away(g) - (IF g = h THEN n ELSE 0)
    /\ Debts' /\ IsFiniteSet(rows') /\ IsFiniteSet(owed')
    /\ owed' = {} => owed = {}
    /\ \A t \in rows' : t \in rows \/ t.n > 0

LEMMA RepaidIs ==
    ASSUME NEW r, NEW n, NEW o \in owed, owed \subseteq Row, r.row = o.row, ~(n <= r.n),
           \A d \in owed : d.row = o.row => d = o
    PROVE  Repaid(r, n) = Recounted(owed, o, o.n - (n - r.n))
<1> DEFINE F(d) == IF d.row = r.row THEN [d EXCEPT !.n = @ - (n - r.n)] ELSE d
<1>1. \A d \in owed \ {o} : F(d) = d
    OBVIOUS
<1>2. F(o) = With(o, o.n - (n - r.n))
    BY DEF With
<1>3. Repaid(r, n) = {F(d) : d \in owed}
    BY DEF Repaid
<1> HIDE DEF F
<1>4. {F(d) : d \in owed} = (owed \ {o}) \cup {F(o)}
    BY <1>1
<1>. QED
    BY <1>2, <1>3, <1>4 DEF Recounted

\* The row that goods are withdrawn from keeps the rest of them, or goes.
IsRowOf(r, e) == r \in rows /\ \A t \in rows : t.row = e.row <=> t = r

LEMMA RowLeft ==
    ASSUME NEW e, NEW n \in Nat, NEW r \in Row, IsRowOf(r, e)
    PROVE  /\ n < r.n => WithdrawRow(e, n) = Recounted(rows, r, r.n - n)
           /\ n >= r.n => WithdrawRow(e, n) = rows \ {r}
<1> DEFINE y == With(r, r.n - n)
           left == {[t EXCEPT !.n = @ - n] : t \in {q \in rows : q.row = e.row}}
<1>1. r.n \in Int /\ r.n - n \in Int
    BY DEF Row
<1>2. y.n = r.n - n
    BY <1>1, WithRow
<1>3. left = {y}
    <2>1. {q \in rows : q.row = e.row} = {r}
        BY DEF IsRowOf
    <2>2. [r EXCEPT !.n = @ - n] = y
        BY DEF With
    <2>. QED
        BY <2>1, <2>2
<1> HIDE DEF y, left
<1>4. WithdrawRow(e, n) = (rows \ {r}) \cup {t \in left : t.n > 0}
    <2>1. {t \in rows : t.row # e.row} = rows \ {r}
        BY DEF IsRowOf
    <2>. QED
        BY <2>1 DEF WithdrawRow, left
<1>5. n < r.n => {t \in left : t.n > 0} = {y}
    BY <1>1, <1>2, <1>3
<1>6. n >= r.n => {t \in left : t.n > 0} = {}
    BY <1>1, <1>2, <1>3
<1>. QED
    BY <1>4, <1>5, <1>6 DEF Recounted, y

LEMMA WithdrawOut ==
    ASSUME Frame, Sane, NEW p \in Player, NEW e \in cache[p].list, NEW n \in Part(e),
           WithdrawOrder(p, e, n), work.store = Clan => lock = p
    PROVE  HandedOut(e.good, n) /\ Caches'
<1>1. /\ work.who = p /\ UNCHANGED <<member, lock>> /\ fees' = fees /\ nextRow' = nextRow
      /\ rows' = WithdrawRow(e, n)
    BY DEF WithdrawOrder, Withdrawing
<1>2. PICK r \in rows :
              /\ e \in Row /\ r \in Row /\ Fits(p, r.store) /\ Shows(e, r) /\ r.row = e.row
              /\ \A t \in rows : t.row = e.row <=> t = r
              /\ {t \in rows : t.row # e.row} = rows \ {r}
              /\ {f \in cache[p].list : f.row # e.row} = cache[p].list \ {e}
    BY <1>1, RowOfEntry
<1>3. /\ e.n \in Int /\ r.n \in Int /\ n \in Nat /\ n <= e.n /\ r.good \in Good
      /\ cache \in [Player -> [store : Player \cup {Clan, NoPlayer}, list : SUBSET Row]]
      /\ owed \subseteq Row
    BY <1>2 DEF Row, Part, Frame, Types
<1>4. /\ r.good = e.good /\ r.store = e.store /\ r.obj = e.obj
      /\ e.n = r.n \/ \E o \in owed : o.row = r.row /\ e.n \in r.n..(r.n + o.n)
    BY <1>2, ShowsIs
<1>5. \A o \in owed : o.n \in Int /\ o.n >= 0 /\ (\A d \in owed : d.row = o.row => d = o)
    BY <1>3 DEF Row, Sane, Stored, Debts
<1>6. r.n <= e.n
    BY <1>3, <1>4, <1>5
<1>7. owed' = Repaid(r, n)
    BY <1>2 DEF WithdrawOrder
<1>8. /\ n < r.n => rows' = Recounted(rows, r, r.n - n)
      /\ n >= r.n => rows' = rows \ {r}
    <2>1. r \in Row /\ n \in Nat /\ IsRowOf(r, e)
        BY <1>2, <1>3 DEF IsRowOf
    <2>2. /\ n < r.n => WithdrawRow(e, n) = Recounted(rows, r, r.n - n)
          /\ n >= r.n => WithdrawRow(e, n) = rows \ {r}
        BY ONLY <2>1, RowLeft
    <2>. QED
        BY ONLY <1>1, <2>2
<1>9. \A g : /\ Amount(g, rows) \in Int /\ Amount(g, owed) \in Int /\ Away(g) \in Int
    BY AwayType
<1>10. fees \in Int
    BY DEF Frame, Types
<1>11. Debts /\ IsFiniteSet(rows) /\ IsFiniteSet(owed)
    BY DEF Sane, Stored
<1>12. work.who = p /\ (work.store = Clan => lock = p) /\ UNCHANGED <<member, lock>>
    BY <1>1
<1>13. CASE n < r.n
    <2> DEFINE m == r.n - n
               y == With(r, m)
               z == With(e, e.n - n)
    <2>1. m \in Int /\ m > 0 /\ m - r.n = 0 - n /\ e.n - n \in Int
        BY <1>3, <1>13
    <2> HIDE DEF m
    <2>2. /\ y \in Row /\ y.n = m /\ y.row = r.row /\ y.store = r.store /\ y.good = r.good
             /\ y.obj = r.obj
          /\ z \in Row /\ z.n = e.n - n /\ z.row = e.row /\ z.store = e.store /\ z.good = e.good
             /\ z.obj = e.obj
        BY <1>2, <2>1, WithRow
    <2>3. rows' = Recounted(rows, r, m) /\ owed' = owed
        BY <1>7, <1>8, <1>13, <1>3 DEF m, Repaid
    <2>4. /\ \A g : Amount(g, rows') = Amount(g, rows) + (IF g = r.good THEN m - r.n ELSE 0)
          /\ IsFiniteSet(rows')
          /\ \A t \in rows' : t = With(r, m) \/ t \in rows
          /\ \A t \in rows' : \E u \in rows : t.row = u.row /\ t.good = u.good
        BY <2>1, <2>3, RowTraded
    <2>5. rows' = (rows \ {r}) \cup {y}
        BY <2>3 DEF Recounted
    <2> HIDE DEF y, z
    <2>6. \A g \in Good : Away(g)' = Away(g) - (IF g = e.good THEN n ELSE 0)
        BY <1>1, <1>3, <1>4, <1>9, <1>10, <2>1, <2>3, <2>4 DEF Away
    <2>7. Debts'
        BY <1>1, <1>11, <2>3, <2>4 DEF Debts
    <2>8. HandedOut(e.good, n)
        BY <1>11, <2>1, <2>2, <2>3, <2>4, <2>6, <2>7 DEF HandedOut, y
    <2>9. cache' = [cache EXCEPT ![p].list = (cache[p].list \ {e}) \cup {z}]
        <3>1. y \in WithdrawRow(e, n) /\ y.row = e.row
            BY <1>1, <1>2, <2>2, <2>5
        <3>2. ~(n >= e.n \/ \A t \in WithdrawRow(e, n) : t.row # e.row)
            BY <1>3, <1>6, <1>13, <3>1
        <3>. QED
            BY <1>3, <3>2 DEF WithdrawOrder, With, z
    <2>10. Shows(z, y)'
        <3>1. CASE e.n = r.n
            BY <1>2, <1>4, <2>2, <3>1, ShowsIs DEF m
        <3>2. CASE \E o \in owed : o.row = r.row /\ e.n \in r.n..(r.n + o.n)
            <4>1. PICK o \in owed : o.row = r.row /\ e.n \in r.n..(r.n + o.n)
                BY <3>2
            <4>2. z.n \in y.n..(y.n + o.n)
                BY <1>3, <1>5, <2>2, <4>1 DEF m
            <4>. QED
                BY <1>2, <1>4, <2>2, <2>3, <4>1, <4>2, ShowsIs
        <3>. QED
            BY <1>4, <3>1, <3>2
    <2> DEFINE i == e.row
               R == {y}
               L == {z}
    <2> HIDE DEF i, R, L
    <2>11. /\ Frame /\ Sane /\ p \in Player
           /\ work.who = p /\ (work.store = Clan => lock = p)
           /\ rows' = {t \in rows : t.row # i} \cup R
           /\ cache' = [cache EXCEPT ![p].list = {f \in cache[p].list : f.row # i} \cup L]
           /\ \A t \in R : t.row = i /\ Fits(p, t.store)
           /\ \A t \in rows : t.row = i => Fits(p, t.store)
           /\ \A f, h \in L : f = h
           /\ \A f \in L : f.row = i /\ \E t \in R : Shows(f, t)'
           /\ \A t \in R : \E f \in L : Shows(f, t)'
           /\ \A o : o.row # i => (o \in owed' <=> o \in owed)
           /\ UNCHANGED <<member, lock>>
        BY <1>2, <1>12, <2>2, <2>3, <2>5, <2>9, <2>10 DEF i, R, L
    <2>12. Caches'
        BY ONLY <2>11, MoveCaches
    <2>. QED
        BY <2>8, <2>12
<1>14. CASE n >= r.n
    <2>1. rows' = rows \ {r}
        BY <1>8, <1>14
    <2>2. /\ \A g : Amount(g, rows') = Amount(g, rows) - Weigh(g, r)
          /\ IsFiniteSet(rows')
        <3>1. Counted(rows)
            BY AwayType
        <3>. QED
            BY <2>1, <3>1, AmountLess DEF Counted
    <2>3. /\ \A g : Amount(g, owed') = Amount(g, owed) - (IF g = e.good THEN n - r.n ELSE 0)
          /\ IsFiniteSet(owed') /\ (owed' = {} => owed = {})
          /\ \A o, d \in owed' : o.row = d.row => o = d
          /\ \A o \in owed' : o.n >= 0 /\ \E d \in owed : o.row = d.row /\ o.good = d.good
          /\ \A o : o.row # e.row => (o \in owed' <=> o \in owed)
        <3>1. CASE n = r.n
            <4>1. owed' = owed /\ n - r.n = 0
                BY <1>3, <1>7, <3>1 DEF Repaid
            <4>. QED
                BY <1>5, <1>9, <1>11, <4>1
        <3>2. CASE ~(n <= r.n)
            <4>1. e.n # r.n
                BY <1>3, <3>2
            <4>2. PICK o \in owed : o.row = r.row /\ e.n \in r.n..(r.n + o.n)
                BY <1>4, <4>1
            <4> DEFINE k == o.n - (n - r.n)
            <4>3. k \in Int /\ k >= 0 /\ k - o.n = 0 - (n - r.n) /\ n - r.n \in Int
                BY <1>3, <1>5, <4>2
            <4>4. owed' = Recounted(owed, o, k)
                BY <1>3, <1>5, <1>7, <3>2, <4>2, RepaidIs
            <4> HIDE DEF k
            <4>5. /\ \A g : Amount(g, Recounted(owed, o, k))
                               = Amount(g, owed) + (IF g = o.good THEN k - o.n ELSE 0)
                  /\ IsFiniteSet(Recounted(owed, o, k))
                  /\ \A t \in Recounted(owed, o, k) : \E u \in owed : t.row = u.row /\ t.good = u.good
                BY <1>3, <1>5, <1>11, <4>3, RecountedAmount
            <4>6. o.good = e.good
                BY <1>4, <1>11, <4>2 DEF Debts
            <4>7. With(o, k).n = k /\ With(o, k).row = o.row
                BY <1>3, <4>3, WithRow
            <4>8. owed' = (owed \ {o}) \cup {With(o, k)}
                BY <4>4 DEF Recounted
            <4>9. /\ \A u, d \in owed' : u.row = d.row => u = d
                  /\ \A u \in owed' : u.n >= 0
                  /\ \A u : u.row # e.row => (u \in owed' <=> u \in owed)
                  /\ owed' # {}
                BY <1>2, <1>5, <4>2, <4>3, <4>7, <4>8
            <4>10. \A g : Amount(g, owed') = Amount(g, owed) - (IF g = e.good THEN n - r.n ELSE 0)
                BY <1>9, <4>3, <4>4, <4>5, <4>6
            <4>. QED
                BY <4>4, <4>5, <4>9, <4>10
        <3>. QED
            BY <1>3, <1>14, <3>1, <3>2
    <2>4. \A g \in Good : Away(g)' = Away(g) - (IF g = e.good THEN n ELSE 0)
        <3>1. ASSUME NEW g \in Good
              PROVE  Away(g)' = Away(g) - (IF g = e.good THEN n ELSE 0)
            <4>1. /\ Amount(g, rows') = Amount(g, rows) - (IF g = e.good THEN r.n ELSE 0)
                  /\ Amount(g, owed') = Amount(g, owed) - (IF g = e.good THEN n - r.n ELSE 0)
                BY <1>4, <2>2, <2>3 DEF Weigh
            <4>2. Amount(g, rows) \in Int /\ Amount(g, owed) \in Int
                BY <1>9
            <4>. QED
                BY <1>1, <1>3, <1>10, <4>1, <4>2 DEF Away
        <3>. QED
            BY <3>1
    <2>5. Debts'
        <3>1. \A o \in owed' : o.row <= nextRow'
            BY <1>1, <1>11, <2>3 DEF Debts
        <3>2. \A o \in owed', t \in rows' : o.row = t.row => o.good = t.good
            BY <1>11, <2>1, <2>3 DEF Debts
        <3>. QED
            BY <2>3, <3>1, <3>2 DEF Debts
    <2>6. HandedOut(e.good, n)
        BY <2>1, <2>2, <2>3, <2>4, <2>5 DEF HandedOut
    <2>7. cache' = [cache EXCEPT ![p].list = (cache[p].list \ {e}) \cup {}]
        <3>1. \A t \in WithdrawRow(e, n) : t.row # e.row
            BY <1>1, <1>2, <2>1
        <3>. QED
            BY <1>3, <3>1 DEF WithdrawOrder
    <2> DEFINE i == e.row
               R == {}
    <2> HIDE DEF i, R
    <2>8. /\ Frame /\ Sane /\ p \in Player
          /\ work.who = p /\ (work.store = Clan => lock = p)
          /\ rows' = {t \in rows : t.row # i} \cup R
          /\ cache' = [cache EXCEPT ![p].list = {f \in cache[p].list : f.row # i} \cup R]
          /\ \A t \in R : t.row = i /\ Fits(p, t.store)
          /\ \A t \in rows : t.row = i => Fits(p, t.store)
          /\ \A f, h \in R : f = h
          /\ \A f \in R : f.row = i /\ \E t \in R : Shows(f, t)'
          /\ \A t \in R : \E f \in R : Shows(f, t)'
          /\ \A o : o.row # i => (o \in owed' <=> o \in owed)
          /\ UNCHANGED <<member, lock>>
        BY <1>2, <1>12, <2>1, <2>3, <2>7 DEF i, R
    <2>9. Caches'
        BY ONLY <2>8, MoveCaches
    <2>. QED
        BY <2>6, <2>9
<1>. QED
    BY <1>3, <1>13, <1>14

LEMMA WithdrawSane ==
    ASSUME Frame, Sane, sound', NEW p \in Player, NEW e \in cache[p].list, NEW n \in Part(e),
           WithdrawOrder(p, e, n)
    PROVE  Sane'
<1> DEFINE fresh == e.good = Gold /\ \A x \in inv[p] : x.good # Gold
           id == IF fresh THEN nextObj' ELSE e.obj
           b == Put(inv[p], id, e.good, n)
<1>1. /\ work.who = p /\ work.out /\ work' = [work EXCEPT !.moved = TRUE]
      /\ StillSound(p, work.store) /\ unsaved' = Give(p, e.good, -n)
      /\ UNCHANGED <<online, saved, undone>>
    BY DEF WithdrawOrder, Withdrawing
<1>2. /\ p \in online /\ GoodBag(inv[p]) /\ inv \in [Player -> SUBSET Slot]
      /\ work.store = Clan => lock = p
    BY <1>1, OrderFinds
<1>3. HandedOut(e.good, n) /\ Caches'
    BY <1>2, WithdrawOut
<1>4. /\ n \in Nat /\ e.good \in Good /\ e.obj \in 1..MaxObj /\ nextObj \in 0..MaxObj
      /\ (e.n > 0 => n > 0)
    BY DEF Frame, Types, Row, Part
<1>5. id \in 1..MaxObj /\ (e.good \in Arms => id = e.obj)
    <2>1. fresh => nextObj' = nextObj + 1 /\ nextObj' <= MaxObj
        BY DEF WithdrawOrder
    <2>. QED
        BY <1>4, <2>1
<1>6. inv' = [inv EXCEPT ![p] = b]
    BY <1>2 DEF WithdrawOrder
<1>7. e.good \in Arms => \A x \in inv[p] : x.obj # id
    BY <1>5 DEF WithdrawOrder
<1> HIDE DEF id
<1>8. /\ GoodBag(b)
      /\ \A g : Amount(g, b) = Amount(g, inv[p]) + (IF g = e.good THEN n ELSE 0)
      /\ n > 0 => \A z \in b : z \in inv[p] \/ z.n > 0
    BY <1>2, <1>4, <1>5, <1>7, PutEffect
<1> HIDE DEF b
<1>9. \A g : Amount(g, inv[p]) \in Int /\ Away(g) \in Int
    BY AmountOfBag, AwayType
<1>10. Bags' /\ Ledger' /\ Balance' /\ inv'[p] = b /\ \A q \in Player \ {p} : inv'[q] = inv[q]
    <2> DEFINE k == -n
    <2>1. k \in Int /\ \A g \in Good : /\ Amount(g, b) = Amount(g, inv[p]) - (IF g = e.good THEN k ELSE 0)
                                       /\ Away(g)' = Away(g) + (IF g = e.good THEN k ELSE 0)
        BY <1>3, <1>4, <1>8, <1>9 DEF HandedOut
    <2> HIDE DEF k
    <2>2. unsaved' = Give(p, e.good, k)
        BY <1>1 DEF k
    <2>3. Gives(p, b, e.good, k)
        BY <1>1, <1>2, <1>4, <1>6, <1>8, <1>9, <2>1, <2>2 DEF Gives
    <2>. QED
        BY <2>3, MoveSane
<1>11. Stored'
    <2>1. Full'
        <3>0. ASSUME owed' = {}
              PROVE  n > 0
            <4>1. owed = {}
                BY <1>3, <3>0 DEF HandedOut
            <4>2. PICK r \in rows : Shows(e, r) /\ r \in Row /\ e \in Row
                BY <1>1, <1>2, RowOfEntry
            <4>3. e.n = r.n /\ r.n > 0
                BY <4>1, <4>2, ShowsIs DEF Sane, Stored, Full
            <4>. QED
                BY <1>4, <4>3
        <3>1. ASSUME owed' = {}, NEW q \in Player, NEW u \in inv'[q] \cup saved'[q]
              PROVE  u.n > 0
            <4>1. owed = {}
                BY <1>3, <3>1 DEF HandedOut
            <4>. QED
                BY <1>1, <1>8, <1>10, <3>0, <3>1, <4>1 DEF Sane, Stored, Full
        <3>2. ASSUME owed' = {}, NEW t \in rows'
              PROVE  t.n > 0
            BY <1>3, <3>2 DEF HandedOut, Sane, Stored, Full
        <3>. QED
            BY <3>1, <3>2 DEF Full
    <2>. QED
        BY <1>3, <2>1 DEF Stored, HandedOut
<1>12. Solvent'
    <2>1. work'.who = p
        BY <1>1 DEF Frame, Types
    <2>2. Amount(Gold, inv[p]) >= Fee
        BY <1>1 DEF Sane, Solvent
    <2>3. Amount(Gold, b) >= Fee
        BY <1>4, <1>8, <1>9, <2>2
    <2>. QED
        BY <1>10, <2>1, <2>3 DEF Solvent
<1>. QED
    BY <1>3, <1>10, <1>11, <1>12 DEF Sane

\* A DELETE that fails keeps back what its UPDATE took.
LEMMA FailSane ==
    ASSUME Frame, Sane, sound', NEW p \in Player, NEW e \in cache[p].list, NEW n \in Part(e),
           WithdrawFails(p, e, n)
    PROVE  Sane'
<1>1. /\ work.who = p /\ StillSound(p, work.store) /\ fees' = fees /\ nextRow' = nextRow
      /\ UNCHANGED <<online, inv, saved, unsaved, undone, work, member, lock>>
      /\ cache' = cache
      /\ owed' = owed \cup {With(e, n)}
      /\ \A o \in owed : o.row # e.row
    BY DEF WithdrawFails, Withdrawing, mind, With
<1>2. work.store = Clan => lock = p
    BY <1>1, OrderFinds
<1>3. PICK r \in rows :
              /\ e \in Row /\ r \in Row /\ Fits(p, r.store) /\ Shows(e, r) /\ r.row = e.row
              /\ \A t \in rows : t.row = e.row <=> t = r
              /\ {t \in rows : t.row # e.row} = rows \ {r}
              /\ {f \in cache[p].list : f.row # e.row} = cache[p].list \ {e}
    BY <1>1, <1>2, RowOfEntry
<1>4. /\ r.good = e.good /\ r.store = e.store /\ r.obj = e.obj /\ e.n = r.n
    BY <1>1, <1>3, ShowsIs
<1>5. /\ e.n \in Int /\ n \in Nat /\ r.n = n
    <2>1. r.n <= n
        BY <1>3 DEF WithdrawFails
    <2>. QED
        BY <1>3, <1>4, <2>1 DEF Row, Part
<1> DEFINE y == With(r, 0)
           d == With(e, n)
<1>6. /\ y \in Row /\ y.n = 0 /\ y.row = r.row /\ y.store = r.store /\ y.good = r.good
         /\ y.obj = r.obj
      /\ d \in Row /\ d.n = n /\ d.row = e.row /\ d.good = e.good
    BY <1>3, <1>5, WithRow
<1>7. rows' = Recounted(rows, r, 0)
    <2> DEFINE F(t) == IF t.row = e.row THEN [t EXCEPT !.n = @ - n] ELSE t
    <2>1. [r EXCEPT !.n = @ - n] = y
        BY <1>5 DEF With
    <2>2. F(r) = y /\ \A t \in rows \ {r} : F(t) = t
        BY <1>3, <2>1
    <2>3. rows' = {F(t) : t \in rows}
        BY DEF WithdrawFails
    <2> HIDE DEF F, y
    <2>4. rows' = (rows \ {r}) \cup {y}
        BY <2>2, <2>3
    <2>. QED
        BY <2>4 DEF Recounted, y
<1>8. /\ \A g : Amount(g, rows') = Amount(g, rows) + (IF g = r.good THEN 0 - r.n ELSE 0)
      /\ IsFiniteSet(rows')
      /\ \A t \in rows' : t = y \/ t \in rows
    BY <1>7, RowTraded
<1>9. rows' = (rows \ {r}) \cup {y}
    BY <1>7 DEF Recounted
<1> HIDE DEF y, d
<1>10. owed' = owed \cup {d}
    BY <1>1 DEF d
<1>11. /\ \A g : Amount(g, owed') = Amount(g, owed) + Weigh(g, d)
       /\ IsFiniteSet(owed')
    <2>1. Counted(owed) /\ d \notin owed /\ d.n \in Int
        BY <1>1, <1>5, <1>6, AwayType
    <2>2. Counted(owed') /\ \A g : Amount(g, owed') = Amount(g, owed) + Weigh(g, d)
        BY <1>10, <2>1, AmountMore
    <2>. QED
        BY <2>2 DEF Counted
<1>12. Bags' /\ Ledger' /\ Solvent' /\ \A q \in Player : Owned(q)' = Owned(q)
    <2>1. \A q \in Player : Owned(q)' = Owned(q)
        BY <1>1 DEF Owned
    <2>. QED
        BY <1>1, <2>1 DEF Sane, Bags, Ledger, Solvent
<1>13. Balance'
    <2>1. ASSUME NEW g \in Good
          PROVE  Held(g)' + Away(g)' = Supply[g]
        <3>1. Held(g)' = Held(g)
            BY <1>1, <1>12, HeldSame
        <3>2. /\ Amount(g, rows') = Amount(g, rows) - (IF g = e.good THEN n ELSE 0)
              /\ Amount(g, owed') = Amount(g, owed) + (IF g = e.good THEN n ELSE 0)
              /\ Amount(g, rows) \in Int /\ Amount(g, owed) \in Int /\ fees \in Int
            BY <1>4, <1>5, <1>6, <1>8, <1>11, AwayType DEF Weigh, Frame, Types
        <3>3. Away(g)' = Away(g)
            BY <1>1, <1>5, <3>2 DEF Away
        <3>. QED
            BY <3>1, <3>3 DEF Sane, Balance
    <2>. QED
        BY <2>1 DEF Balance
<1>14. Stored'
    <2>1. \A o \in owed' : o.n >= 0 /\ o.row <= nextRow'
        BY <1>1, <1>3, <1>5, <1>6, <1>10 DEF Sane, Stored, Debts, Frame, RowIds
    <2>2. \A o, c \in owed' : o.row = c.row => o = c
        BY <1>1, <1>6, <1>10 DEF Sane, Stored, Debts
    <2>3. \A o \in owed', t \in rows' : o.row = t.row => o.good = t.good
        BY <1>1, <1>3, <1>4, <1>6, <1>9, <1>10 DEF Sane, Stored, Debts
    <2>4. Full'
        BY <1>10 DEF Full
    <2>. QED
        BY <1>8, <1>11, <2>1, <2>2, <2>3, <2>4 DEF Stored, Debts
<1>15. Caches'
    <2>1. Shows(e, y)'
        <3>1. d \in owed' /\ d.row = y.row /\ e.n \in y.n..(y.n + d.n)
            BY <1>3, <1>4, <1>5, <1>6, <1>10
        <3>. QED
            BY <1>3, <1>4, <1>6, <3>1, ShowsIs
    <2>2. cache' = [cache EXCEPT ![p].list = (cache[p].list \ {e}) \cup {e}]
        <3>1. (cache[p].list \ {e}) \cup {e} = cache[p].list
            OBVIOUS
        <3>2. cache[p] = [cache[p] EXCEPT !.list = cache[p].list]
            BY DEF Frame, Types
        <3>. QED
            BY <1>1, <3>1, <3>2 DEF Frame, Types
    <2> DEFINE i == e.row
               R == {y}
               L == {e}
    <2> HIDE DEF i, R, L
    <2>3. /\ Frame /\ Sane /\ p \in Player
          /\ work.who = p /\ (work.store = Clan => lock = p)
          /\ rows' = {t \in rows : t.row # i} \cup R
          /\ cache' = [cache EXCEPT ![p].list = {f \in cache[p].list : f.row # i} \cup L]
          /\ \A t \in R : t.row = i /\ Fits(p, t.store)
          /\ \A t \in rows : t.row = i => Fits(p, t.store)
          /\ \A f, h \in L : f = h
          /\ \A f \in L : f.row = i /\ \E t \in R : Shows(f, t)'
          /\ \A t \in R : \E f \in L : Shows(f, t)'
          /\ \A o : o.row # i => (o \in owed' <=> o \in owed)
          /\ UNCHANGED <<member, lock>>
        BY <1>1, <1>2, <1>3, <1>6, <1>9, <1>10, <2>1, <2>2 DEF i, R, L
    <2>. QED
        BY ONLY <2>3, MoveCaches
<1>. QED
    BY <1>12, <1>13, <1>14, <1>15 DEF Sane

LEMMA FinishSane ==
    ASSUME Frame, Sane, FinishWork
    PROVE  Sane'
<1>0. PICK p \in Player : p = work.who
    BY DEF FinishWork, Frame, AtWork, Types
<1> DEFINE b == Paid(inv[p])
<1>1. /\ UNCHANGED <<online, saved, undone>> /\ UNCHANGED <<cache, member, rows, owed, nextRow>>
      /\ work' = Idle /\ (lock' = lock \/ lock' = NoPlayer) /\ PayFee(work.who)
    BY DEF FinishWork, disk, Release
<1>2. p \in online
    BY <1>0 DEF FinishWork, Frame, AtWork
<1>3. GoodBag(inv[p]) /\ fees \in Nat
    BY DEF Sane, Bags, Frame, Types
<1>4. Solvent' /\ Caches'
    BY <1>1, IdleIs, ListsStay DEF Solvent
<1>5. Debts' /\ IsFiniteSet(rows') /\ IsFiniteSet(owed')
    BY <1>1 DEF Sane, Stored, Debts
<1>6. \/ inv' = [inv EXCEPT ![p] = b] /\ fees' = fees + Fee /\ unsaved' = Give(p, Gold, Fee)
         /\ work.out
      \/ UNCHANGED <<inv, fees, unsaved>>
    BY <1>0, <1>1, PayFeeIs DEF Frame
<1>7. CASE UNCHANGED <<inv, fees, unsaved>>
    <2>1. \A q \in Player : Owned(q)' = Owned(q)
        BY <1>1, <1>7 DEF Owned
    <2>2. Balance'
        BY <1>1, <1>7, <2>1, Quiet
    <2>3. Bags' /\ Ledger' /\ Full'
        BY <1>1, <1>7, <2>1 DEF Sane, Bags, Stored, Full, Ledger
    <2>. QED
        BY <1>4, <1>5, <2>2, <2>3 DEF Sane, Stored
<1>8. CASE /\ inv' = [inv EXCEPT ![p] = b] /\ fees' = fees + Fee /\ unsaved' = Give(p, Gold, Fee)
           /\ work.out
    <2>1. Amount(Gold, inv[p]) >= Fee
        BY <1>0, <1>8 DEF Sane, Solvent
    <2>2. /\ GoodBag(b) /\ \A z \in b : z \in inv[p] \/ z.n > 0
          /\ \A g : Amount(g, b) = Amount(g, inv[p]) - FeeIn(g)
        BY <1>3, <2>1, PaidEffect
    <2> HIDE DEF b
    <2>3. \A g \in Good : Away(g) \in Int /\ Away(g)' = Away(g) + (IF g = Gold THEN Fee ELSE 0)
        <3>1. ASSUME NEW g \in Good
              PROVE  Away(g) \in Int /\ Away(g)' = Away(g) + (IF g = Gold THEN Fee ELSE 0)
            <4>1. Amount(g, rows) \in Int /\ Amount(g, owed) \in Int /\ Away(g) \in Int
                BY AwayType
            <4>. QED
                BY <1>1, <1>3, <1>8, <4>1 DEF Away
        <3>. QED
            BY <3>1
    <2>4. Gives(p, b, Gold, Fee)
        <3>1. Gold \in Good /\ Fee \in Int
            BY DEF Good
        <3>. QED
            BY <1>1, <1>2, <1>8, <2>2, <2>3, <3>1 DEF Gives, FeeIn
    <2>5. Bags' /\ Ledger' /\ Balance' /\ inv'[p] = b /\ \A q \in Player \ {p} : inv'[q] = inv[q]
        BY <2>4, MoveSane
    <2>6. Full'
        BY <1>1, <2>2, <2>5 DEF Sane, Stored, Full
    <2>. QED
        BY <1>4, <1>5, <2>5, <2>6 DEF Sane, Stored
<1>. QED
    BY <1>6, <1>7, <1>8

LEMMA InitSane == Init => Sane
<1> SUFFICES ASSUME Init
             PROVE  Sane
    OBVIOUS
<1>1. \A p \in Player :
         /\ GoodBag(FirstBag[p]) /\ Owned(p) = FirstBag[p] /\ saved[p] = FirstBag[p] /\ inv[p] = {}
         /\ \A g \in Good : unsaved[p][g] = 0 /\ undone[p][g] = 0
    BY NothingIs DEF Init, GoodBag, Object, Slot, Owned
<1>2. Bags
    BY <1>1, FS_EmptySet DEF Init, Bags, GoodBag
<1>3. Stored
    <2>1. rows = {} /\ owed = {} /\ \A p \in Player : \A x \in inv[p] \cup saved[p] : x \in Object
        BY <1>1 DEF Init
    <2>. QED
        BY <2>1, FS_EmptySet DEF Stored, Debts, Full, Object
<1>4. Ledger
    <2>1. \A g : \A p \in Player : Amount(g, saved[p]) \in Int
        BY <1>1, GoodBagCounted, AmountType
    <2>. QED
        BY <1>1, <2>1 DEF Ledger
<1>5. Caches
    <2>1. \A p \in Player : cache[p].store = NoPlayer
        BY DEF Init, Closed
    <2>. QED
        BY <2>1, StoresDiffer DEF Caches
<1>6. Solvent
    BY IdleIs DEF Init, Solvent
<1>7. Balance
    <2>1. ASSUME NEW g \in Good
          PROVE  Held(g) + Away(g) = Supply[g]
        <3> DEFINE f == [p \in Player |-> Amount(g, Owned(p)) - undone[p][g]]
                   k == [p \in Player |-> Amount(g, FirstBag[p])]
        <3>1. \A p \in Player : Amount(g, FirstBag[p]) \in Int
            BY <1>1, GoodBagCounted, AmountType
        <3>2. f = k
            BY <1>1, <3>1
        <3>3. Held(g) = SumFunction(f)
            BY DEF Held
        <3>4. Supply[g] = SumFunction(k)
            <4>1. Supply[g] = AmountOfAll(g, FirstBag)
                BY DEF Supply
            <4>2. DOMAIN FirstBag = Player
                OBVIOUS
            <4>. QED
                BY <4>1, <4>2 DEF AmountOfAll
        <3>5. SumFunction(k) \in Int
            <4>1. SumFunction(k) = SumFunctionOnSet(k, Player)
                BY DEF SumFunction
            <4>2. Player \in FiniteSubsetsOf(Player) /\ \A p \in Player : k[p] \in Int
                BY <3>1 DEF FiniteSubsetsOf
            <4> HIDE DEF k
            <4>. QED
                BY <4>1, <4>2, SumType
        <3> HIDE DEF f, k
        <3>6. Away(g) = 0
            <4>1. Amount(g, rows) = 0 /\ Amount(g, owed) = 0 /\ fees = 0
                BY AmountOfNothing DEF Init
            <4>. QED
                BY <4>1 DEF Away
        <3>. QED
            BY <3>2, <3>3, <3>4, <3>5, <3>6
    <2>. QED
        BY <2>1 DEF Balance
<1>. QED
    BY <1>2, <1>3, <1>4, <1>5, <1>6, <1>7 DEF Sane

\* The inductive invariant.
WInv == Frame /\ (sound => Sane)

LEMMA StepSane ==
    ASSUME WInv, [Next]_vars
    PROVE  WInv'
<1>1. Frame /\ Frame'
    BY StepFrame DEF WInv
<1>2. ASSUME sound'
      PROVE  Sane'
    <2>1. sound /\ Sane
        BY <1>1, <1>2, NeverSoundAgain DEF WInv
    <2>2. ASSUME NEW p \in Player, Step(p)
          PROVE  Sane'
        <3>1. CASE \/ OpenWarehouse(p) \/ OpenClanWarehouse(p) \/ ReleaseClanWarehouse(p)
                   \/ \E s \in {p, Clan} : BeginDeposit(p, s) \/ BeginWithdraw(p, s)
            BY <1>1, <2>1, <3>1, OpenSane
        <3>2. CASE DepositOrder(p)
            BY <1>1, <1>2, <2>1, <3>2, StackSane, NewRowSane DEF DepositOrder
        <3>3. CASE \E e \in cache[p].list : \E n \in Part(e) :
                      WithdrawOrder(p, e, n) \/ WithdrawFails(p, e, n)
            BY <1>1, <1>2, <2>1, <3>3, WithdrawSane, FailSane
        <3>4. CASE LeaveClan(p) \/ BanMember(p)
            BY <1>1, <2>1, <3>4, PartingSane
        <3>5. CASE HandleDisconnect(p) \/ HandleChangeChar(p)
            BY <1>1, <2>1, <3>5, VanishSane
        <3>6. CASE EnterWorld(p)
            BY <1>1, <2>1, <3>6, EnterSane
        <3>. QED
            BY <2>2, <3>1, <3>2, <3>3, <3>4, <3>5, <3>6 DEF Step
    <2>3. CASE FinishWork
        BY <1>1, <2>1, <2>3, FinishSane
    <2>4. CASE AutoSave
        BY <1>1, <2>1, <2>4, SaveSane
    <2>5. CASE Restart
        BY <1>1, <2>1, <2>5, RestartSane
    <2>6. CASE UNCHANGED vars
        <3>1. UNCHANGED <<online, inv, saved, rows, cache, member, lock, work, fees, owed, nextRow,
                          unsaved, undone>>
            BY <2>6 DEF vars, mind, disk, history, ledger
        <3>2. \A q \in Player : Owned(q)' = Owned(q)
            BY <3>1 DEF Owned
        <3>3. Balance' /\ Debts' /\ IsFiniteSet(rows') /\ IsFiniteSet(owed')
            BY <2>1, <3>1, <3>2, Quiet
        <3>4. Caches'
            BY <2>1, <3>1, ListsStay
        <3>5. Bags' /\ Solvent' /\ Ledger' /\ Full'
            BY <2>1, <3>1, <3>2 DEF Sane, Bags, Stored, Full, Solvent, Ledger
        <3>. QED
            BY <3>3, <3>4, <3>5 DEF Sane, Stored
    <2>. QED
        BY <2>2, <2>3, <2>4, <2>5, <2>6 DEF Next
<1>. QED
    BY <1>1, <1>2 DEF WInv

LEMMA WInvHolds == Spec => []WInv
<1>1. Init => WInv
    BY InitFrame, InitSane DEF WInv
<1>2. WInv /\ [Next]_vars => WInv'
    BY StepSane
<1>. QED
    BY <1>1, <1>2, PTL DEF Spec

\* Slots and rows are of their types, who is out of the world has nothing in memory, and
\* no slot is empty unless a DELETE that failed left an empty row (warehouse_repo.go:105).
THEOREM WarehouseTypeCorrect == Spec => []TypeOK
<1>1. WInv => TypeOK
    BY DEF WInv, Frame, Sane, Stored, Full, TypeOK
<1>. QED
    BY <1>1, WInvHolds, PTL

\* Deposits, withdrawals, fees, partings, saves and restarts neither make goods nor lose
\* any, whichever statement fails and whenever the process dies, as long as the clan's
\* warehouse was worked in under its lock: what a failed DELETE keeps back is what its
\* UPDATE took, and what a crash or a failed save gives back or takes is what the player
\* had moved since his inventory was saved.
THEOREM WarehouseGoodsAreConserved == Spec => []GoodsConserved
<1>1. WInv => GoodsConserved
    <2> SUFFICES ASSUME Frame, Sane, NEW g \in Good
                 PROVE  /\ Held(g) + Amount(g, rows) + Amount(g, owed)
                             + (IF g = Gold THEN fees ELSE 0) = Supply[g]
                        /\ \A o \in owed : o.n >= 0
                        /\ \A p \in Player : Amount(g, Owned(p)) + unsaved[p][g] = Amount(g, saved[p])
        BY DEF WInv, GoodsConserved
    <2>1. \A o \in owed : o.n >= 0
        BY DEF Sane, Stored, Debts
    <2>2. \A p \in Player : Amount(g, Owned(p)) + unsaved[p][g] = Amount(g, saved[p])
        BY DEF Sane, Ledger
    <2>3. Held(g) + Away(g) = Supply[g]
        BY DEF Sane, Balance
    <2>4. Amount(g, rows) \in Int /\ Amount(g, owed) \in Int /\ fees \in Int
        BY AwayType DEF Frame, Types
    <2>5. Held(g) \in Int
        <3> DEFINE f == [p \in Player |-> Amount(g, Owned(p)) - undone[p][g]]
        <3>1. \A p \in Player : f[p] \in Int
            BY AmountOfBag DEF Frame, Types
        <3>2. Player \in FiniteSubsetsOf(Player)
            BY DEF FiniteSubsetsOf
        <3>3. Held(g) = SumFunctionOnSet(f, Player)
            BY DEF Held, SumFunction
        <3> HIDE DEF f
        <3>. QED
            BY <3>1, <3>2, <3>3, SumType
    <2>. QED
        BY <2>1, <2>2, <2>3, <2>4, <2>5 DEF Away
<1>. QED
    BY <1>1, WInvHolds, PTL

\* The list that decides which row a packet changes is what the table says, but for what
\* a failed DELETE has taken from a row and still owes.
THEOREM WarehouseCacheIsCurrent == Spec => []CacheIsCurrent
<1>1. WInv => CacheIsCurrent
    BY DEF WInv, Frame, Types, Sane, Caches, CacheIsCurrent
<1>. QED
    BY <1>1, WInvHolds, PTL
=============================================================================
