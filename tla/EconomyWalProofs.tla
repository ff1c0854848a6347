-------------------------- MODULE EconomyWalProofs --------------------------
(***************************************************************************)
(* Proofs about inventories, their rows and the economic log, for any      *)
(* finite sets of players and objects and any bounds: replaying the log    *)
(* gives everybody what he owned, nothing is duplicated without a failed   *)
(* write, and the saves that end a player's stay save him whole.           *)
(*                                                                         *)
(* The second half is about shops, whose orders the log records: for any   *)
(* traders, goods, prices, weights and limits, what is sold is paid for,   *)
(* whatever orders a packet mixes, and buying neither makes nor loses any. *)
(***************************************************************************)
EXTENDS EconomyWal, Shop, Sums, SequenceTheorems

USE WalAssumption

RowsUnique == \A i \in Item : RowsOf(i) <= 1
OncePerWorld == \A i \in Item : InWorld(i) <= 1

\* A save in progress is the only time there are players left to save.
Idle == mode \in {"running", "stopped", "crashed"} => todo = {}
\* Who is not in the world offers nothing.
Outside == \A p \in Player \ online : window[p] = Nothing

\* RecoveryMatchesMemory, of all players and in every mode.
LogTells ==
    settled /\ RowsUnique =>
        /\ Replay(db, wal) = Owned
        /\ OncePerWorld

\* As long as no write failed and no crash hit unsaved work: nothing is duplicated, and
\* whichever way the server stopped, what it left behind will not duplicate anything.
Unhurt ==
    mishaps = 0 =>
        /\ OncePerWorld /\ InWorld(Adena) <= minted
        /\ settled => RowsUnique
        /\ mode = "crashed" => settled
        /\ mode = "stopped" => wal = <<>>
        /\ mode \in {"shutdown", "stopped"} => \A p \in online \ todo : db[p] = inv[p]

\* The part that holds by itself, and the inductive invariant.
Frame == TypeOK /\ Idle /\ Outside
WInv == TypeOK /\ Idle /\ Outside /\ LogTells /\ Unhurt

-----------------------------------------------------------------------------
(* The log, replayed entry by entry.                                         *)

\* r[k] are the rows after k entries of the log.
Trace(r, rows, log, n) ==
    r[0] = rows /\ \A k \in 1..n : r[k] = ReplayEntry(r[k - 1], log[k])

\* The function FoldLeft computes with: the rows after the entries at a set of places.
Folds(h, rows, log, D) ==
    h = [s \in SUBSET D |-> IF s = {} THEN rows
                            ELSE ReplayEntry(h[s \ {Max(s)}], log[Max(s)])]

LEMMA FoldsExist ==
    ASSUME NEW rows, NEW log
    PROVE  \A n \in Nat : \E h : Folds(h, rows, log, 1..n)
<1> DEFINE G == {n \in Nat : \E h : Folds(h, rows, log, 1..n)}
<1>1. 0 \in G
    <2> DEFINE h == [s \in {{}} |-> rows]
    <2>1. SUBSET (1..0) = {{}}
        OBVIOUS
    <2>2. h = [s \in SUBSET (1..0) |-> IF s = {} THEN rows
                                       ELSE ReplayEntry(h[s \ {Max(s)}], log[Max(s)])]
        BY <2>1
    <2>. QED
        BY <2>2 DEF Folds
<1>2. ASSUME NEW n \in Nat, n \in G
      PROVE  n + 1 \in G
    <2>1. PICK f : Folds(f, rows, log, 1..n)
        BY <1>2
    <2> DEFINE h == [s \in SUBSET (1..(n + 1)) |->
                        IF n + 1 \in s THEN ReplayEntry(f[s \ {n + 1}], log[n + 1]) ELSE f[s]]
    <2>2. ASSUME NEW s \in SUBSET (1..(n + 1))
          PROVE  h[s] = IF s = {} THEN rows ELSE ReplayEntry(h[s \ {Max(s)}], log[Max(s)])
        <3>1. CASE n + 1 \in s
            <4>1. Max(s) = n + 1
                <5>1. \A y \in s : y \in Nat /\ n + 1 >= y
                    OBVIOUS
                <5>2. \A x \in s : (\A y \in s : x >= y) => x = n + 1
                    BY <3>1, <5>1
                <5>. QED
                    BY <3>1, <5>1, <5>2 DEF Max
            <4>2. s \ {n + 1} \in SUBSET (1..(n + 1)) /\ n + 1 \notin s \ {n + 1}
                OBVIOUS
            <4>3. h[s \ {n + 1}] = f[s \ {n + 1}]
                BY <4>2
            <4>. QED
                BY <3>1, <4>1, <4>3
        <3>2. CASE n + 1 \notin s
            <4>1. s \in SUBSET (1..n) /\ s \ {Max(s)} \in SUBSET (1..(n + 1)) /\ n + 1 \notin s \ {Max(s)}
                <5>1. \A x \in 1..(n + 1) : x # n + 1 => x \in 1..n
                    OBVIOUS
                <5>. QED
                    BY <3>2, <5>1
            <4>2. f[s] = IF s = {} THEN rows ELSE ReplayEntry(f[s \ {Max(s)}], log[Max(s)])
                BY <2>1, <4>1 DEF Folds
            <4>3. h[s] = f[s] /\ h[s \ {Max(s)}] = f[s \ {Max(s)}]
                BY <3>2, <4>1
            <4>. QED
                BY <4>2, <4>3
        <3>. QED
            BY <3>1, <3>2
    <2>3. Folds(h, rows, log, 1..(n + 1))
        <3>1. h = [s \in SUBSET (1..(n + 1)) |-> h[s]]
            OBVIOUS
        <3> HIDE DEF h
        <3>. QED
            BY <2>2, <3>1 DEF Folds
    <2>. QED
        BY <2>3
<1>3. Nat \subseteq G
    <2> HIDE DEF G
    <2>. QED
        BY <1>1, <1>2, Upwards
<1>. QED
    BY <1>3

\* Replay is what the last of the rows are.
LEMMA ReplayTraces ==
    ASSUME NEW rows, NEW n \in Nat, NEW log, DOMAIN log = 1..n
    PROVE  \E r : Trace(r, rows, log, n) /\ Replay(rows, log) = r[n]
<1> DEFINE Folding(h) == h = [s \in SUBSET DOMAIN log |->
                IF s = {} THEN rows ELSE ReplayEntry(h[s \ {Max(s)}], log[Max(s)])]
           h == CHOOSE h : Folding(h)
           r == [k \in 0..n |-> h[1..k]]
<1>1. Replay(rows, log) = h[1..n]
    BY DEF Replay, FoldLeft, MapThenFoldSet
<1>2. \A f : Folding(f) <=> Folds(f, rows, log, 1..n)
    BY DEF Folds
<1>3. Folds(h, rows, log, 1..n)
    <2>1. \E f : Folding(f)
        BY <1>2, FoldsExist
    <2> HIDE DEF Folding
    <2>. QED
        BY <1>2, <2>1
<1> HIDE DEF h, Folding
<1>4. r[0] = rows
    <2>1. 1..0 = {} /\ {} \in SUBSET (1..n)
        OBVIOUS
    <2>2. h[{}] = rows
        BY <1>3, <2>1 DEF Folds
    <2>. QED
        BY <2>1, <2>2
<1>5. ASSUME NEW k \in 1..n
      PROVE  r[k] = ReplayEntry(r[k - 1], log[k])
    <2>1. Max(1..k) = k
        <3>1. \A x \in 1..k : (\A y \in 1..k : x >= y) => x = k
            OBVIOUS
        <3>2. k \in 1..k /\ \A y \in 1..k : k >= y
            OBVIOUS
        <3>. QED
            BY <3>1, <3>2 DEF Max
    <2>2. 1..k \in SUBSET (1..n) /\ 1..k # {} /\ (1..k) \ {k} = 1..(k - 1)
        <3>1. k \in Nat /\ 1 <= k /\ k <= n
            OBVIOUS
        <3>2. \A x : x \in (1..k) \ {k} <=> x \in 1..(k - 1)
            BY <3>1
        <3>3. \A x : x \in 1..k => x \in 1..n
            BY <3>1
        <3>4. k \in 1..k
            BY <3>1
        <3>. QED
            BY <3>2, <3>3, <3>4
    <2>3. h[1..k] = ReplayEntry(h[1..(k - 1)], log[k])
        BY <1>3, <2>1, <2>2 DEF Folds
    <2>4. k \in 0..n /\ k - 1 \in 0..n
        OBVIOUS
    <2>. QED
        BY <2>3, <2>4
<1>6. Trace(r, rows, log, n)
    BY <1>4, <1>5 DEF Trace
<1>. QED
    BY <1>1, <1>6

LEMMA TracesAgree ==
    ASSUME NEW rows, NEW n \in Nat, NEW l, NEW m, \A k \in 1..n : l[k] = m[k],
           NEW r, NEW s, Trace(r, rows, l, n), Trace(s, rows, m, n)
    PROVE  r[n] = s[n]
<1> DEFINE G == {k \in Nat : k <= n => r[k] = s[k]}
<1>1. 0 \in G
    BY DEF Trace
<1>2. ASSUME NEW k \in Nat, k \in G
      PROVE  k + 1 \in G
    <2>1. CASE k + 1 <= n
        <3>1. k + 1 \in 1..n /\ (k + 1) - 1 = k /\ k <= n
            BY <2>1
        <3>2. r[k] = s[k]
            BY <1>2, <3>1
        <3>3. r[k + 1] = ReplayEntry(r[k], l[k + 1]) /\ s[k + 1] = ReplayEntry(s[k], m[k + 1])
            BY <3>1 DEF Trace
        <3>. QED
            BY <3>1, <3>2, <3>3
    <2>. QED
        BY <2>1
<1>3. Nat \subseteq G
    <2> HIDE DEF G
    <2>. QED
        BY <1>1, <1>2, Upwards
<1>. QED
    BY <1>3

LEMMA ReplayEmpty == \A rows : Replay(rows, <<>>) = rows
<1> SUFFICES ASSUME NEW rows PROVE Replay(rows, <<>>) = rows
    OBVIOUS
<1>1. DOMAIN <<>> = 1..0
    OBVIOUS
<1>2. PICK r : Trace(r, rows, <<>>, 0) /\ Replay(rows, <<>>) = r[0]
    BY <1>1, ReplayTraces
<1>. QED
    BY <1>2 DEF Trace

LEMMA ReplayOne == \A rows, e : Replay(rows, <<e>>) = ReplayEntry(rows, e)
<1> SUFFICES ASSUME NEW rows, NEW e PROVE Replay(rows, <<e>>) = ReplayEntry(rows, e)
    OBVIOUS
<1> DEFINE log == <<e>>
           n == 1
<1>1. DOMAIN log = 1..n /\ n \in Nat /\ log[1] = e
    OBVIOUS
<1> HIDE DEF log, n
<1>2. PICK r : Trace(r, rows, log, n) /\ Replay(rows, log) = r[n]
    BY <1>1, ReplayTraces
<1>3. r[1] = ReplayEntry(r[0], log[1]) /\ r[0] = rows
    BY <1>2 DEF Trace, n
<1>. QED
    BY <1>1, <1>2, <1>3 DEF log, n

\* The entries of a longer log are replayed on what the first part of it leaves.
LEMMA ReplayConcat ==
    ASSUME NEW rows, NEW S, NEW l \in Seq(S), NEW m \in Seq(S)
    PROVE  Replay(rows, l \o m) = Replay(Replay(rows, l), m)
<1> DEFINE n == Len(l)
           d == Len(m)
           lm == l \o m
<1>1. n \in Nat /\ d \in Nat /\ DOMAIN l = 1..n /\ DOMAIN m = 1..d /\ DOMAIN lm = 1..(n + d)
    BY LenProperties, ConcatProperties
<1>2. /\ \A k \in 1..n : lm[k] = l[k]
      /\ \A k \in 1..d : lm[n + k] = m[k]
    BY ConcatProperties, <1>1
<1> HIDE DEF n, d, lm
<1>3. PICK t : Trace(t, rows, lm, n + d) /\ Replay(rows, lm) = t[n + d]
    BY <1>1, ReplayTraces
<1>4. PICK r : Trace(r, rows, l, n) /\ Replay(rows, l) = r[n]
    BY <1>1, ReplayTraces
<1>5. Trace(t, rows, lm, n)
    BY <1>1, <1>3 DEF Trace
<1>6. t[n] = Replay(rows, l)
    BY <1>1, <1>2, <1>4, <1>5, TracesAgree
<1> DEFINE s == [k \in 0..d |-> t[n + k]]
<1>7. Trace(s, Replay(rows, l), m, d)
    <2>1. s[0] = t[n]
        BY <1>1
    <2>2. ASSUME NEW k \in 1..d
          PROVE  s[k] = ReplayEntry(s[k - 1], m[k])
        <3>1. n + k \in 1..(n + d) /\ (n + k) - 1 = n + (k - 1) /\ k \in 0..d /\ k - 1 \in 0..d
            BY <1>1
        <3>2. t[n + k] = ReplayEntry(t[n + (k - 1)], lm[n + k])
            BY <1>3, <3>1 DEF Trace
        <3>. QED
            BY <1>2, <3>1, <3>2
    <2>. QED
        BY <1>6, <2>1, <2>2 DEF Trace
<1>8. PICK u : Trace(u, Replay(rows, l), m, d) /\ Replay(Replay(rows, l), m) = u[d]
    BY <1>1, ReplayTraces
<1>9. s[d] = u[d] /\ s[d] = t[n + d]
    <2>1. s[d] = t[n + d]
        BY <1>1
    <2> HIDE DEF s
    <2>. QED
        BY <1>1, <1>7, <1>8, <2>1, TracesAgree
<1>. QED
    BY <1>3, <1>8, <1>9 DEF lm

-----------------------------------------------------------------------------
(* Goods, and what an entry and the entries of one side do to the rows.      *)

LEMMA GoodsAre ==
    /\ Adena \in Goods /\ Item \subseteq Goods /\ IsFiniteSet(Goods)
    /\ \A g \in Goods \ {Adena} : g \in Item
BY FS_AddElement DEF Goods

LEMMA PlusMinus ==
    ASSUME NEW a \in [Goods -> Nat], NEW b \in [Goods -> Nat]
    PROVE  /\ a ++ b \in [Goods -> Nat] /\ a -- b \in [Goods -> Nat]
           /\ \A g \in Goods : /\ (a ++ b)[g] = a[g] + b[g]
                               /\ (a -- b)[g] = IF a[g] > b[g] THEN a[g] - b[g] ELSE 0
BY DEF ++, --

LEMMA OnlyAt ==
    ASSUME NEW g \in Goods, NEW n \in Nat
    PROVE  /\ Nothing \in [Goods -> Nat] /\ Only(g, n) \in [Goods -> Nat]
           /\ \A h \in Goods : Nothing[h] = 0 /\ Only(g, n)[h] = IF h = g THEN n ELSE 0
BY DEF Nothing, Only

LEMMA BagsEqual ==
    ASSUME NEW a \in [Goods -> Nat], NEW b \in [Goods -> Nat], \A g \in Goods : a[g] = b[g]
    PROVE  a = b
OBVIOUS

LEMMA ImageAt ==
    ASSUME NEW x \in Images, NEW p \in Player
    PROVE  x[p] \in [Goods -> Nat] /\ \A g \in Goods : x[p][g] \in Nat
BY DEF Images

\* What is handed over of the good of e.
Handed(x, e) == IF e.good \in Item THEN x[e.from][e.good] ELSE e.count

\* An entry moves what is handed over from one player's rows to the other's.
LEMMA EntryMoves ==
    ASSUME NEW x \in Images, NEW e \in Entries
    PROVE  /\ ReplayEntry(x, e) \in Images /\ Handed(x, e) \in Nat
           /\ ReplayEntry(x, e)[e.from] = x[e.from] -- Only(e.good, Handed(x, e))
           /\ ReplayEntry(x, e)[e.to] = x[e.to] ++ Only(e.good, Handed(x, e))
           /\ \A s \in Player \ {e.from, e.to} : ReplayEntry(x, e)[s] = x[s]
<1> DEFINE n == Handed(x, e)
           a == x[e.from] -- Only(e.good, n)
           b == x[e.to] ++ Only(e.good, n)
<1>1. e.from \in Player /\ e.to \in Player /\ e.good \in Goods /\ e.count \in Nat /\ e.from # e.to
    BY DEF Entries
<1>2. n \in Nat
    BY <1>1, ImageAt DEF Handed
<1>3. a \in [Goods -> Nat] /\ b \in [Goods -> Nat]
    <2> HIDE DEF n
    <2>. QED
        BY <1>1, <1>2, ImageAt, PlusMinus, OnlyAt
<1>4. ReplayEntry(x, e) = [x EXCEPT ![e.from] = a, ![e.to] = b]
    BY <1>1 DEF ReplayEntry, Handed, Images
<1> HIDE DEF n, a, b
<1>5. [x EXCEPT ![e.from] = a, ![e.to] = b] \in Images
    BY <1>1, <1>3 DEF Images
<1>6. /\ ReplayEntry(x, e)[e.from] = a /\ ReplayEntry(x, e)[e.to] = b
      /\ \A s \in Player \ {e.from, e.to} : ReplayEntry(x, e)[s] = x[s]
    BY <1>1, <1>4 DEF Images
<1>. QED
    BY <1>2, <1>4, <1>5, <1>6 DEF n, a, b

\* o lists what p offers, in the order of the entries for it.
Told(o, n, p, q) ==
    /\ n \in Nat /\ o \in [1..n -> {g \in Goods : window[p][g] > 0}]
    /\ \A j, k \in 1..n : o[j] = o[k] => j = k
    /\ \A g \in Goods : window[p][g] > 0 => \E k \in 1..n : o[k] = g
    /\ Gives(p, q) = [k \in 1..n |-> Entry(p, q, o[k], window[p][o[k]])]

\* The entries of one side name every good it offers, once.
LEMMA GivesTold ==
    ASSUME NEW p, NEW q
    PROVE  \E o, n : Told(o, n, p, q)
<1> DEFINE S == {g \in Goods : window[p][g] > 0}
           n == Cardinality(S)
           o == SetToSeq(S)
<1>1. IsFiniteSet(S)
    BY GoodsAre, FS_Subset
<1> HIDE DEF S
<1>2. n \in Nat /\ IsFiniteSet(1..n) /\ Cardinality(1..n) = n
    <2>1. n \in Nat
        BY <1>1, FS_CardinalityType
    <2> HIDE DEF n
    <2>2. IsFiniteSet(1..n) /\ Cardinality(1..n) = IF 1 > n THEN 0 ELSE n - 1 + 1
        <3>1. 1 \in Int /\ n \in Int
            BY <2>1
        <3>. QED
            BY <3>1, FS_Interval
    <2>. QED
        BY <2>1, <2>2
<1>3. \E f \in [1..n -> S] : IsInjective(f)
    BY <1>1, FS_CardinalityType DEF ExistsBijection, Bijection, Injection
<1>4. o \in [1..n -> S] /\ IsInjective(o)
    BY <1>3 DEF SetToSeq
<1>5. o \in Injection(1..n, S)
    BY <1>4 DEF Injection
<1> HIDE DEF n, o
<1>6. o \in Surjection(1..n, S)
    BY <1>1, <1>2, <1>5, FS_Injection DEF n
<1>7. \A j, k \in 1..n : o[j] = o[k] => j = k
    BY <1>4 DEF IsInjective
<1>8. \A g \in S : \E k \in 1..n : o[k] = g
    BY <1>6 DEF Surjection
<1>9. Gives(p, q) = [k \in 1..n |-> Entry(p, q, o[k], window[p][o[k]])]
    <2>1. DOMAIN o = 1..n
        BY <1>4
    <2>. QED
        BY <2>1 DEF Gives, o, S
<1>10. Told(o, n, p, q)
    BY <1>2, <1>4, <1>7, <1>8, <1>9 DEF S, Told
<1>. QED
    BY <1>10

LEMMA GivesType ==
    ASSUME NEW p \in Player, NEW q \in Player, p # q, window \in Images
    PROVE  Gives(p, q) \in Seq(Entries)
<1>1. PICK o, n : Told(o, n, p, q)
    BY GivesTold
<1>2. ASSUME NEW k \in 1..n
      PROVE  Entry(p, q, o[k], window[p][o[k]]) \in Entries
    <2>1. o[k] \in Goods
        BY <1>1 DEF Told
    <2>. QED
        BY <2>1, ImageAt DEF Entry, Entries
<1>. QED
    BY <1>1, <1>2 DEF Told

\* Replaying p's side hands everything p offers to q, if p's rows have as much of it and no
\* more of an object than is offered.
LEMMA GivesMove ==
    ASSUME NEW p \in Player, NEW q \in Player, p # q, window \in Images, NEW x \in Images,
           \A g \in Goods : window[p][g] <= x[p][g],
           \A i \in Item : window[p][i] > 0 => x[p][i] = window[p][i]
    PROVE  /\ Replay(x, Gives(p, q)) \in Images
           /\ \A g \in Goods : /\ Replay(x, Gives(p, q))[p][g] = x[p][g] - window[p][g]
                               /\ Replay(x, Gives(p, q))[q][g] = x[q][g] + window[p][g]
           /\ \A s \in Player \ {p, q} : Replay(x, Gives(p, q))[s] = x[s]
<1>1. PICK o, n : Told(o, n, p, q)
    BY GivesTold
<1>2. /\ n \in Nat /\ o \in [1..n -> {g \in Goods : window[p][g] > 0}]
      /\ \A j, k \in 1..n : o[j] = o[k] => j = k
      /\ \A g \in Goods : window[p][g] > 0 => \E k \in 1..n : o[k] = g
      /\ Gives(p, q) = [k \in 1..n |-> Entry(p, q, o[k], window[p][o[k]])]
    BY <1>1 DEF Told
<1> DEFINE log == Gives(p, q)
           w == window[p]
           Done(k) == {o[j] : j \in 1..k}
<1>3. DOMAIN log = 1..n
    BY <1>2
<1>4. PICK r : Trace(r, x, log, n) /\ Replay(x, log) = r[n]
    <2> HIDE DEF log
    <2>. QED
        BY <1>2, <1>3, ReplayTraces
<1>5. w \in [Goods -> Nat] /\ \A g \in Goods : w[g] \in Nat
    BY ImageAt
<1> DEFINE At(y, k) ==
        /\ y \in Images
        /\ \A s \in Player \ {p, q} : y[s] = x[s]
        /\ \A g \in Goods : /\ y[p][g] = IF g \in Done(k) THEN x[p][g] - w[g] ELSE x[p][g]
                            /\ y[q][g] = IF g \in Done(k) THEN x[q][g] + w[g] ELSE x[q][g]
           G == {k \in Nat : k <= n => At(r[k], k)}
<1>6. 0 \in G
    <2>1. Done(0) = {}
        OBVIOUS
    <2>. QED
        BY <1>4, <2>1 DEF Trace
<1>7. ASSUME NEW k \in Nat, k \in G
      PROVE  k + 1 \in G
    <2>1. SUFFICES ASSUME k + 1 <= n PROVE At(r[k + 1], k + 1)
        OBVIOUS
    <2> DEFINE y == r[k]
               g == o[k + 1]
               e == Entry(p, q, g, w[g])
    <2>2. k + 1 \in 1..n /\ (k + 1) - 1 = k /\ k <= n
        BY <1>2, <2>1
    <2>3. At(y, k)
        BY <1>7, <2>2
    <2>4. g \in Goods /\ w[g] > 0 /\ w[g] \in Nat
        BY <1>2, <1>5, <2>2
    <2>5. r[k + 1] = ReplayEntry(y, e)
        BY <1>2, <1>4, <2>2 DEF Trace
    <2>6. e \in Entries /\ e.from = p /\ e.to = q /\ e.good = g /\ e.count = w[g]
        BY <2>4 DEF Entry, Entries
    <2>7. g \notin Done(k)
        <3>1. ASSUME NEW j \in 1..k, o[j] = g
              PROVE  FALSE
            <4>1. j \in 1..n /\ j # k + 1
                BY <1>2, <2>2
            <4>. QED
                BY <1>2, <2>2, <3>1, <4>1
        <3>. QED
            BY <3>1
    <2>8. Done(k + 1) = Done(k) \cup {g}
        <3>1. 1..(k + 1) = (1..k) \cup {k + 1}
            OBVIOUS
        <3>. QED
            BY <3>1
    <2> DEFINE c == w[g]
               d == Only(g, c)
    <2> HIDE DEF y, g, e, w, log, Done
    <2>9. d \in [Goods -> Nat] /\ \A h \in Goods : d[h] = IF h = g THEN c ELSE 0
        <3>1. c \in Nat
            BY <2>4
        <3> HIDE DEF c
        <3>. QED
            BY <2>4, <3>1, OnlyAt
    <2>10. Handed(y, e) = w[g]
        <3>1. y[p][g] = x[p][g]
            BY <2>3, <2>4, <2>7
        <3>. QED
            BY <2>4, <2>6, <3>1 DEF Handed, w
    <2>11. /\ r[k + 1] \in Images
           /\ r[k + 1][p] = y[p] -- d
           /\ r[k + 1][q] = y[q] ++ d
           /\ \A s \in Player \ {p, q} : r[k + 1][s] = y[s]
        <3>1. y \in Images
            BY <2>3
        <3>2. Handed(y, e) = c /\ Only(e.good, Handed(y, e)) = d
            BY <2>6, <2>10
        <3> HIDE DEF c, d
        <3>. QED
            BY <2>5, <2>6, <3>1, <3>2, EntryMoves
    <2>12. ASSUME NEW h \in Goods
           PROVE  /\ r[k + 1][p][h] = IF h \in Done(k + 1) THEN x[p][h] - w[h] ELSE x[p][h]
                  /\ r[k + 1][q][h] = IF h \in Done(k + 1) THEN x[q][h] + w[h] ELSE x[q][h]
        <3>1. /\ y[p][h] = IF h \in Done(k) THEN x[p][h] - w[h] ELSE x[p][h]
              /\ y[q][h] = IF h \in Done(k) THEN x[q][h] + w[h] ELSE x[q][h]
            BY <2>3
        <3>2. x[p][h] \in Nat /\ x[q][h] \in Nat /\ w[h] \in Nat /\ w[h] <= x[p][h]
            BY <1>5, ImageAt DEF w
        <3>3. y[p] \in [Goods -> Nat] /\ y[q] \in [Goods -> Nat] /\ y[p][h] \in Nat
            BY <2>3, ImageAt
        <3>4. /\ r[k + 1][p][h] = IF y[p][h] > d[h] THEN y[p][h] - d[h] ELSE 0
              /\ r[k + 1][q][h] = y[q][h] + d[h]
            <4> HIDE DEF d
            <4>. QED
                BY <2>11, <2>9, <3>3, PlusMinus
        <3>5. d[h] = IF h = g THEN w[g] ELSE 0
            BY <2>9
        <3>. QED
            BY <2>7, <2>8, <3>1, <3>2, <3>3, <3>4, <3>5
    <2>. QED
        BY <2>3, <2>11, <2>12
<1>8. At(r[n], n)
    <2>1. Nat \subseteq G
        <3> HIDE DEF G
        <3>. QED
            BY <1>6, <1>7, Upwards
    <2>. QED
        BY <1>2, <2>1
<1>9. \A g \in Goods : g \notin Done(n) => w[g] = 0
    BY <1>2, <1>5
<1> HIDE DEF Done
<1>10. ASSUME NEW g \in Goods
      PROVE  /\ r[n][p][g] = x[p][g] - window[p][g] /\ r[n][q][g] = x[q][g] + window[p][g]
    <2>1. x[p][g] \in Nat /\ x[q][g] \in Nat
        BY ImageAt
    <2>. QED
        BY <1>8, <1>9, <2>1
<1>. QED
    BY <1>4, <1>8, <1>10

-----------------------------------------------------------------------------
(* How much there is.                                                        *)

LEMMA PlayersAreFinite == Player \in FiniteSubsetsOf(Player)
BY DEF FiniteSubsetsOf

LEMMA TotalType ==
    ASSUME NEW a \in Images, NEW g \in Goods
    PROVE  TotalOf(a, g) \in Nat
<1> DEFINE f == [p \in Player |-> a[p][g]]
<1>1. \A p \in Player : f[p] \in Nat
    BY ImageAt
<1> HIDE DEF f
<1>2. SumFunctionOnSet(f, Player) \in Nat
    BY <1>1, PlayersAreFinite, SumNat
<1>. QED
    BY <1>2 DEF TotalOf, f

LEMMA TotalLess ==
    ASSUME NEW a \in Images, NEW b \in Images, NEW g \in Goods, \A p \in Player : a[p][g] <= b[p][g]
    PROVE  TotalOf(a, g) <= TotalOf(b, g)
<1> DEFINE f == [p \in Player |-> a[p][g]]
           h == [p \in Player |-> b[p][g]]
<1>1. \A p \in Player : f[p] \in Int /\ h[p] \in Int /\ f[p] <= h[p]
    BY ImageAt
<1> HIDE DEF f, h
<1>2. SumFunctionOnSet(f, Player) <= SumFunctionOnSet(h, Player)
    BY <1>1, PlayersAreFinite, SumLess
<1>. QED
    BY <1>2 DEF TotalOf, f, h

\* A change of what one has is a change of what there is.
LEMMA TotalOne ==
    ASSUME NEW a \in Images, NEW b \in Images, NEW g \in Goods, NEW p \in Player,
           \A s \in Player \ {p} : a[s][g] = b[s][g]
    PROVE  TotalOf(a, g) + b[p][g] = TotalOf(b, g) + a[p][g]
<1> DEFINE f == [s \in Player |-> a[s][g]]
           h == [s \in Player |-> b[s][g]]
           R == Player \ {p}
<1>1. /\ \A s \in Player : f[s] \in Int /\ h[s] \in Int
      /\ \A s \in R : f[s] = h[s]
      /\ f[p] = a[p][g] /\ h[p] = b[p][g]
    BY ImageAt
<1>2. R \in FiniteSubsetsOf(R)
    BY FS_Subset DEF FiniteSubsetsOf
<1> HIDE DEF f, h
<1>3. SumFunctionOnSet(f, R) \in Int /\ SumFunctionOnSet(f, Player) = f[p] + SumFunctionOnSet(f, R)
    BY <1>1, SumWithout
<1>4. SumFunctionOnSet(h, R) \in Int /\ SumFunctionOnSet(h, Player) = h[p] + SumFunctionOnSet(h, R)
    BY <1>1, SumWithout
<1> HIDE DEF R
<1>5. SumFunctionOnSet(f, R) = SumFunctionOnSet(h, R)
    BY <1>1, <1>2, SumEqual
<1>6. TotalOf(a, g) = SumFunctionOnSet(f, Player) /\ TotalOf(b, g) = SumFunctionOnSet(h, Player)
    BY DEF TotalOf, f, h
<1>. QED
    BY <1>1, <1>3, <1>4, <1>5, <1>6

\* What two exchange between them is still all there.
LEMMA TotalTwo ==
    ASSUME NEW a \in Images, NEW b \in Images, NEW g \in Goods,
           NEW p \in Player, NEW q \in Player, p # q,
           \A s \in Player \ {p, q} : a[s][g] = b[s][g],
           a[p][g] + a[q][g] = b[p][g] + b[q][g]
    PROVE  TotalOf(a, g) = TotalOf(b, g)
<1> DEFINE c == [a EXCEPT ![p] = b[p]]
<1>1. c \in Images /\ c[p] = b[p] /\ c[q] = a[q] /\ \A s \in Player \ {p} : c[s] = a[s]
    BY DEF Images
<1> HIDE DEF c
<1>2. TotalOf(a, g) + c[p][g] = TotalOf(c, g) + a[p][g]
    BY <1>1, TotalOne
<1>3. TotalOf(c, g) + b[q][g] = TotalOf(b, g) + c[q][g]
    <2>1. \A s \in Player \ {q} : c[s][g] = b[s][g]
        BY <1>1
    <2>. QED
        BY <1>1, <2>1, TotalOne
<1>4. /\ TotalOf(a, g) \in Nat /\ TotalOf(b, g) \in Nat /\ TotalOf(c, g) \in Nat
      /\ a[p][g] \in Nat /\ a[q][g] \in Nat /\ b[p][g] \in Nat /\ b[q][g] \in Nat
    BY <1>1, TotalType, ImageAt
<1>. QED
    BY <1>1, <1>2, <1>3, <1>4

\* Nobody, and no two, have more than there is.
LEMMA TotalAtLeast ==
    ASSUME NEW a \in Images, NEW g \in Goods
    PROVE  /\ \A p \in Player : a[p][g] <= TotalOf(a, g)
           /\ \A p, q \in Player : p # q => a[p][g] + a[q][g] <= TotalOf(a, g)
<1> DEFINE Less(S) == [s \in Player |-> IF s \in S THEN Nothing ELSE a[s]]
<1>1. \A S \in SUBSET Player : Less(S) \in Images
    BY GoodsAre, OnlyAt DEF Images
<1>2. \A S \in SUBSET Player, s \in Player : Less(S)[s][g] = IF s \in S THEN 0 ELSE a[s][g]
    BY OnlyAt, GoodsAre
<1>3. \A S \in SUBSET Player : TotalOf(Less(S), g) \in Nat
    <2> HIDE DEF Less
    <2>. QED
        BY <1>1, TotalType
<1> HIDE DEF Less
<1>4. TotalOf(a, g) \in Nat /\ \A s \in Player : a[s][g] \in Nat
    BY TotalType, ImageAt
<1>5. ASSUME NEW p \in Player
      PROVE  TotalOf(a, g) = TotalOf(Less({p}), g) + a[p][g]
    <2>1. TotalOf(a, g) + Less({p})[p][g] = TotalOf(Less({p}), g) + a[p][g]
        BY <1>1, <1>2, TotalOne
    <2>. QED
        BY <1>2, <1>3, <1>4, <2>1
<1>6. ASSUME NEW p \in Player, NEW q \in Player, p # q
      PROVE  TotalOf(Less({p}), g) = TotalOf(Less({p, q}), g) + a[q][g]
    <2> DEFINE c == Less({p})
               d == Less({p, q})
    <2>1. c \in Images /\ d \in Images /\ \A s \in Player \ {q} : c[s][g] = d[s][g]
        BY <1>1, <1>2
    <2>2. c[q][g] = a[q][g] /\ d[q][g] = 0
        BY <1>2, <1>6
    <2>3. TotalOf(c, g) \in Nat /\ TotalOf(d, g) \in Nat
        BY <1>3
    <2> HIDE DEF c, d
    <2>4. TotalOf(c, g) + d[q][g] = TotalOf(d, g) + c[q][g]
        BY <2>1, TotalOne
    <2>5. TotalOf(c, g) = TotalOf(d, g) + a[q][g]
        BY <1>4, <2>2, <2>3, <2>4
    <2>. QED
        BY <2>5 DEF c, d
<1>7. ASSUME NEW p \in Player
      PROVE  a[p][g] <= TotalOf(a, g)
    <2>1. TotalOf(Less({p}), g) \in Nat
        BY <1>3
    <2>. QED
        BY <1>4, <1>5, <2>1
<1>8. ASSUME NEW p \in Player, NEW q \in Player, p # q
      PROVE  a[p][g] + a[q][g] <= TotalOf(a, g)
    <2>1. TotalOf(a, g) = (TotalOf(Less({p, q}), g) + a[q][g]) + a[p][g]
        BY <1>5, <1>6, <1>8
    <2>2. TotalOf(Less({p, q}), g) \in Nat
        BY <1>3
    <2>. QED
        BY <1>4, <2>1, <2>2
<1>. QED
    BY <1>7, <1>8

-----------------------------------------------------------------------------
(* Types, and who has nothing in a window.                                   *)

LEMMA ReplayType ==
    ASSUME NEW x \in Images, NEW log \in Seq(Entries)
    PROVE  Replay(x, log) \in Images
<1> DEFINE n == Len(log)
<1>1. n \in Nat /\ DOMAIN log = 1..n /\ \A k \in 1..n : log[k] \in Entries
    BY LenProperties, ElementOfSeq
<1> HIDE DEF n
<1>2. PICK r : Trace(r, x, log, n) /\ Replay(x, log) = r[n]
    BY <1>1, ReplayTraces
<1> DEFINE G == {k \in Nat : k <= n => r[k] \in Images}
<1>3. 0 \in G
    BY <1>2 DEF Trace
<1>4. ASSUME NEW k \in Nat, k \in G
      PROVE  k + 1 \in G
    <2>1. CASE k + 1 <= n
        <3>1. k + 1 \in 1..n /\ (k + 1) - 1 = k /\ k <= n
            BY <1>1, <2>1
        <3>2. r[k + 1] = ReplayEntry(r[k], log[k + 1])
            BY <1>2, <3>1 DEF Trace
        <3>3. r[k + 1] \in Images
            BY <1>1, <1>4, <3>1, <3>2, EntryMoves
        <3>. QED
            BY <3>3
    <2>. QED
        BY <2>1
<1>5. Nat \subseteq G
    <2> HIDE DEF G
    <2>. QED
        BY <1>3, <1>4, Upwards
<1>. QED
    BY <1>1, <1>2, <1>5

LEMMA TypeParts ==
    ASSUME TypeOK
    PROVE  /\ inv \in Images /\ window \in Images /\ db \in Images
           /\ wal \in Seq(Entries) /\ minted \in Nat /\ mishaps \in Nat /\ settled \in BOOLEAN
           /\ todo \subseteq online /\ online \subseteq Player /\ dirty \in [Player -> BOOLEAN]
           /\ \A d \in deals : d \subseteq online
BY DEF TypeOK

LEMMA HeldType ==
    ASSUME TypeOK, NEW p \in Player
    PROVE  /\ Held(p) \in [Goods -> Nat]
           /\ \A g \in Goods : /\ Held(p)[g] = inv[p][g] + window[p][g]
                               /\ inv[p][g] \in Nat /\ window[p][g] \in Nat
<1>1. inv[p] \in [Goods -> Nat] /\ window[p] \in [Goods -> Nat]
    BY TypeParts, ImageAt
<1>. QED
    BY <1>1, PlusMinus DEF Held

LEMMA OwnedType ==
    ASSUME TypeOK
    PROVE  /\ Owned \in Images
           /\ \A p \in online : Owned[p] = Held(p)
           /\ \A p \in Player \ online : Owned[p] = db[p]
<1>1. \A p \in Player : Held(p) \in [Goods -> Nat] /\ db[p] \in [Goods -> Nat]
    BY HeldType, TypeParts, ImageAt
<1>2. online \subseteq Player
    BY TypeParts
<1>. QED
    BY <1>1, <1>2 DEF Owned, Images

\* Counts are set for one player, or for two.
LEMMA InvChange ==
    ASSUME NEW a \in Images, NEW p \in Player, NEW b \in [Goods -> Nat]
    PROVE  /\ [a EXCEPT ![p] = b] \in Images
           /\ \A q \in Player, c \in [Goods -> Nat] : [a EXCEPT ![p] = b, ![q] = c] \in Images
BY DEF Images

LEMMA InitFrame == Init => Frame
<1> SUFFICES ASSUME Init PROVE Frame
    OBVIOUS
<1>1. db \in Images
    <2>1. 0..MaxCount \subseteq Nat
        OBVIOUS
    <2>. QED
        BY <2>1 DEF Init, Images
<1>2. inv \in Images /\ window \in Images
    BY GoodsAre, OnlyAt DEF Init, Images
<1>3. minted \in Nat
    BY <1>1, GoodsAre, TotalType DEF Init, RowsOf
<1>4. \A p \in Player : window[p] = Nothing
    BY DEF Init
<1>5. TypeOK
    BY <1>1, <1>2, <1>3 DEF Init, TypeOK
<1>. QED
    BY <1>4, <1>5 DEF Init, Frame, Idle, Outside

LEMMA OpenTradeFrame ==
    ASSUME Frame, NEW p \in Player, NEW q \in Player, OpenTrade(p, q)
    PROVE  Frame'
<1>1. Cardinality({p, q}) = 2
    <2>1. q \notin {p} /\ {p, q} = {p} \cup {q}
        BY DEF OpenTrade
    <2>2. IsFiniteSet({p}) /\ Cardinality({p}) = 1
        BY FS_Singleton
    <2> DEFINE S == {p}
    <2> HIDE DEF S
    <2>3. Cardinality(S \cup {q}) = Cardinality(S) + 1
        BY <2>1, <2>2, FS_AddElement DEF S
    <2>. QED
        BY <2>1, <2>2, <2>3 DEF S
<1>2. TypeOK'
    BY <1>1 DEF Frame, TypeOK, OpenTrade, Settle, serverVars, diskVars
<1>. QED
    BY <1>2 DEF Frame, Idle, Outside, OpenTrade, serverVars, diskVars

LEMMA OfferFrame ==
    ASSUME Frame, NEW p \in Player, NEW g \in Goods, NEW n \in 1..inv[p][g], Offer(p, g, n)
    PROVE  Frame'
<1>1. n \in Nat /\ p \in online
    BY TypeParts, ImageAt DEF Frame, Offer
<1>2. /\ inv[p] -- Only(g, n) \in [Goods -> Nat] /\ window[p] ++ Only(g, n) \in [Goods -> Nat]
      /\ inv \in Images /\ window \in Images
    <2> DEFINE o == Only(g, n)
    <2>1. o \in [Goods -> Nat]
        BY <1>1, OnlyAt
    <2> HIDE DEF o
    <2>2. inv[p] -- o \in [Goods -> Nat] /\ window[p] ++ o \in [Goods -> Nat]
        BY <2>1, TypeParts, ImageAt, PlusMinus DEF Frame
    <2>. QED
        BY <2>2, TypeParts DEF o, Frame
<1>3. inv' \in Images /\ window' \in Images
    <2>1. /\ inv' = [inv EXCEPT ![p] = inv[p] -- Only(g, n)]
          /\ window' = [window EXCEPT ![p] = window[p] ++ Only(g, n)]
        BY DEF Offer
    <2>. QED
        BY <1>2, <2>1, InvChange
<1>4. TypeOK'
    BY <1>3 DEF Frame, TypeOK, Offer, Settle, serverVars, diskVars
<1>. QED
    BY <1>1, <1>4 DEF Frame, Idle, Outside, Offer, serverVars, diskVars

\* A trade that ends, executed or cancelled, leaves both windows empty.
LEMMA CloseFrame ==
    ASSUME Frame, NEW p \in Player, NEW q \in Player, Close(p, q),
           NEW a \in [Goods -> Nat], NEW b \in [Goods -> Nat],
           inv' = [inv EXCEPT ![p] = a, ![q] = b], dirty' = [dirty EXCEPT ![p] = TRUE],
           wal' \in Seq(Entries), db' = db, settled' \in BOOLEAN
    PROVE  Frame'
<1>1. inv' \in Images /\ window' \in Images
    <2>1. Nothing \in [Goods -> Nat]
        BY OnlyAt, GoodsAre
    <2>2. inv \in Images /\ window \in Images
        BY TypeParts DEF Frame
    <2>. QED
        BY <2>1, <2>2, InvChange DEF Close
<1>2. dirty' \in [Player -> BOOLEAN]
    BY TypeParts DEF Frame
<1>3. \A d \in deals' : d \in deals
    BY DEF Close
<1>4. TypeOK'
    BY <1>1, <1>2, <1>3 DEF Frame, TypeOK, Close, serverVars
<1>5. \A r \in Player : window'[r] = window[r] \/ window'[r] = Nothing
    BY TypeParts DEF Close, Frame, Images
<1>. QED
    BY <1>4, <1>5 DEF Frame, Idle, Outside, Close, serverVars

LEMMA ExecuteTradeFrame ==
    ASSUME Frame, NEW p \in Player, NEW q \in Player, ExecuteTrade(p, q)
    PROVE  Frame'
<1>1. inv[p] ++ window[q] \in [Goods -> Nat] /\ inv[q] ++ window[p] \in [Goods -> Nat]
    BY TypeParts, ImageAt, PlusMinus DEF Frame
<1>2. wal' \in Seq(Entries)
    <2>1. wal \in Seq(Entries) /\ Gives(p, q) \in Seq(Entries) /\ Gives(q, p) \in Seq(Entries)
        BY TypeParts, GivesType DEF Frame, ExecuteTrade, Close
    <2>. QED
        BY <2>1, ConcatProperties DEF ExecuteTrade
<1>3. /\ Close(p, q) /\ inv' = [inv EXCEPT ![p] = inv[p] ++ window[q], ![q] = inv[q] ++ window[p]]
      /\ dirty' = [dirty EXCEPT ![p] = TRUE] /\ db' = db /\ settled' \in BOOLEAN /\ p # q
    <2>1. p # q
        BY DEF ExecuteTrade, Close
    <2>. QED
        BY <2>1, TypeParts DEF Frame, ExecuteTrade, Settle, Images
<1>. QED
    BY <1>1, <1>2, <1>3, CloseFrame

LEMMA CancelTradeFrame ==
    ASSUME Frame, NEW p \in Player, NEW q \in Player, CancelTrade(p, q)
    PROVE  Frame'
<1>1. Held(p) \in [Goods -> Nat] /\ Held(q) \in [Goods -> Nat] /\ wal \in Seq(Entries)
    BY HeldType, TypeParts DEF Frame
<1>2. /\ Close(p, q) /\ inv' = [inv EXCEPT ![p] = Held(p), ![q] = Held(q)]
      /\ dirty' = [dirty EXCEPT ![p] = TRUE] /\ db' = db /\ wal' = wal /\ settled' \in BOOLEAN
    BY TypeParts DEF Frame, CancelTrade, Settle, diskVars
<1>. QED
    BY <1>1, <1>2, CloseFrame

LEMMA PrivateShopFrame ==
    ASSUME Frame, NEW p \in Player, NEW q \in Player, NEW i \in Item,
           NEW n \in 1..inv[q][Adena], PrivateShop(p, q, i, n)
    PROVE  Frame'
<1> DEFINE a == Only(i, 1)
           b == Only(Adena, n)
           e == Entry(p, q, i, 1)
           f == Entry(q, p, Adena, n)
<1>1. n \in Nat /\ p # q /\ i \in Goods /\ Adena \in Goods
    BY TypeParts, ImageAt, GoodsAre DEF Frame, PrivateShop
<1>2. a \in [Goods -> Nat] /\ b \in [Goods -> Nat]
    BY <1>1, OnlyAt
<1>3. <<e, f>> \in Seq(Entries)
    <2>1. e \in Entries /\ f \in Entries
        BY <1>1 DEF Entry, Entries
    <2> HIDE DEF e, f
    <2>. QED
        BY <2>1
<1> HIDE DEF a, b
<1>4. inv' \in Images
    <2>1. inv \in Images /\ inv[p] \in [Goods -> Nat] /\ inv[q] \in [Goods -> Nat]
        BY TypeParts, ImageAt DEF Frame
    <2>2. inv[p] -- a \in [Goods -> Nat] /\ inv[q] -- b \in [Goods -> Nat]
        BY <1>2, <2>1, PlusMinus
    <2>3. (inv[p] -- a) ++ b \in [Goods -> Nat] /\ (inv[q] -- b) ++ a \in [Goods -> Nat]
        BY <1>2, <2>2, PlusMinus
    <2>4. inv' = [inv EXCEPT ![p] = (inv[p] -- a) ++ b, ![q] = (inv[q] -- b) ++ a]
        BY <1>1, <2>1 DEF PrivateShop, a, b, Images
    <2>. QED
        BY <2>1, <2>3, <2>4, InvChange
<1>5. wal' \in Seq(Entries)
    <2>1. wal' = wal \o <<e, f>> /\ wal \in Seq(Entries)
        BY TypeParts DEF PrivateShop, Frame
    <2> HIDE DEF e, f
    <2>. QED
        BY <1>3, <2>1, ConcatProperties
<1>6. TypeOK'
    BY <1>4, <1>5 DEF Frame, TypeOK, PrivateShop, Settle, serverVars
<1>. QED
    BY <1>6 DEF Frame, Idle, Outside, PrivateShop, serverVars

LEMMA UseUpFrame ==
    ASSUME Frame, NEW p \in Player, NEW g \in Goods, UseUp(p, g)
    PROVE  Frame'
<1>1. inv' \in Images
    <2> DEFINE o == Only(g, 1)
    <2>1. o \in [Goods -> Nat]
        BY OnlyAt
    <2>2. inv' = [inv EXCEPT ![p] = inv[p] -- o]
        BY DEF UseUp
    <2> HIDE DEF o
    <2>3. inv \in Images /\ inv[p] \in [Goods -> Nat]
        BY TypeParts, ImageAt DEF Frame
    <2>. QED
        BY <2>1, <2>2, <2>3, PlusMinus, InvChange
<1>2. TypeOK'
    BY <1>1 DEF Frame, TypeOK, UseUp, Settle, serverVars, diskVars
<1>. QED
    BY <1>2 DEF Frame, Idle, Outside, UseUp, serverVars, diskVars

LEMMA LeaveWorldFrame ==
    ASSUME Frame, NEW p \in Player, LeaveWorld(p)
    PROVE  Frame'
<1>1. inv' \in Images /\ window' \in Images
    <2>1. \A r \in Player : Held(r) \in [Goods -> Nat] /\ inv[r] \in [Goods -> Nat] /\ window[r] \in [Goods -> Nat]
        BY HeldType, TypeParts, ImageAt DEF Frame
    <2>2. Nothing \in [Goods -> Nat]
        BY OnlyAt, GoodsAre
    <2>. QED
        BY <2>1, <2>2 DEF LeaveWorld, Images
<1>2. db' \in Images /\ mishaps' \in Nat
    <2>1. Held(p) \in [Goods -> Nat] /\ db \in Images /\ mishaps \in Nat
        BY HeldType, TypeParts DEF Frame
    <2>. QED
        BY <2>1, InvChange DEF LeaveWorld, RowsOnLeaving, Mishap
<1>3. \A d \in deals' : d \in deals /\ p \notin d
    BY DEF LeaveWorld, DealsWithout
<1>4. todo' = {} /\ mode' = "running"
    BY DEF Frame, Idle, LeaveWorld, serverVars
<1>5. \A d \in deals' : d \subseteq online' /\ Cardinality(d) = 2
    BY <1>3 DEF Frame, TypeOK, LeaveWorld
<1>6. /\ dirty' \in [Player -> BOOLEAN] /\ online' \subseteq Player /\ wal' \in Seq(Entries)
      /\ minted' \in Nat /\ settled' \in BOOLEAN
    BY TypeParts DEF Frame, LeaveWorld, Settle
<1>7. TypeOK'
    BY <1>1, <1>2, <1>4, <1>5, <1>6 DEF TypeOK
<1>8. \A r \in Player \ online' : window'[r] = Nothing
    BY DEF Frame, Outside, LeaveWorld
<1>. QED
    BY <1>4, <1>7, <1>8 DEF Frame, Idle, Outside

LEMMA EnterWorldFrame ==
    ASSUME Frame, NEW p \in Player, EnterWorld(p)
    PROVE  Frame'
<1>1. inv' \in Images /\ minted' \in Nat /\ mishaps' \in Nat
    <2>1. db[p] \in [Goods -> Nat] /\ Only(Adena, StartGold) \in [Goods -> Nat] /\ StartGold \in Nat
        BY TypeParts, ImageAt, OnlyAt, GoodsAre DEF Frame
    <2>2. minted \in Nat /\ mishaps \in Nat /\ inv \in Images
        BY TypeParts DEF Frame
    <2>. QED
        BY <2>1, <2>2, InvChange DEF EnterWorld, Mishap
<1>2. TypeOK'
    BY <1>1 DEF Frame, TypeOK, EnterWorld, Settle, serverVars, diskVars
<1>. QED
    BY <1>2 DEF Frame, Idle, Outside, EnterWorld, serverVars, diskVars

LEMMA SavePlayerFrame ==
    ASSUME Frame, NEW p \in Player, SavePlayer(p)
    PROVE  Frame'
<1>1. db' \in Images /\ mishaps' \in Nat /\ dirty' \in [Player -> BOOLEAN]
    <2>1. /\ inv[p] \in [Goods -> Nat] /\ mishaps \in Nat /\ db \in Images
          /\ dirty \in [Player -> BOOLEAN]
        BY TypeParts, ImageAt DEF Frame
    <2>2. [db EXCEPT ![p] = inv[p]] \in Images
        BY <2>1, InvChange
    <2>3. mishaps + 1 \in Nat
        BY <2>1
    <2>4. [dirty EXCEPT ![p] = FALSE] \in [Player -> BOOLEAN]
        BY <2>1
    <2>. QED
        BY <2>1, <2>2, <2>3, <2>4 DEF SavePlayer, Mishap
<1>2. TypeOK'
    BY <1>1 DEF Frame, TypeOK, SavePlayer, Settle
<1>. QED
    BY <1>2 DEF Frame, Idle, Outside, SavePlayer

LEMMA FinishSaveFrame ==
    ASSUME Frame, FinishSave
    PROVE  Frame'
<1>1. wal' \in Seq(Entries) /\ mishaps' \in Nat
    <2>1. <<>> \in Seq(Entries) /\ wal \in Seq(Entries) /\ mishaps \in Nat
        BY TypeParts, EmptySeq DEF Frame
    <2>2. mishaps + 1 \in Nat
        BY <2>1
    <2>. QED
        BY <2>1, <2>2 DEF FinishSave, Mishap
<1>2. TypeOK'
    BY <1>1 DEF Frame, TypeOK, FinishSave, Settle, gameVars
<1>. QED
    BY <1>2 DEF Frame, Idle, Outside, FinishSave, gameVars

LEMMA SwitchFrame ==
    ASSUME Frame, AutoSave \/ Shutdown \/ Crash
    PROVE  Frame'
<1>1. mishaps' \in Nat /\ todo' \subseteq online
    BY TypeParts DEF Frame, AutoSave, Shutdown, Crash, Mishap
<1>2. TypeOK'
    BY <1>1 DEF Frame, TypeOK, AutoSave, Shutdown, Crash, gameVars, diskVars
<1>. QED
    BY <1>2 DEF Frame, Idle, Outside, AutoSave, Shutdown, Crash, gameVars, diskVars

LEMMA RecoverWALFrame ==
    ASSUME Frame, RecoverWAL
    PROVE  Frame'
<1>1. db' \in Images
    BY TypeParts, ReplayType DEF Frame, RecoverWAL
<1>2. inv' \in Images /\ window' \in Images /\ \A p \in Player : window'[p] = Nothing
    BY OnlyAt, GoodsAre DEF RecoverWAL, Images
<1>3. wal' \in Seq(Entries) /\ todo' = {}
    BY EmptySeq DEF Frame, Idle, RecoverWAL
<1>4. TypeOK'
    BY <1>1, <1>2, <1>3 DEF Frame, TypeOK, RecoverWAL
<1>. QED
    BY <1>2, <1>3, <1>4 DEF Frame, Idle, Outside, RecoverWAL

LEMMA FrameKept == Frame /\ [Next]_vars => Frame'
<1> SUFFICES ASSUME Frame, [Next]_vars PROVE Frame'
    OBVIOUS
<1>1. ASSUME NEW p \in Player, NEW q \in Player, OpenTrade(p, q) \/ ExecuteTrade(p, q) \/ CancelTrade(p, q)
      PROVE  Frame'
    BY <1>1, OpenTradeFrame, ExecuteTradeFrame, CancelTradeFrame
<1>2. ASSUME NEW p \in Player, NEW g \in Goods, UseUp(p, g) \/ \E n \in 1..inv[p][g] : Offer(p, g, n)
      PROVE  Frame'
    BY <1>2, UseUpFrame, OfferFrame
<1>3. ASSUME NEW p \in Player, NEW q \in Player, NEW i \in Item, NEW n \in 1..inv[q][Adena],
             PrivateShop(p, q, i, n)
      PROVE  Frame'
    BY <1>3, PrivateShopFrame
<1>4. ASSUME NEW p \in Player, LeaveWorld(p) \/ EnterWorld(p) \/ SavePlayer(p)
      PROVE  Frame'
    BY <1>4, LeaveWorldFrame, EnterWorldFrame, SavePlayerFrame
<1>5. CASE AutoSave \/ Shutdown \/ FinishSave \/ Crash \/ RecoverWAL
    BY <1>5, SwitchFrame, FinishSaveFrame, RecoverWALFrame
<1>6. CASE UNCHANGED vars
    BY <1>6 DEF Frame, TypeOK, Idle, Outside, vars, serverVars, gameVars, diskVars
<1>. QED
    BY <1>1, <1>2, <1>3, <1>4, <1>5, <1>6 DEF Next

-----------------------------------------------------------------------------
(* What each step does to what is owned.                                     *)

\* When memory and rows agree, what is owned is what the rows say.
LEMMA SyncTells ==
    TypeOK /\ InSync => Owned = db /\ Replay(db, wal) = Owned
<1> SUFFICES ASSUME TypeOK, InSync PROVE Owned = db /\ Replay(db, wal) = Owned
    OBVIOUS
<1>1. \A p \in Player : Owned[p] = db[p]
    <2>1. ASSUME NEW p \in online
          PROVE  Owned[p] = db[p]
        <3>1. Held(p) \in [Goods -> Nat] /\ db[p] \in [Goods -> Nat]
            BY HeldType, TypeParts, ImageAt
        <3>2. \A g \in Goods : Held(p)[g] = db[p][g]
            <4>1. db[p] = inv[p] /\ window[p] = Nothing /\ p \in Player
                BY TypeParts DEF InSync
            <4>2. \A g \in Goods : Nothing[g] = 0
                BY OnlyAt
            <4>. QED
                BY <4>1, <4>2, HeldType
        <3>. QED
            BY <3>1, <3>2, OwnedType, BagsEqual
    <2>. QED
        BY <2>1, OwnedType
<1>2. Owned = db
    BY <1>1, OwnedType, TypeParts DEF Images
<1>. QED
    BY <1>2, ReplayEmpty DEF InSync

LEMMA SyncTellsNext ==
    TypeOK' /\ InSync' => (Owned = db /\ Replay(db, wal) = Owned)'
BY SyncTells, PTL

\* Owned, in one formula that can be carried to the next state.
LEMMA OwnedFacts ==
    TypeOK => /\ Owned \in Images
              /\ \A p \in online, g \in Goods : Owned[p][g] = inv[p][g] + window[p][g]
              /\ \A p \in Player \ online : Owned[p] = db[p]
<1> SUFFICES ASSUME TypeOK
             PROVE  /\ Owned \in Images
                    /\ \A p \in online, g \in Goods : Owned[p][g] = inv[p][g] + window[p][g]
                    /\ \A p \in Player \ online : Owned[p] = db[p]
    OBVIOUS
<1>. QED
    BY OwnedType, HeldType, TypeParts

LEMMA OwnedFactsNext ==
    TypeOK' => (/\ Owned \in Images
                /\ \A p \in online, g \in Goods : Owned[p][g] = inv[p][g] + window[p][g]
                /\ \A p \in Player \ online : Owned[p] = db[p])'
BY OwnedFacts, PTL

\* What a step must show for LogTells: memory and rows agree again, or the log still tells.
LEMMA LogStillTells ==
    ASSUME TypeOK', LogTells,
           settled' => \/ InSync'
                       \/ /\ settled /\ db' = db
                          /\ RowsUnique /\ Replay(db, wal) = Owned /\ OncePerWorld
                                => Replay(db', wal') = Owned' /\ OncePerWorld'
    PROVE  LogTells'
<1>1. CASE InSync'
    <2>1. Owned' = db' /\ Replay(db', wal') = Owned'
        BY <1>1, SyncTellsNext
    <2>2. RowsUnique' => OncePerWorld'
        BY <2>1 DEF RowsUnique, OncePerWorld, RowsOf, InWorld
    <2>. QED
        BY <2>1, <2>2 DEF LogTells
<1>2. CASE settled' /\ ~InSync'
    <2>1. RowsUnique' => RowsUnique
        BY <1>2 DEF RowsUnique, RowsOf
    <2>. QED
        BY <1>2, <2>1 DEF LogTells
<1>3. CASE ~settled'
    BY <1>3 DEF LogTells
<1>. QED
    BY <1>1, <1>2, <1>3

\* The same for Unhurt, whose RowsUnique follows from the rest.
LEMMA StillUnhurt ==
    ASSUME TypeOK', Unhurt,
           mishaps' = 0 =>
                /\ mishaps = 0
                /\ OncePerWorld' /\ InWorld(Adena)' <= minted'
                /\ settled' => InSync' \/ (settled /\ db' = db)
                /\ mode' = "crashed" => settled'
                /\ mode' = "stopped" => wal' = <<>>
                /\ mode' \in {"shutdown", "stopped"} => \A p \in online' \ todo' : db'[p] = inv'[p]
    PROVE  Unhurt'
<1> SUFFICES ASSUME mishaps' = 0
             PROVE  settled' => RowsUnique'
    BY DEF Unhurt
<1>1. CASE InSync'
    <2>1. Owned' = db'
        BY <1>1, SyncTellsNext
    <2>. QED
        BY <2>1 DEF RowsUnique, OncePerWorld, RowsOf, InWorld
<1>2. CASE settled' /\ ~InSync'
    BY <1>2 DEF Unhurt, RowsUnique, RowsOf
<1>. QED
    BY <1>1, <1>2

LEMMA WorldType ==
    TypeOK => \A g \in Goods : InWorld(g) \in Nat /\ RowsOf(g) \in Nat
BY OwnedFacts, TypeParts, TotalType DEF InWorld, RowsOf

LEMMA WorldTypeNext ==
    TypeOK' => \A g \in Goods : InWorld(g)' \in Nat /\ RowsOf(g)' \in Nat
<1>1. TypeOK' => (\A g \in Goods : InWorld(g) \in Nat /\ RowsOf(g) \in Nat)'
    BY WorldType, PTL
<1>. QED
    BY <1>1

\* Where nothing came into the world, there still is no more than there may be.
LEMMA NoMore ==
    ASSUME TypeOK, TypeOK', Unhurt, mishaps = 0,
           \A g \in Goods : InWorld(g)' <= InWorld(g), minted' = minted
    PROVE  OncePerWorld' /\ InWorld(Adena)' <= minted'
<1>1. \A g \in Goods : InWorld(g) \in Nat /\ InWorld(g)' \in Nat
    BY WorldType, WorldTypeNext
<1>2. minted \in Nat /\ InWorld(Adena) <= minted /\ \A i \in Item : InWorld(i) <= 1
    BY TypeParts DEF Unhurt, OncePerWorld
<1>3. \A i \in Item : InWorld(i)' <= 1
    BY <1>1, <1>2, GoodsAre
<1>4. InWorld(Adena)' <= minted'
    BY <1>1, <1>2, GoodsAre
<1>. QED
    BY <1>3, <1>4 DEF OncePerWorld

\* A step of trading: rows stay, the log is told of all that changes hands.
LEMMA Trading ==
    ASSUME WInv, TypeOK', mode = "running", mode' = "running", Settle(TRUE),
           db' = db, minted' = minted, mishaps' = mishaps,
           \A g \in Goods : InWorld(g)' = InWorld(g),
           settled /\ RowsUnique => Replay(db, wal') = Owned'
    PROVE  LogTells' /\ Unhurt'
<1>1. settled' => InSync' \/ settled
    BY DEF Settle
<1>2. OncePerWorld => OncePerWorld'
    BY GoodsAre DEF OncePerWorld
<1>3. LogTells'
    BY <1>1, <1>2, LogStillTells DEF WInv
<1>4. \A g \in Goods : InWorld(g)' <= InWorld(g)
    BY WorldType DEF WInv
<1>5. mishaps = 0 => OncePerWorld' /\ InWorld(Adena)' <= minted'
    BY <1>4, NoMore DEF WInv
<1>6. Unhurt'
    BY <1>1, <1>5, StillUnhurt DEF WInv
<1>. QED
    BY <1>3, <1>6

\* Images are equal when they are in every good of every player.
LEMMA ImagesEqual ==
    ASSUME NEW a \in Images, NEW b \in Images, \A p \in Player, g \in Goods : a[p][g] = b[p][g]
    PROVE  a = b
<1>1. \A p \in Player : a[p] = b[p]
    BY ImageAt, BagsEqual
<1>. QED
    BY <1>1 DEF Images

\* Goods stay with their owners, in the inventory or in a window.
LEMMA StillOwned ==
    ASSUME WInv, TypeOK', mode = "running", mode' = "running", Settle(TRUE),
           online' = online, db' = db, wal' = wal, minted' = minted, mishaps' = mishaps,
           \A p \in online, g \in Goods :
                inv'[p][g] + window'[p][g] = inv[p][g] + window[p][g]
    PROVE  LogTells' /\ Unhurt'
<1>1. Owned' = Owned
    <2>1. Owned \in Images /\ Owned' \in Images
        BY OwnedFacts, OwnedFactsNext DEF WInv
    <2>2. ASSUME NEW p \in Player, NEW g \in Goods
          PROVE  Owned'[p][g] = Owned[p][g]
        <3>1. CASE p \in online
            BY <3>1, OwnedFacts, OwnedFactsNext DEF WInv
        <3>2. CASE p \notin online
            BY <3>2, OwnedFacts, OwnedFactsNext DEF WInv
        <3>. QED
            BY <3>1, <3>2
    <2>. QED
        BY <2>1, <2>2, ImagesEqual
<1>2. \A g \in Goods : InWorld(g)' = InWorld(g)
    BY <1>1 DEF InWorld
<1>3. settled /\ RowsUnique => Replay(db, wal') = Owned'
    BY <1>1 DEF WInv, LogTells
<1>. QED
    BY <1>2, <1>3, Trading

-----------------------------------------------------------------------------
(* The steps.                                                                *)

\* What is to show of each step, besides Frame.
Whole == LogTells' /\ Unhurt'

LEMMA OpenTradeKeeps ==
    ASSUME WInv, Frame', NEW p \in Player, NEW q \in Player, OpenTrade(p, q)
    PROVE  Whole
BY StillOwned DEF OpenTrade, serverVars, diskVars, Whole, Frame

LEMMA OfferKeeps ==
    ASSUME WInv, Frame', NEW p \in Player, NEW g \in Goods, NEW n \in 1..inv[p][g], Offer(p, g, n)
    PROVE  Whole
<1> DEFINE o == Only(g, n)
<1>1. n \in Nat /\ n <= inv[p][g] /\ inv \in Images /\ window \in Images
    BY TypeParts, ImageAt DEF WInv
<1>2. o \in [Goods -> Nat] /\ \A h \in Goods : o[h] = IF h = g THEN n ELSE 0
    BY <1>1, OnlyAt
<1>3. /\ inv' = [inv EXCEPT ![p] = inv[p] -- o]
      /\ window' = [window EXCEPT ![p] = window[p] ++ o]
    BY DEF Offer
<1> HIDE DEF o
<1>4. ASSUME NEW r \in Player, NEW h \in Goods
      PROVE  inv'[r][h] + window'[r][h] = inv[r][h] + window[r][h]
    <2>1. CASE r = p
        <3>1. inv'[p] = inv[p] -- o /\ window'[p] = window[p] ++ o
            BY <1>1, <1>3 DEF Images
        <3>2. /\ inv'[p][h] = IF inv[p][h] > o[h] THEN inv[p][h] - o[h] ELSE 0
              /\ window'[p][h] = window[p][h] + o[h]
            BY <1>1, <1>2, <3>1, ImageAt, PlusMinus
        <3>3. inv[p][h] \in Nat /\ window[p][h] \in Nat
            BY <1>1, ImageAt
        <3>. QED
            BY <1>1, <1>2, <2>1, <3>2, <3>3
    <2>2. CASE r # p
        <3>1. inv'[r] = inv[r] /\ window'[r] = window[r]
            BY <1>1, <1>3, <2>2 DEF Images
        <3>. QED
            BY <3>1
    <2>. QED
        BY <2>1, <2>2
<1>5. \A r \in online, h \in Goods : inv'[r][h] + window'[r][h] = inv[r][h] + window[r][h]
    BY <1>4, TypeParts DEF WInv
<1>. QED
    BY <1>5, StillOwned DEF Offer, serverVars, diskVars, Whole, Frame

LEMMA CancelTradeKeeps ==
    ASSUME WInv, Frame', NEW p \in Player, NEW q \in Player, CancelTrade(p, q)
    PROVE  Whole
<1>1. inv \in Images /\ window \in Images /\ online \subseteq Player
    BY TypeParts DEF WInv
<1>2. ASSUME NEW r \in Player, NEW h \in Goods
      PROVE  inv'[r][h] + window'[r][h] = inv[r][h] + window[r][h]
    <2>1. CASE r \in {p, q}
        <3>1. inv'[r] = Held(r) /\ window'[r] = Nothing
            BY <1>1, <2>1 DEF CancelTrade, Close, Images
        <3>2. Held(r)[h] = inv[r][h] + window[r][h] /\ Nothing[h] = 0 /\ inv[r][h] + window[r][h] \in Nat
            BY HeldType, OnlyAt DEF WInv
        <3>. QED
            BY <3>1, <3>2
    <2>2. CASE r \notin {p, q}
        <3>1. inv'[r] = inv[r] /\ window'[r] = window[r]
            BY <1>1, <2>2 DEF CancelTrade, Close, Images
        <3>. QED
            BY <3>1
    <2>. QED
        BY <2>1, <2>2
<1>3. \A r \in online, h \in Goods : inv'[r][h] + window'[r][h] = inv[r][h] + window[r][h]
    BY <1>1, <1>2
<1>. QED
    BY <1>3, StillOwned DEF CancelTrade, Close, serverVars, diskVars, Whole, Frame

\* An object that is in the world once is wholly where it is, and nowhere else.
LEMMA OnceOwned ==
    ASSUME TypeOK, OncePerWorld, NEW i \in Item, NEW p \in Player, Owned[p][i] > 0
    PROVE  Owned[p][i] = 1 /\ \A q \in Player \ {p} : Owned[q][i] = 0
<1>1. Owned \in Images /\ i \in Goods
    BY OwnedFacts, GoodsAre
<1>2. /\ TotalOf(Owned, i) \in Nat /\ TotalOf(Owned, i) <= 1
      /\ \A q \in Player : Owned[q][i] \in Nat /\ Owned[q][i] <= TotalOf(Owned, i)
      /\ \A q \in Player \ {p} : Owned[p][i] + Owned[q][i] <= TotalOf(Owned, i)
    <2>1. TotalOf(Owned, i) \in Nat /\ TotalOf(Owned, i) <= 1
        BY <1>1, TotalType DEF OncePerWorld, InWorld
    <2>. QED
        BY <1>1, <2>1, ImageAt, TotalAtLeast
<1>. QED
    BY <1>2

\* Each side's entries are replayed over rows that are what both owned: everything offered
\* is there to be handed over, and of an object nothing else is, as there is only one.
LEMMA ExecuteTradeKeeps ==
    ASSUME WInv, Frame', NEW p \in Player, NEW q \in Player, ExecuteTrade(p, q)
    PROVE  Whole
<1>1. p # q /\ p \in online /\ q \in online /\ p \in Player /\ q \in Player /\ online' = online
    BY TypeParts DEF WInv, ExecuteTrade, Close
<1>2. inv \in Images /\ window \in Images /\ Owned \in Images /\ Owned' \in Images
    BY TypeParts, OwnedFacts, OwnedFactsNext DEF WInv, Frame
<1>3. ASSUME NEW g \in Goods
      PROVE  /\ Owned'[p][g] = inv[p][g] + window[q][g] /\ Owned'[q][g] = inv[q][g] + window[p][g]
             /\ Owned[p][g] = inv[p][g] + window[p][g] /\ Owned[q][g] = inv[q][g] + window[q][g]
             /\ \A r \in Player \ {p, q} : Owned'[r][g] = Owned[r][g]
             /\ inv[p][g] \in Nat /\ inv[q][g] \in Nat /\ window[p][g] \in Nat /\ window[q][g] \in Nat
    <2>1. inv[p][g] \in Nat /\ inv[q][g] \in Nat /\ window[p][g] \in Nat /\ window[q][g] \in Nat
        BY <1>2, ImageAt
    <2>2. inv'[p] = inv[p] ++ window[q] /\ inv'[q] = inv[q] ++ window[p]
        BY <1>1, <1>2 DEF ExecuteTrade, Images
    <2>3. inv'[p][g] = inv[p][g] + window[q][g] /\ inv'[q][g] = inv[q][g] + window[p][g]
        <3>1. /\ (inv[p] ++ window[q])[g] = inv[p][g] + window[q][g]
              /\ (inv[q] ++ window[p])[g] = inv[q][g] + window[p][g]
            BY DEF ++
        <3>. QED
            BY <2>2, <3>1
    <2>4. window'[p] = Nothing /\ window'[q] = Nothing /\ Nothing[g] = 0
        BY <1>1, <1>2, OnlyAt DEF ExecuteTrade, Close, Images
    <2>5. /\ Owned'[p][g] = inv'[p][g] + window'[p][g] /\ Owned'[q][g] = inv'[q][g] + window'[q][g]
          /\ Owned[p][g] = inv[p][g] + window[p][g] /\ Owned[q][g] = inv[q][g] + window[q][g]
        BY <1>1, OwnedFacts, OwnedFactsNext DEF WInv, Frame
    <2>6. ASSUME NEW r \in Player \ {p, q}
          PROVE  Owned'[r][g] = Owned[r][g]
        <3>1. inv'[r] = inv[r] /\ window'[r] = window[r] /\ db' = db
            BY <1>1, <1>2 DEF ExecuteTrade, Close, Images
        <3>2. CASE r \in online
            BY <1>1, <3>1, <3>2, OwnedFacts, OwnedFactsNext DEF WInv, Frame
        <3>3. CASE r \notin online
            BY <1>1, <3>1, <3>3, OwnedFacts, OwnedFactsNext DEF WInv, Frame
        <3>. QED
            BY <3>2, <3>3
    <2>. QED
        BY <2>1, <2>3, <2>4, <2>5, <2>6
<1>4. \A g \in Goods : InWorld(g)' = InWorld(g)
    <2>1. ASSUME NEW g \in Goods
          PROVE  TotalOf(Owned', g) = TotalOf(Owned, g)
        <3>1. Owned'[p][g] + Owned'[q][g] = Owned[p][g] + Owned[q][g]
            BY <1>3
        <3>2. \A r \in Player \ {p, q} : Owned'[r][g] = Owned[r][g]
            BY <1>3
        <3> DEFINE a == Owned'
                   b == Owned
        <3>3. a \in Images /\ b \in Images
            BY <1>2
        <3>4. a[p][g] + a[q][g] = b[p][g] + b[q][g] /\ \A r \in Player \ {p, q} : a[r][g] = b[r][g]
            BY <3>1, <3>2
        <3> HIDE DEF a, b
        <3>5. TotalOf(a, g) = TotalOf(b, g)
            BY <1>1, <3>3, <3>4, TotalTwo
        <3>. QED
            BY <3>5 DEF a, b
    <2>. QED
        BY <2>1 DEF InWorld
<1>5. ASSUME settled, RowsUnique
      PROVE  Replay(db, wal') = Owned'
    <2>1. Replay(db, wal) = Owned /\ OncePerWorld
        BY <1>5 DEF WInv, LogTells
    <2> DEFINE x == Owned
               y == Replay(x, Gives(p, q))
               z == Replay(y, Gives(q, p))
    <2>2. Replay(db, wal') = z
        <3>1. wal \in Seq(Entries) /\ Gives(p, q) \in Seq(Entries) /\ Gives(q, p) \in Seq(Entries)
            BY <1>1, <1>2, TypeParts, GivesType DEF WInv
        <3> DEFINE l == Gives(p, q)
                   m == Gives(q, p)
        <3>2. wal' = wal \o (l \o m)
            BY DEF ExecuteTrade
        <3> HIDE DEF l, m
        <3>3. l \in Seq(Entries) /\ m \in Seq(Entries) /\ l \o m \in Seq(Entries)
            BY <3>1, ConcatProperties DEF l, m
        <3>4. Replay(db, wal') = Replay(Replay(db, wal), l \o m)
            <4> DEFINE k == l \o m
            <4>1. k \in Seq(Entries) /\ wal' = wal \o k
                BY <3>2, <3>3
            <4> HIDE DEF k
            <4>2. Replay(db, wal \o k) = Replay(Replay(db, wal), k)
                BY <3>1, <4>1, ReplayConcat
            <4>. QED
                BY <4>1, <4>2 DEF k
        <3>5. Replay(x, l \o m) = Replay(Replay(x, l), m)
            BY <3>3, ReplayConcat
        <3>. QED
            BY <2>1, <3>4, <3>5 DEF l, m
    <2>3. /\ \A g \in Goods : window[p][g] <= x[p][g]
          /\ \A i \in Item : window[p][i] > 0 => x[p][i] = window[p][i] /\ x[q][i] = 0
          /\ \A i \in Item : window[q][i] > 0 => x[q][i] = window[q][i] /\ x[p][i] = 0
        <3>1. ASSUME NEW i \in Item, window[p][i] > 0
              PROVE  x[p][i] = window[p][i] /\ x[q][i] = 0
            <4>1. x[p][i] > 0 /\ x[p][i] >= window[p][i]
                BY <1>3, <3>1, GoodsAre
            <4>2. x[p][i] = 1 /\ x[q][i] = 0
                BY <1>1, <2>1, <4>1, OnceOwned DEF WInv
            <4>. QED
                BY <1>3, <3>1, <4>1, <4>2, GoodsAre
        <3>2. ASSUME NEW i \in Item, window[q][i] > 0
              PROVE  x[q][i] = window[q][i] /\ x[p][i] = 0
            <4>1. x[q][i] > 0 /\ x[q][i] >= window[q][i]
                BY <1>3, <3>2, GoodsAre
            <4>2. x[q][i] = 1 /\ x[p][i] = 0
                BY <1>1, <2>1, <4>1, OnceOwned DEF WInv
            <4>. QED
                BY <1>3, <3>2, <4>1, <4>2, GoodsAre
        <3>. QED
            BY <1>3, <3>1, <3>2
    <2> HIDE DEF x
    <2>4. x \in Images
        BY <1>2 DEF x
    <2>5. /\ y \in Images
          /\ \A g \in Goods : y[p][g] = x[p][g] - window[p][g] /\ y[q][g] = x[q][g] + window[p][g]
          /\ \A s \in Player \ {p, q} : y[s] = x[s]
        BY <1>1, <1>2, <2>3, <2>4, GivesMove
    <2> HIDE DEF y
    <2>6. /\ \A g \in Goods : window[q][g] <= y[q][g]
          /\ \A i \in Item : window[q][i] > 0 => y[q][i] = window[q][i]
        <3>1. \A g \in Goods : x[q][g] = inv[q][g] + window[q][g] /\ x[p][g] = inv[p][g] + window[p][g]
            BY <1>3 DEF x
        <3>2. ASSUME NEW g \in Goods
              PROVE  window[q][g] <= y[q][g]
            BY <1>3, <2>5, <3>1
        <3>3. ASSUME NEW i \in Item, window[q][i] > 0
              PROVE  y[q][i] = window[q][i]
            <4>1. x[q][i] = window[q][i] /\ x[p][i] = 0 /\ i \in Goods
                BY <2>3, <3>3, GoodsAre
            <4>2. window[p][i] = 0
                BY <1>3, <3>1, <4>1
            <4>. QED
                BY <1>3, <2>5, <4>1, <4>2
        <3>. QED
            BY <3>2, <3>3
    <2>7. /\ z \in Images
          /\ \A g \in Goods : z[q][g] = y[q][g] - window[q][g] /\ z[p][g] = y[p][g] + window[q][g]
          /\ \A s \in Player \ {p, q} : z[s] = y[s]
        BY <1>1, <1>2, <2>5, <2>6, GivesMove
    <2> HIDE DEF z
    <2>8. ASSUME NEW r \in Player, NEW g \in Goods
          PROVE  z[r][g] = Owned'[r][g]
        <3>1. CASE r \in {p, q}
            BY <1>1, <1>3, <2>5, <2>7, <3>1 DEF x
        <3>2. CASE r \notin {p, q}
            BY <1>3, <2>5, <2>7, <3>2 DEF x
        <3>. QED
            BY <3>1, <3>2
    <2>9. z = Owned'
        <3> DEFINE o == Owned'
        <3>1. o \in Images /\ \A r \in Player, g \in Goods : z[r][g] = o[r][g]
            BY <1>2, <2>8
        <3> HIDE DEF o
        <3>2. z = o
            BY <2>7, <3>1, ImagesEqual
        <3>. QED
            BY <3>2 DEF o
    <2>. QED
        BY <2>2, <2>9
<1>. QED
    BY <1>4, <1>5, Trading DEF ExecuteTrade, Close, serverVars, Whole, Frame

\* The two entries of a purchase, one after the other.
LEMMA PairConcat ==
    ASSUME NEW S, NEW e \in S, NEW f \in S
    PROVE  <<e, f>> = <<e>> \o <<f>>
<1> DEFINE l == <<e>>
           m == <<f>>
           k == <<e, f>>
<1>1. /\ l \in Seq(S) /\ Len(l) = 1 /\ l[1] = e
      /\ m \in Seq(S) /\ Len(m) = 1 /\ m[1] = f
      /\ k \in Seq(S) /\ Len(k) = 2 /\ k[1] = e /\ k[2] = f
    OBVIOUS
<1> HIDE DEF l, m, k
<1> DEFINE lm == l \o m
<1>2. /\ lm \in Seq(S) /\ Len(lm) = Len(l) + Len(m)
      /\ \A i \in 1..(Len(l) + Len(m)) : lm[i] = IF i <= Len(l) THEN l[i] ELSE m[i - Len(l)]
    BY <1>1, ConcatProperties
<1> HIDE DEF lm
<1>3. /\ lm \in Seq(S) /\ Len(lm) = 2
      /\ \A i \in 1..2 : lm[i] = IF i <= 1 THEN l[i] ELSE m[i - 1]
    BY <1>1, <1>2
<1>4. lm[1] = e /\ lm[2] = f
    BY <1>1, <1>3
<1>5. \A i \in 1..Len(k) : k[i] = lm[i]
    BY <1>1, <1>4
<1>6. k = lm
    BY <1>1, <1>3, <1>5, SeqEqual
<1>. QED
    BY <1>6 DEF k, l, m, lm

LEMMA PrivateShopKeeps ==
    ASSUME WInv, Frame', NEW p \in Player, NEW q \in Player, NEW i \in Item,
           NEW n \in 1..inv[q][Adena], PrivateShop(p, q, i, n)
    PROVE  Whole
<1>1. /\ p # q /\ p \in online /\ q \in online /\ online' = online /\ n \in Nat /\ n <= inv[q][Adena]
      /\ inv[p][i] > 0 /\ i \in Goods /\ Adena \in Goods /\ i # Adena
    BY TypeParts, ImageAt, GoodsAre DEF WInv, PrivateShop
<1>2. inv \in Images /\ window \in Images /\ Owned \in Images /\ Owned' \in Images
    BY TypeParts, OwnedFacts, OwnedFactsNext DEF WInv, Frame
<1> DEFINE a == Only(i, 1)
           b == Only(Adena, n)
<1>3. /\ a \in [Goods -> Nat] /\ \A g \in Goods : a[g] = IF g = i THEN 1 ELSE 0
      /\ b \in [Goods -> Nat] /\ \A g \in Goods : b[g] = IF g = Adena THEN n ELSE 0
    BY <1>1, OnlyAt
<1>4. inv' = [inv EXCEPT ![p] = (inv[p] -- a) ++ b, ![q] = (inv[q] -- b) ++ a]
    BY <1>1, <1>2 DEF PrivateShop, Images
<1> HIDE DEF a, b
<1>5. ASSUME NEW g \in Goods
      PROVE  /\ inv'[p][g] = (inv[p][g] - a[g]) + b[g] /\ inv'[q][g] = (inv[q][g] - b[g]) + a[g]
             /\ inv[p][g] \in Nat /\ inv[q][g] \in Nat /\ a[g] \in Nat /\ b[g] \in Nat
             /\ a[g] <= inv[p][g] /\ b[g] <= inv[q][g]
    <2>1. inv[p] \in [Goods -> Nat] /\ inv[q] \in [Goods -> Nat]
        BY <1>2, ImageAt
    <2> DEFINE c == inv[p] -- a
               d == inv[q] -- b
    <2>2. /\ c \in [Goods -> Nat] /\ c[g] = IF inv[p][g] > a[g] THEN inv[p][g] - a[g] ELSE 0
          /\ d \in [Goods -> Nat] /\ d[g] = IF inv[q][g] > b[g] THEN inv[q][g] - b[g] ELSE 0
        BY <1>3, <2>1, PlusMinus
    <2>3. inv'[p] = c ++ b /\ inv'[q] = d ++ a
        BY <1>1, <1>2, <1>4 DEF Images
    <2> HIDE DEF c, d
    <2>4. inv'[p][g] = c[g] + b[g] /\ inv'[q][g] = d[g] + a[g]
        <3>1. (c ++ b)[g] = c[g] + b[g] /\ (d ++ a)[g] = d[g] + a[g]
            BY <1>3, <2>2, PlusMinus
        <3>. QED
            BY <2>3, <3>1
    <2>5. /\ inv[p][g] \in Nat /\ inv[q][g] \in Nat /\ a[g] \in Nat /\ b[g] \in Nat
          /\ a[g] <= inv[p][g] /\ b[g] <= inv[q][g]
        BY <1>1, <1>3, <2>1
    <2>. QED
        BY <2>2, <2>4, <2>5
<1>6. ASSUME NEW g \in Goods
      PROVE  /\ Owned'[p][g] = (Owned[p][g] - a[g]) + b[g] /\ Owned'[q][g] = (Owned[q][g] - b[g]) + a[g]
             /\ Owned[p][g] \in Nat /\ Owned[q][g] \in Nat /\ a[g] \in Nat /\ b[g] \in Nat
             /\ a[g] <= Owned[p][g] /\ b[g] <= Owned[q][g]
             /\ \A r \in Player \ {p, q} : Owned'[r][g] = Owned[r][g]
    <2>1. /\ Owned'[p][g] = inv'[p][g] + window[p][g] /\ Owned'[q][g] = inv'[q][g] + window[q][g]
          /\ Owned[p][g] = inv[p][g] + window[p][g] /\ Owned[q][g] = inv[q][g] + window[q][g]
          /\ window[p][g] \in Nat /\ window[q][g] \in Nat
        <3>1. window' = window
            BY DEF PrivateShop
        <3>2. window[p][g] \in Nat /\ window[q][g] \in Nat
            BY <1>2, ImageAt
        <3>. QED
            BY <1>1, <3>1, <3>2, OwnedFacts, OwnedFactsNext DEF WInv, Frame
    <2>2. ASSUME NEW r \in Player \ {p, q}
          PROVE  Owned'[r][g] = Owned[r][g]
        <3>1. inv'[r] = inv[r] /\ window' = window /\ db' = db
            BY <1>1, <1>2, <1>4 DEF PrivateShop, Images
        <3>2. CASE r \in online
            BY <1>1, <3>1, <3>2, OwnedFacts, OwnedFactsNext DEF WInv, Frame
        <3>3. CASE r \notin online
            BY <1>1, <3>1, <3>3, OwnedFacts, OwnedFactsNext DEF WInv, Frame
        <3>. QED
            BY <3>2, <3>3
    <2>3. /\ inv'[p][g] = (inv[p][g] - a[g]) + b[g] /\ inv'[q][g] = (inv[q][g] - b[g]) + a[g]
          /\ inv[p][g] \in Nat /\ inv[q][g] \in Nat /\ a[g] \in Nat /\ b[g] \in Nat
          /\ a[g] <= inv[p][g] /\ b[g] <= inv[q][g]
        BY <1>5
    <2>. QED
        BY <2>1, <2>2, <2>3
<1>7. \A g \in Goods : InWorld(g)' = InWorld(g)
    <2>1. ASSUME NEW g \in Goods
          PROVE  TotalOf(Owned', g) = TotalOf(Owned, g)
        <3> DEFINE x == Owned'
                   y == Owned
        <3>1. x[p][g] + x[q][g] = y[p][g] + y[q][g] /\ \A r \in Player \ {p, q} : x[r][g] = y[r][g]
            BY <1>6
        <3>2. x \in Images /\ y \in Images
            BY <1>2
        <3> HIDE DEF x, y
        <3>3. TotalOf(x, g) = TotalOf(y, g)
            BY <1>1, <3>1, <3>2, TotalTwo
        <3>. QED
            BY <3>3 DEF x, y
    <2>. QED
        BY <2>1 DEF InWorld
<1>8. ASSUME settled, RowsUnique
      PROVE  Replay(db, wal') = Owned'
    <2>1. Replay(db, wal) = Owned /\ OncePerWorld
        BY <1>8 DEF WInv, LogTells
    <2> DEFINE x == Owned
               e == Entry(p, q, i, 1)
               f == Entry(q, p, Adena, n)
               y == ReplayEntry(x, e)
               z == ReplayEntry(y, f)
    <2>2. /\ e \in Entries /\ e.from = p /\ e.to = q /\ e.good = i /\ e.count = 1
          /\ f \in Entries /\ f.from = q /\ f.to = p /\ f.good = Adena /\ f.count = n
        BY <1>1 DEF Entry, Entries
    <2>3. wal' = wal \o <<e, f>> /\ wal \in Seq(Entries)
        BY TypeParts DEF PrivateShop, WInv
    <2> HIDE DEF e, f
    <2>4. Replay(db, wal') = z
        <3> DEFINE l == <<e>>
                   m == <<f>>
                   k == <<e, f>>
        <3>1. l \in Seq(Entries) /\ m \in Seq(Entries)
            BY <2>2
        <3>2. k = l \o m
            BY <2>2, PairConcat
        <3>3. Replay(x, l) = y /\ Replay(y, m) = z
            BY ReplayOne
        <3>4. wal' = wal \o k
            BY <2>3
        <3> HIDE DEF l, m, k
        <3>5. k \in Seq(Entries) /\ wal \in Seq(Entries)
            BY <2>3, <3>1, <3>2, ConcatProperties
        <3>6. Replay(db, wal \o k) = Replay(Replay(db, wal), k)
            BY <3>5, ReplayConcat
        <3>7. Replay(x, l \o m) = Replay(Replay(x, l), m)
            BY <3>1, ReplayConcat
        <3>. QED
            BY <2>1, <3>2, <3>3, <3>4, <3>6, <3>7
    <2>5. x[p][i] = 1
        <3>1. x[p][i] > 0
            BY <1>1, <1>3, <1>6
        <3>. QED
            BY <1>1, <2>1, <3>1, OnceOwned DEF WInv
    <2>6. x \in Images
        BY <1>2
    <2> HIDE DEF x
    <2>7. Handed(x, e) = 1 /\ Only(e.good, Handed(x, e)) = a
        BY <2>2, <2>5 DEF Handed, a
    <2>8. /\ y \in Images /\ y[p] = x[p] -- a /\ y[q] = x[q] ++ a
          /\ \A s \in Player \ {p, q} : y[s] = x[s]
        BY <2>2, <2>6, <2>7, EntryMoves
    <2> HIDE DEF y
    <2>9. Handed(y, f) = n /\ Only(f.good, Handed(y, f)) = b
        BY <2>2 DEF Handed, b
    <2>10. /\ z \in Images /\ z[q] = y[q] -- b /\ z[p] = y[p] ++ b
           /\ \A s \in Player \ {p, q} : z[s] = y[s]
        BY <2>2, <2>8, <2>9, EntryMoves
    <2> HIDE DEF z
    <2>11. ASSUME NEW r \in Player, NEW g \in Goods
           PROVE  z[r][g] = Owned'[r][g]
        <3>2. /\ y[p][g] = IF x[p][g] > a[g] THEN x[p][g] - a[g] ELSE 0
              /\ y[q][g] = x[q][g] + a[g]
            BY <2>8 DEF ++, --
        <3>3. /\ z[q][g] = IF y[q][g] > b[g] THEN y[q][g] - b[g] ELSE 0
              /\ z[p][g] = y[p][g] + b[g]
            BY <2>10 DEF ++, --
        <3>4. /\ Owned'[p][g] = (x[p][g] - a[g]) + b[g] /\ Owned'[q][g] = (x[q][g] - b[g]) + a[g]
              /\ x[p][g] \in Nat /\ x[q][g] \in Nat /\ a[g] \in Nat /\ b[g] \in Nat
              /\ a[g] <= x[p][g] /\ b[g] <= x[q][g]
            BY <1>6 DEF x
        <3>5. CASE r = p
            BY <3>2, <3>3, <3>4, <3>5
        <3>6. CASE r = q
            BY <3>2, <3>3, <3>4, <3>6
        <3>7. CASE r \notin {p, q}
            BY <1>6, <2>8, <2>10, <3>7 DEF x
        <3>. QED
            BY <3>5, <3>6, <3>7
    <2>12. z = Owned'
        <3> DEFINE o == Owned'
        <3>1. o \in Images /\ \A r \in Player, g \in Goods : z[r][g] = o[r][g]
            BY <1>2, <2>11
        <3> HIDE DEF o
        <3>2. z = o
            BY <2>10, <3>1, ImagesEqual
        <3>. QED
            BY <3>2 DEF o
    <2>. QED
        BY <2>4, <2>12
<1>. QED
    BY <1>7, <1>8, Trading DEF PrivateShop, serverVars, Whole, Frame

LEMMA UseUpKeeps ==
    ASSUME WInv, Frame', NEW p \in Player, NEW g \in Goods, UseUp(p, g)
    PROVE  Whole
<1>1. settled' => InSync'
    BY DEF UseUp, Settle
<1>2. LogTells'
    BY <1>1, LogStillTells DEF WInv, Frame
<1>3. Owned \in Images /\ Owned' \in Images /\ p \in online /\ online' = online
    BY OwnedFacts, OwnedFactsNext DEF WInv, Frame, UseUp
<1>4. ASSUME NEW r \in Player, NEW h \in Goods
      PROVE  Owned'[r][h] <= Owned[r][h]
    <2> DEFINE o == Only(g, 1)
    <2>1. o \in [Goods -> Nat]
        BY OnlyAt
    <2>2. inv' = [inv EXCEPT ![p] = inv[p] -- o] /\ window' = window /\ db' = db
        BY DEF UseUp, diskVars
    <2> HIDE DEF o
    <2>3. /\ inv \in Images /\ inv[p] \in [Goods -> Nat] /\ inv[p][h] \in Nat /\ inv[r][h] \in Nat
          /\ window[r][h] \in Nat /\ o[h] \in Nat
        BY <2>1, TypeParts, ImageAt DEF WInv
    <2>4. inv'[p] = inv[p] -- o /\ (r # p => inv'[r] = inv[r])
        BY <2>2, <2>3 DEF Images
    <2>5. inv'[p][h] <= inv[p][h]
        BY <2>1, <2>3, <2>4, PlusMinus
    <2>6. inv'[r][h] <= inv[r][h] /\ inv'[r][h] \in Nat
        <3>1. inv'[r][h] \in Nat
            <4>1. inv' \in Images
                BY DEF Frame, TypeOK
            <4> DEFINE k == inv'
            <4> HIDE DEF k
            <4>2. k[r][h] \in Nat
                BY <4>1, ImageAt DEF k
            <4>. QED
                BY <4>2 DEF k
        <3>. QED
            BY <2>3, <2>4, <2>5, <3>1
    <2>7. CASE r \in online
        <3>1. Owned'[r][h] = inv'[r][h] + window[r][h] /\ Owned[r][h] = inv[r][h] + window[r][h]
            BY <1>3, <2>2, <2>7, OwnedFacts, OwnedFactsNext DEF WInv, Frame
        <3>. QED
            BY <2>3, <2>6, <3>1
    <2>8. CASE r \notin online
        <3>1. Owned'[r] = Owned[r]
            BY <1>3, <2>2, <2>8, OwnedFacts, OwnedFactsNext DEF WInv, Frame
        <3>2. Owned[r][h] \in Nat
            BY <1>3, ImageAt
        <3>. QED
            BY <3>1, <3>2
    <2>. QED
        BY <2>7, <2>8
<1>5. \A h \in Goods : InWorld(h)' <= InWorld(h)
    <2> DEFINE a == Owned'
               b == Owned
    <2>1. a \in Images /\ b \in Images /\ \A r \in Player, h \in Goods : a[r][h] <= b[r][h]
        BY <1>3, <1>4
    <2> HIDE DEF a, b
    <2>2. \A h \in Goods : TotalOf(a, h) <= TotalOf(b, h)
        BY <2>1, TotalLess
    <2>. QED
        BY <2>2 DEF a, b, InWorld
<1>6. mode' = "running" /\ minted' = minted /\ mishaps' = mishaps
    BY DEF UseUp, serverVars
<1>7. mishaps = 0 => OncePerWorld' /\ InWorld(Adena)' <= minted'
    BY <1>5, <1>6, NoMore DEF WInv, Frame
<1>8. Unhurt'
    BY <1>1, <1>6, <1>7, StillUnhurt DEF WInv, Frame
<1>. QED
    BY <1>2, <1>8 DEF Whole

\* Nothing of anybody's changes, whichever way the step is counted.
LEMMA NobodyGains ==
    ASSUME TypeOK, Unhurt, mishaps = 0, TypeOK', Owned' = Owned, minted' = minted
    PROVE  OncePerWorld' /\ InWorld(Adena)' <= minted'
<1>1. \A g \in Goods : InWorld(g)' = InWorld(g)
    BY DEF InWorld
<1>2. \A g \in Goods : InWorld(g)' <= InWorld(g)
    BY <1>1, WorldType
<1>. QED
    BY <1>2, NoMore

\* Who leaves has in his rows what he owned, and his partner's offer is back.
LEMMA LeaveWorldKeeps ==
    ASSUME WInv, Frame', NEW p \in Player, LeaveWorld(p)
    PROVE  Whole
<1>1. settled' => InSync'
    BY DEF LeaveWorld, Settle
<1>2. LogTells'
    BY <1>1, LogStillTells DEF WInv, Frame
<1>3. mishaps' = 0 => mishaps = 0 /\ db'[p] = Held(p)
    BY TypeParts DEF WInv, LeaveWorld, Mishap, RowsOnLeaving, Images
<1>4. ASSUME mishaps' = 0
      PROVE  Owned' = Owned
    <2>1. Owned \in Images /\ Owned' \in Images
        BY OwnedFacts, OwnedFactsNext DEF WInv, Frame
    <2>2. ASSUME NEW r \in Player, NEW h \in Goods
          PROVE  Owned'[r][h] = Owned[r][h]
        <3>1. CASE r = p
            <4>1. Owned'[p] = db'[p]
                BY OwnedFactsNext DEF Frame, LeaveWorld
            <4>2. Owned[p] = Held(p)
                BY OwnedType DEF WInv, LeaveWorld
            <4>. QED
                BY <1>3, <1>4, <3>1, <4>1, <4>2
        <3>2. CASE r \in online /\ r # p
            <4>1. \/ inv'[r] = inv[r] /\ window'[r] = window[r]
                  \/ inv'[r] = Held(r) /\ window'[r] = Nothing
                BY <3>2 DEF LeaveWorld
            <4>2. /\ Owned'[r][h] = inv'[r][h] + window'[r][h]
                  /\ Owned[r][h] = inv[r][h] + window[r][h]
                <5>1. r \in online'
                    BY <3>2 DEF LeaveWorld
                <5>2. Owned'[r][h] = inv'[r][h] + window'[r][h]
                    BY <5>1, OwnedFactsNext DEF Frame
                <5>3. Owned[r][h] = inv[r][h] + window[r][h]
                    BY <3>2, OwnedFacts DEF WInv
                <5>. QED
                    BY <5>2, <5>3
            <4>3. /\ Held(r)[h] = inv[r][h] + window[r][h] /\ inv[r][h] \in Nat /\ window[r][h] \in Nat
                  /\ Nothing[h] = 0
                BY HeldType, OnlyAt DEF WInv
            <4>. QED
                BY <4>1, <4>2, <4>3
        <3>3. CASE r \notin online
            <4>1. r # p /\ r \notin online'
                BY <3>3 DEF LeaveWorld
            <4>2. db'[r] = db[r]
                BY <4>1, TypeParts DEF WInv, LeaveWorld, Images
            <4>. QED
                BY <3>3, <4>1, <4>2, OwnedFacts, OwnedFactsNext DEF WInv, Frame
        <3>. QED
            BY <3>1, <3>2, <3>3
    <2> DEFINE a == Owned'
    <2>3. a \in Images /\ \A r \in Player, h \in Goods : a[r][h] = Owned[r][h]
        BY <2>1, <2>2
    <2> HIDE DEF a
    <2>4. a = Owned
        BY <2>1, <2>3, ImagesEqual
    <2>. QED
        BY <2>4 DEF a
<1>5. mode' = "running" /\ minted' = minted
    BY DEF LeaveWorld, serverVars
<1>6. mishaps' = 0 => OncePerWorld' /\ InWorld(Adena)' <= minted'
    BY <1>3, <1>4, <1>5, NobodyGains DEF WInv, Frame
<1>7. Unhurt'
    BY <1>1, <1>3, <1>5, <1>6, StillUnhurt DEF WInv, Frame
<1>. QED
    BY <1>2, <1>7 DEF Whole

\* Starting gold goes to who had nothing, unless loading failed, which is a mishap.
LEMMA EnterWorldKeeps ==
    ASSUME WInv, Frame', NEW p \in Player, EnterWorld(p)
    PROVE  Whole
<1>1. /\ db' = db /\ wal' = wal /\ window' = window /\ online' = online \cup {p} /\ p \notin online
      /\ mode' = "running" /\ settled' = (InSync' \/ (settled /\ inv'[p] = db[p]))
    BY DEF EnterWorld, diskVars, serverVars, Settle
<1>2. /\ inv \in Images /\ db \in Images /\ window \in Images /\ Owned \in Images /\ Owned' \in Images
      /\ minted \in Nat /\ mishaps \in Nat /\ StartGold \in Nat
    BY TypeParts, OwnedFacts, OwnedFactsNext DEF WInv, Frame
<1>3. inv'[p] \in [Goods -> Nat] /\ \A r \in Player \ {p} : inv'[r] = inv[r]
    <2>1. db[p] \in [Goods -> Nat] /\ Only(Adena, StartGold) \in [Goods -> Nat]
        BY <1>2, ImageAt, OnlyAt, GoodsAre
    <2>. QED
        BY <1>2, <2>1 DEF EnterWorld, Images
<1>4. \A r \in Player \ {p}, h \in Goods : Owned'[r][h] = Owned[r][h]
    <2>1. ASSUME NEW r \in Player \ {p}, NEW h \in Goods
          PROVE  Owned'[r][h] = Owned[r][h]
        <3>1. CASE r \in online
            BY <1>1, <1>3, <3>1, OwnedFacts, OwnedFactsNext DEF WInv, Frame
        <3>2. CASE r \notin online
            BY <1>1, <3>2, OwnedFacts, OwnedFactsNext DEF WInv, Frame
        <3>. QED
            BY <3>1, <3>2
    <2>. QED
        BY <2>1
<1>5. \A h \in Goods : Owned'[p][h] = inv'[p][h] /\ Owned[p][h] = db[p][h]
    <2>1. ASSUME NEW h \in Goods
          PROVE  Owned'[p][h] = inv'[p][h] /\ Owned[p][h] = db[p][h]
        <3>1. window[p] = Nothing /\ Nothing[h] = 0
            BY <1>1, OnlyAt DEF WInv, Outside
        <3>2. Owned'[p][h] = inv'[p][h] + window'[p][h]
            BY <1>1, OwnedFactsNext DEF Frame
        <3>. QED
            BY <1>1, <1>3, <3>1, <3>2, OwnedFacts DEF WInv
    <2>. QED
        BY <2>1
<1>6. inv'[p] = db[p] => Owned' = Owned
    <2> DEFINE a == Owned'
    <2>1. a \in Images /\ (inv'[p] = db[p] => \A r \in Player, h \in Goods : a[r][h] = Owned[r][h])
        BY <1>2, <1>4, <1>5
    <2> HIDE DEF a
    <2>2. inv'[p] = db[p] => a = Owned
        BY <1>2, <2>1, ImagesEqual
    <2>. QED
        BY <2>2 DEF a
<1>7. LogTells'
    <2>1. Owned' = Owned => (OncePerWorld => OncePerWorld')
        BY DEF OncePerWorld, InWorld
    <2>. QED
        BY <1>1, <1>6, <2>1, LogStillTells DEF WInv, Frame
<1>8. ASSUME mishaps' = 0
      PROVE  mishaps = 0 /\ OncePerWorld' /\ InWorld(Adena)' <= minted'
    <2>1. CASE inv' = [inv EXCEPT ![p] = db[p]] /\ minted' = minted /\ mishaps' = mishaps
        <3>1. inv'[p] = db[p]
            BY <1>2, <2>1 DEF Images
        <3>. QED
            BY <1>6, <1>8, <2>1, <3>1, NobodyGains DEF WInv, Frame
    <2>2. CASE /\ inv' = [inv EXCEPT ![p] = Only(Adena, StartGold)] /\ minted' = minted + StartGold
               /\ IF db[p] = Nothing THEN mishaps' = mishaps ELSE Mishap
        <3>1. mishaps = 0 /\ db[p] = Nothing
            BY <1>2, <1>8, <2>2 DEF Mishap
        <3>2. inv'[p] = Only(Adena, StartGold)
            BY <1>2, <2>2 DEF Images
        <3>3. \A h \in Goods : Owned[p][h] = 0 /\ Owned'[p][h] = IF h = Adena THEN StartGold ELSE 0
            BY <1>2, <1>5, <3>1, <3>2, OnlyAt, GoodsAre
        <3>4. \A h \in Goods : InWorld(h)' = InWorld(h) + (IF h = Adena THEN StartGold ELSE 0)
            <4> DEFINE a == Owned'
            <4>1. /\ a \in Images /\ \A h \in Goods, r \in Player \ {p} : a[r][h] = Owned[r][h]
                  /\ \A h \in Goods : Owned[p][h] = 0 /\ a[p][h] = IF h = Adena THEN StartGold ELSE 0
                BY <1>2, <1>4, <3>3
            <4> HIDE DEF a
            <4>2. ASSUME NEW h \in Goods
                  PROVE  TotalOf(a, h) = TotalOf(Owned, h) + (IF h = Adena THEN StartGold ELSE 0)
                <5>1. TotalOf(a, h) + Owned[p][h] = TotalOf(Owned, h) + a[p][h]
                    BY <1>2, <4>1, TotalOne
                <5>2. TotalOf(a, h) \in Nat /\ TotalOf(Owned, h) \in Nat
                    BY <1>2, <4>1, TotalType
                <5>. QED
                    BY <1>2, <4>1, <5>1, <5>2
            <4>. QED
                BY <4>2 DEF InWorld, a
        <3>5. \A h \in Goods : InWorld(h) \in Nat
            BY WorldType DEF WInv
        <3>6. OncePerWorld /\ InWorld(Adena) <= minted
            BY <3>1 DEF WInv, Unhurt
        <3>7. \A i \in Item : InWorld(i)' = InWorld(i)
            BY <3>4, <3>5, GoodsAre
        <3>8. InWorld(Adena)' = InWorld(Adena) + StartGold
            BY <3>4, GoodsAre
        <3>9. InWorld(Adena)' <= minted'
            BY <1>2, <2>2, <3>5, <3>6, <3>8, GoodsAre
        <3>. QED
            BY <3>1, <3>6, <3>7, <3>9 DEF OncePerWorld
    <2>. QED
        BY <2>1, <2>2 DEF EnterWorld
<1>9. Unhurt'
    BY <1>1, <1>8, StillUnhurt DEF WInv, Frame
<1>. QED
    BY <1>7, <1>9 DEF Whole


LEMMA SavePlayerKeeps ==
    ASSUME WInv, Frame', NEW p \in Player, SavePlayer(p)
    PROVE  Whole
<1>1. /\ settled' => InSync'
      /\ p \in online /\ inv' = inv /\ window' = window /\ online' = online /\ minted' = minted
      /\ mode' = mode /\ mode \in {"autosave", "shutdown"} /\ todo' = todo \ {p}
    BY TypeParts DEF WInv, SavePlayer, Settle
<1>2. LogTells'
    BY <1>1, LogStillTells DEF WInv, Frame
<1>3. \A r \in Player \ {p} : db'[r] = db[r]
    BY TypeParts DEF WInv, SavePlayer, Images
<1>4. Owned' = Owned
    <2>1. \A r \in Player : Held(r)' = Held(r)
        BY <1>1 DEF Held
    <2>. QED
        BY <1>1, <1>3, <2>1 DEF Owned
<1>5. mishaps' = 0 => mishaps = 0 /\ db'[p] = inv[p]
    BY TypeParts DEF WInv, SavePlayer, Mishap, Images
<1>6. mishaps' = 0 => OncePerWorld' /\ InWorld(Adena)' <= minted'
    BY <1>1, <1>4, <1>5, NobodyGains DEF WInv, Frame
<1>7. mishaps' = 0 /\ mode' \in {"shutdown", "stopped"} =>
        \A r \in online' \ todo' : db'[r] = inv'[r]
    BY <1>1, <1>3, <1>5, TypeParts DEF WInv, Unhurt
<1>8. Unhurt'
    BY <1>1, <1>5, <1>6, <1>7, StillUnhurt DEF WInv, Frame
<1>. QED
    BY <1>2, <1>8 DEF Whole

LEMMA FinishSaveKeeps ==
    ASSUME WInv, Frame', FinishSave
    PROVE  Whole
<1>1. /\ inv' = inv /\ window' = window /\ online' = online /\ db' = db /\ minted' = minted
      /\ settled' = (InSync' \/ (settled /\ wal' = wal))
      /\ todo = {} /\ todo' = todo
      /\ mode' \in {"running", "stopped"} /\ (mode' = "stopped" => mode = "shutdown")
    BY DEF FinishSave, gameVars, Settle
<1>2. Owned' = Owned
    <2>1. \A r \in Player : Held(r)' = Held(r)
        BY <1>1 DEF Held
    <2>. QED
        BY <1>1, <2>1 DEF Owned
<1>3. LogTells'
    <2>1. OncePerWorld => OncePerWorld'
        BY <1>2 DEF OncePerWorld, InWorld
    <2>2. settled' => InSync' \/ (settled /\ wal' = wal)
        BY <1>1
    <2>. QED
        BY <1>1, <1>2, <2>1, <2>2, LogStillTells DEF WInv, Frame
<1>4. mishaps' = 0 => mishaps = 0 /\ wal' = <<>>
    BY TypeParts DEF WInv, FinishSave, Mishap
<1>5. mishaps' = 0 => OncePerWorld' /\ InWorld(Adena)' <= minted'
    BY <1>1, <1>2, <1>4, NobodyGains DEF WInv, Frame
<1>6. mishaps' = 0 /\ mode' \in {"shutdown", "stopped"} =>
        \A r \in online' \ todo' : db'[r] = inv'[r]
    BY <1>1, <1>4 DEF WInv, Unhurt
<1>7. settled' => InSync' \/ (settled /\ db' = db)
    BY <1>1
<1>8. Unhurt'
    BY <1>1, <1>4, <1>5, <1>6, <1>7, StillUnhurt DEF WInv, Frame
<1>. QED
    BY <1>3, <1>8 DEF Whole

LEMMA SwitchKeeps ==
    ASSUME WInv, Frame', AutoSave \/ Shutdown \/ Crash
    PROVE  Whole
<1>1. /\ inv' = inv /\ window' = window /\ online' = online /\ db' = db /\ wal' = wal
      /\ minted' = minted /\ settled' = settled
      /\ mode' \in {"autosave", "shutdown", "crashed"}
      /\ mode' = "shutdown" => todo' = online
      /\ mode' = "crashed" => settled \/ Mishap
      /\ mishaps' = mishaps \/ Mishap
    BY DEF AutoSave, Shutdown, Crash, gameVars, diskVars
<1>2. Owned' = Owned
    <2>1. \A r \in Player : Held(r)' = Held(r)
        BY <1>1 DEF Held
    <2>. QED
        BY <1>1, <2>1 DEF Owned
<1>3. LogTells'
    <2>1. OncePerWorld => OncePerWorld'
        BY <1>2 DEF OncePerWorld, InWorld
    <2>2. settled' => settled
        BY <1>1
    <2>. QED
        BY <1>1, <1>2, <2>1, <2>2, LogStillTells DEF WInv, Frame
<1>4. mishaps' = 0 => mishaps = 0 /\ ~Mishap
    BY <1>1, TypeParts DEF WInv, Mishap
<1>5. mishaps' = 0 => OncePerWorld' /\ InWorld(Adena)' <= minted'
    BY <1>1, <1>2, <1>4, NobodyGains DEF WInv, Frame
<1>6. mode' \in {"shutdown", "stopped"} => online' \ todo' = {}
    BY <1>1
<1>7. Unhurt'
    BY <1>1, <1>4, <1>5, <1>6, StillUnhurt DEF WInv, Frame
<1>. QED
    BY <1>3, <1>7 DEF Whole

\* After a crash without a mishap nothing but trading was unsaved, and the log tells it;
\* after a shutdown the log is empty, and what lay in a window is lost.
LEMMA RecoverWALKeeps ==
    ASSUME WInv, Frame', RecoverWAL
    PROVE  Whole
<1>1. /\ online' = {} /\ wal' = <<>> /\ mode' = "running" /\ mode \in {"crashed", "stopped"}
      /\ db' = Replay(db, wal) /\ minted' = minted /\ mishaps' = mishaps
    BY DEF RecoverWAL
<1>2. InSync'
    BY <1>1 DEF InSync
<1>3. LogTells'
    BY <1>2, LogStillTells DEF WInv, Frame
<1>4. Owned' = db'
    BY <1>2, SyncTellsNext DEF Frame
<1>5. ASSUME mishaps = 0
      PROVE  OncePerWorld' /\ InWorld(Adena)' <= minted'
    <2>1. CASE mode = "crashed"
        <3>1. Replay(db, wal) = Owned
            BY <1>5, <2>1 DEF WInv, Unhurt, LogTells
        <3>. QED
            BY <1>1, <1>4, <1>5, <3>1, NobodyGains DEF WInv, Frame
    <2>2. CASE mode = "stopped"
        <3>1. wal = <<>> /\ todo = {} /\ \A p \in online : db[p] = inv[p]
            BY <1>5, <2>2 DEF WInv, Unhurt, Idle
        <3>2. Owned' = db /\ db \in Images /\ Owned \in Images /\ inv \in Images
            BY <1>1, <1>4, <3>1, ReplayEmpty, TypeParts, OwnedFacts DEF WInv
        <3>3. ASSUME NEW p \in Player, NEW g \in Goods
              PROVE  db[p][g] <= Owned[p][g]
            <4>1. CASE p \in online
                <5>1. Owned[p][g] = inv[p][g] + window[p][g] /\ db[p] = inv[p]
                    BY <3>1, <4>1, OwnedFacts DEF WInv
                <5>2. inv[p][g] \in Nat /\ window[p][g] \in Nat
                    BY HeldType DEF WInv
                <5>. QED
                    BY <5>1, <5>2
            <4>2. CASE p \notin online
                <5>1. Owned[p] = db[p]
                    BY <4>2, OwnedFacts DEF WInv
                <5>2. db[p][g] \in Nat
                    BY <3>2, ImageAt
                <5>. QED
                    BY <5>1, <5>2
            <4>. QED
                BY <4>1, <4>2
        <3>4. \A g \in Goods : TotalOf(db, g) <= TotalOf(Owned, g)
            BY <3>2, <3>3, TotalLess
        <3>5. \A g \in Goods : InWorld(g)' <= InWorld(g)
            BY <3>2, <3>4 DEF InWorld
        <3>. QED
            BY <1>1, <1>5, <3>5, NoMore DEF WInv, Frame
    <2>. QED
        BY <1>1, <2>1, <2>2
<1>6. Unhurt'
    BY <1>1, <1>2, <1>5, StillUnhurt DEF WInv, Frame
<1>. QED
    BY <1>3, <1>6 DEF Whole

LEMMA StutterKeeps ==
    ASSUME WInv, UNCHANGED vars
    PROVE  Whole
<1>1. /\ inv' = inv /\ window' = window /\ online' = online /\ db' = db /\ wal' = wal
      /\ minted' = minted /\ settled' = settled /\ mishaps' = mishaps /\ mode' = mode /\ todo' = todo
    BY DEF vars, serverVars, gameVars, diskVars
<1>2. Owned' = Owned
    <2>1. \A r \in Player : Held(r)' = Held(r)
        BY <1>1 DEF Held
    <2>. QED
        BY <1>1, <2>1 DEF Owned
<1>. QED
    BY <1>1, <1>2 DEF Whole, WInv, LogTells, Unhurt, RowsUnique, OncePerWorld, RowsOf, InWorld

LEMMA WInvInit == Init => WInv
<1> SUFFICES ASSUME Init PROVE WInv
    OBVIOUS
<1>1. Frame
    BY InitFrame
<1>2. InSync
    BY DEF Init, InSync
<1>3. Owned = db /\ Replay(db, wal) = Owned
    BY <1>1, <1>2, SyncTells DEF Frame
<1>4. InWorld(Adena) = minted /\ (RowsUnique <=> OncePerWorld) /\ RowsUnique
    BY <1>3 DEF Init, InWorld, RowsOf, RowsUnique, OncePerWorld
<1>5. minted \in Nat
    BY <1>1, TypeParts DEF Frame
<1>6. Unhurt
    BY <1>4, <1>5 DEF Init, Unhurt
<1>. QED
    BY <1>1, <1>3, <1>4, <1>6 DEF WInv, Frame, LogTells

LEMMA WInvNext == WInv /\ [Next]_vars => WInv'
<1> SUFFICES ASSUME WInv, [Next]_vars PROVE WInv'
    OBVIOUS
<1>1. Frame'
    BY FrameKept DEF WInv, Frame
<1>2. Whole
    <2>1. ASSUME NEW p \in Player, NEW q \in Player, OpenTrade(p, q) \/ ExecuteTrade(p, q) \/ CancelTrade(p, q)
          PROVE  Whole
        BY <1>1, <2>1, OpenTradeKeeps, ExecuteTradeKeeps, CancelTradeKeeps
    <2>2. ASSUME NEW p \in Player, NEW g \in Goods, UseUp(p, g) \/ \E n \in 1..inv[p][g] : Offer(p, g, n)
          PROVE  Whole
        BY <1>1, <2>2, UseUpKeeps, OfferKeeps
    <2>3. ASSUME NEW p \in Player, NEW q \in Player, NEW i \in Item, NEW n \in 1..inv[q][Adena],
                 PrivateShop(p, q, i, n)
          PROVE  Whole
        BY <1>1, <2>3, PrivateShopKeeps
    <2>4. ASSUME NEW p \in Player, LeaveWorld(p) \/ EnterWorld(p) \/ SavePlayer(p)
          PROVE  Whole
        BY <1>1, <2>4, LeaveWorldKeeps, EnterWorldKeeps, SavePlayerKeeps
    <2>5. CASE AutoSave \/ Shutdown \/ FinishSave \/ Crash \/ RecoverWAL
        BY <1>1, <2>5, SwitchKeeps, FinishSaveKeeps, RecoverWALKeeps
    <2>6. CASE UNCHANGED vars
        BY <2>6, StutterKeeps
    <2>. QED
        BY <2>1, <2>2, <2>3, <2>4, <2>5, <2>6 DEF Next
<1>. QED
    BY <1>1, <1>2 DEF WInv, Frame, Whole

-----------------------------------------------------------------------------
(* The theorems.                                                             *)

LEMMA WInvHolds == Spec => []WInv
<1>. QED
    BY WInvInit, WInvNext, PTL DEF Spec

\* The values of flags, inventories, rows and log, and only players who are in the world
\* trade or wait to be saved.
THEOREM WalTypeCorrect == Spec => []TypeOK
<1>1. WInv => TypeOK
    BY DEF WInv
<1>. QED
    BY <1>1, WInvHolds, PTL

\* RecoverWAL would give everybody in the world exactly what he owned when the server died,
\* if trades, executed or under way, are all that happened since his rows were written.
THEOREM RecoveryGivesWhatWasOwned == Spec => []RecoveryMatchesMemory
<1>1. WInv => RecoveryMatchesMemory
    BY OwnedType DEF WInv, LogTells, RowsUnique, RecoveryMatchesMemory
<1>. QED
    BY <1>1, WInvHolds, PTL

\* Without a failed write or a crash over unsaved work no object is in two places and no
\* gold appears, through trades, purchases, logins, logouts, saves, shutdowns and restarts.
THEOREM NoDuplication == Spec => []NothingIsDuplicated
<1>1. WInv => NothingIsDuplicated
    BY DEF WInv, Unhurt, OncePerWorld, NothingIsDuplicated
<1>. QED
    BY <1>1, WInvHolds, PTL

\* handleDisconnect and HandleChangeChar write all a player owned, or leave his rows as they
\* were; and after SaveAllPlayers in which writes worked all rows are the inventories.
THEOREM LastSavesAreWhole == Spec => SavesAreWhole
<1>1. WInv => ShutdownSavesInventories
    BY DEF WInv, Idle, Unhurt, ShutdownSavesInventories
<1>2. WInv /\ [Next]_vars =>
        [\A p \in online \ online' : mode = "running" => db'[p] \in {db[p], Held(p)}]_vars
    <2> SUFFICES ASSUME WInv, [Next]_vars, NEW p \in online, p \notin online', mode = "running"
                 PROVE  db'[p] \in {db[p], Held(p)}
        OBVIOUS
    <2>1. p \in Player /\ db \in Images
        BY TypeParts DEF WInv
    <2>2. PICK q \in Player : LeaveWorld(q)
        BY DEF Next, vars, serverVars, gameVars, OpenTrade, ExecuteTrade, CancelTrade, Close, UseUp, Offer,
               PrivateShop, EnterWorld, SavePlayer, AutoSave, Shutdown, FinishSave, Crash, RecoverWAL
    <2>3. p = q
        BY <2>2 DEF LeaveWorld
    <2>. QED
        BY <2>1, <2>2, <2>3 DEF LeaveWorld, RowsOnLeaving, Images
<1>. QED
    BY <1>1, <1>2, WInvHolds, PTL DEF Spec, SavesAreWhole, LeavingSavesAllOrNothing

HIDE WalAssumption

-----------------------------------------------------------------------------
(* What players carry: goods, and what they come to.                         *)

LEMMA KindsAre ==
    /\ {Gold, Herb, Blade} \subseteq Kind /\ Kind \subseteq {Gold, Herb, Blade}
    /\ Gold # Blade /\ Herb # Blade /\ Gold # Herb
    /\ Gold \in Stacks /\ Blade \notin Stacks
    /\ \A g \in Kind : g \in Stacks <=> g # Blade
<1>1. \A a, b : Cardinality({a, b}) <= 2
    <2> SUFFICES ASSUME NEW a, NEW b PROVE Cardinality({a, b}) <= 2
        OBVIOUS
    <2>1. IsFiniteSet({a}) /\ Cardinality({a}) = 1
        BY FS_Singleton
    <2>2. Cardinality({a} \cup {b}) <= 2
        BY <2>1, FS_AddElement
    <2>3. {a, b} = {a} \cup {b}
        OBVIOUS
    <2>. QED
        BY <2>2, <2>3
<1>2. Cardinality(Kind) = 3
    BY ShopAssumption
<1>3. ASSUME NEW a, NEW b, Kind = {a, b} PROVE FALSE
    <2>1. Cardinality(Kind) <= 2
        BY <1>1, <1>3
    <2>. QED
        BY <1>2, <2>1
<1>4. Gold # Blade
    <2>1. Gold = Blade => Kind = {Gold, Herb}
        BY DEF Kind
    <2>. QED
        BY <1>3, <2>1
<1>5. Herb # Blade
    <2>1. Herb = Blade => Kind = {Gold, Herb}
        BY DEF Kind
    <2>. QED
        BY <1>3, <2>1
<1>6. Gold # Herb
    <2>1. Gold = Herb => Kind = {Gold, Blade}
        BY DEF Kind
    <2>. QED
        BY <1>3, <2>1
<1>. QED
    BY <1>4, <1>5, <1>6 DEF Kind, Stacks

LEMMA ThingIs ==
    ASSUME NEW x \in Thing, NEW n \in Int
    PROVE  /\ x.obj \in Nat /\ x.good \in Kind /\ x.n \in Int
           /\ Counting(x, n) \in Thing
           /\ Counting(x, n).obj = x.obj /\ Counting(x, n).good = x.good /\ Counting(x, n).n = n
BY DEF Thing, Counting

LEMMA NewThing ==
    ASSUME NEW o \in Nat, NEW g \in Kind, NEW n \in Int
    PROVE  [obj |-> o, good |-> g, n |-> n] \in Thing
BY DEF Thing

LEMMA WrapIs ==
    ASSUME NEW n \in Int
    PROVE  Wrap(n) \in Int /\ (~(n > MaxInt) => Wrap(n) = n)
<1>1. MaxInt \in Nat
    BY ShopAssumption
<1>. QED
    BY <1>1 DEF Wrap

\* A sum that differs from another in one term.
LEMMA SumMoves ==
    ASSUME NEW S, IsFiniteSet(S), NEW f, NEW h, NEW e \in S,
           \A x \in S : f[x] \in Int /\ h[x] \in Int,
           \A x \in S : x # e => h[x] = f[x]
    PROVE  /\ SumFunctionOnSet(f, S) \in Int /\ SumFunctionOnSet(h, S) \in Int
           /\ SumFunctionOnSet(h, S) = SumFunctionOnSet(f, S) + (h[e] - f[e])
<1> DEFINE R == S \ {e}
<1>1. /\ SumFunctionOnSet(f, R) \in Int
      /\ SumFunctionOnSet(f, S) = f[e] + SumFunctionOnSet(f, R)
    BY SumWithout
<1>2. /\ SumFunctionOnSet(h, R) \in Int
      /\ SumFunctionOnSet(h, S) = h[e] + SumFunctionOnSet(h, R)
    BY SumWithout
<1>3. R \in FiniteSubsetsOf(R) /\ \A x \in R : f[x] = h[x]
    BY FS_Subset DEF FiniteSubsetsOf
<1> HIDE DEF R
<1>4. SumFunctionOnSet(f, R) = SumFunctionOnSet(h, R)
    BY <1>3, SumEqual
<1>. QED
    BY <1>1, <1>2, <1>4

\* The sum of a good, without one slot and with one more.
SlotCounts(S, R, x) ==
    \A g : /\ Total(S, g) \in Int /\ Total(R, g) \in Int
           /\ Total(S, g) = Total(R, g) + IF x.good = g THEN x.n ELSE 0

LEMMA TotalOut ==
    ASSUME NEW S \in SUBSET Thing, IsFiniteSet(S), NEW x \in S, NEW R, R = S \ {x}
    PROVE  SlotCounts(S, R, x)
<1> SUFFICES ASSUME NEW g
             PROVE  /\ Total(S, g) \in Int /\ Total(R, g) \in Int
                    /\ Total(S, g) = Total(R, g) + IF x.good = g THEN x.n ELSE 0
    BY DEF SlotCounts
<1> DEFINE f == [y \in S |-> y.n]
           h == [y \in R |-> y.n]
           A == {y \in S : y.good = g}
           B == {y \in R : y.good = g}
<1>1. IsFiniteSet(A) /\ IsFiniteSet(B) /\ \A y \in S : y.n \in Int
    BY FS_Subset, ThingIs
<1>2. B \in FiniteSubsetsOf(B) /\ A \in FiniteSubsetsOf(A)
    BY <1>1 DEF FiniteSubsetsOf
<1>3. (\A y \in A : f[y] \in Int) /\ (\A y \in B : f[y] \in Int /\ f[y] = h[y]) /\ f[x] = x.n
    BY <1>1
<1>4. Total(S, g) = SumFunctionOnSet(f, A) /\ Total(R, g) = SumFunctionOnSet(h, B)
    BY DEF Total
<1>5. (x.good = g => x \in A /\ A \ {x} = B) /\ (x.good # g => A = B)
    OBVIOUS
<1> HIDE DEF A, B, f, h
<1>6. SumFunctionOnSet(f, B) = SumFunctionOnSet(h, B)
    BY <1>2, <1>3, SumEqual
<1>7. SumFunctionOnSet(f, A) \in Int /\ SumFunctionOnSet(f, B) \in Int
    BY <1>2, <1>3, SumType
<1>8. CASE x.good = g
    <2>1. SumFunctionOnSet(f, A) = f[x] + SumFunctionOnSet(f, A \ {x})
        BY <1>1, <1>3, <1>5, <1>8, SumWithout
    <2>2. SumFunctionOnSet(f, A) = x.n + SumFunctionOnSet(f, B)
        BY <1>3, <1>5, <1>8, <2>1
    <2>3. x.n \in Int
        BY <1>1
    <2>. QED
        BY <1>4, <1>6, <1>7, <1>8, <2>2, <2>3
<1>9. CASE x.good # g
    BY <1>4, <1>5, <1>6, <1>7, <1>9
<1>. QED
    BY <1>8, <1>9

LEMMA TotalIn ==
    ASSUME NEW S \in SUBSET Thing, IsFiniteSet(S), NEW x \in Thing, x \notin S,
           NEW T, T = S \cup {x}
    PROVE  SlotCounts(T, S, x)
<1>1. T \in SUBSET Thing /\ IsFiniteSet(T) /\ x \in T /\ T \ {x} = S
    BY FS_AddElement
<1>. QED
    BY <1>1, TotalOut

LEMMA GoodsCount ==
    ASSUME NEW S \in SUBSET Thing, IsFiniteSet(S), NEW g
    PROVE  Total(S, g) \in Int
<1> DEFINE f == [y \in S |-> y.n]
           A == {y \in S : y.good = g}
<1>1. A \in FiniteSubsetsOf(A) /\ \A y \in A : f[y] \in Int
    BY FS_Subset, ThingIs DEF FiniteSubsetsOf
<1>2. Total(S, g) = SumFunctionOnSet(f, A)
    BY DEF Total
<1> HIDE DEF A, f
<1>. QED
    BY <1>1, <1>2, SumType

-----------------------------------------------------------------------------
(* Inventories as they should be.                                            *)

Mem == [stock : [Trader -> SUBSET Thing], things : Nat, burst : BOOLEAN]

\* One inventory: numbers up to k, no two of an object, a stack for each good that
\* stacks, nothing empty unless a count has wrapped (b), and gold numbered with none of N.
Proper(S, k, b, N) ==
    /\ IsFiniteSet(S) /\ S \subseteq Thing
    /\ \A x, y \in S : /\ x.obj = y.obj => x = y
                       /\ x.good = y.good /\ x.good # Blade => x = y
    /\ \A x \in S : /\ x.obj \in 1..k
                    /\ x.good = Blade => x.n = 1
                    /\ ~b => x.n >= 1
                    /\ x.good = Gold => x.obj \notin N

\* All of them.
Kept(m, N) ==
    /\ m \in Mem /\ N \subseteq 1..m.things
    /\ \A p \in Trader : Proper(m.stock[p], m.things, m.burst, N)
    /\ \A p, q \in Trader : p # q => \A x \in m.stock[p], y \in m.stock[q] : x.obj # y.obj

LEMMA ProperOut ==
    ASSUME NEW S, NEW k, NEW b, NEW N, Proper(S, k, b, N), NEW x \in S
    PROVE  Proper(S \ {x}, k, b, N)
<1>1. IsFiniteSet(S \ {x})
    BY FS_Subset DEF Proper
<1>. QED
    BY <1>1 DEF Proper

LEMMA ProperIn ==
    ASSUME NEW S, NEW k, NEW b, NEW N, Proper(S, k, b, N), NEW x \in Thing,
           x.obj \in 1..k, x.good = Blade => x.n = 1, ~b => x.n >= 1,
           x.good = Gold => x.obj \notin N,
           \A y \in S : y.obj # x.obj /\ (y.good = x.good => x.good = Blade)
    PROVE  Proper(S \cup {x}, k, b, N) /\ x \notin S
<1>1. IsFiniteSet(S \cup {x})
    BY FS_AddElement DEF Proper
<1>. QED
    BY <1>1 DEF Proper

LEMMA ProperGrows ==
    ASSUME NEW S, NEW k \in Nat, NEW l \in Nat, k <= l, NEW b, NEW c, b => c, NEW N,
           Proper(S, k, b, N)
    PROVE  Proper(S, l, c, N)
<1>1. \A i : i \in 1..k => i \in 1..l
    OBVIOUS
<1>. QED
    BY <1>1 DEF Proper

\* m, when p carries S.
After(m, p, S, k, b) == [stock |-> [m.stock EXCEPT ![p] = S], things |-> k, burst |-> b]

\* What every operation keeps to.
Onward(m, r, N) == Kept(r, N) /\ (m.burst => r.burst) /\ m.things <= r.things
\* What others have, and what p has of other goods, is as it was.
OthersKeep(m, r, p, g) ==
    \A q \in Trader, k \in Kind : q # p \/ k # g => Total(r.stock[q], k) = Total(m.stock[q], k)

Wider(m, k, b) == k \in Nat /\ m.things <= k /\ b \in BOOLEAN /\ (m.burst => b)
\* Nobody else has what is in S.
Unshared(m, p, S) == \A x \in S : \A q \in Trader : q # p => \A y \in m.stock[q] : y.obj # x.obj
\* m became r, in which p carries S.
Became(m, r, N, p, S, k, b) ==
    /\ Onward(m, r, N) /\ r.things = k /\ r.burst = b /\ r.stock[p] = S
    /\ \A q \in Trader : q # p => r.stock[q] = m.stock[q]

LEMMA AfterFits ==
    ASSUME NEW m, NEW N, Kept(m, N), NEW p \in Trader, NEW S, NEW k, NEW b, Wider(m, k, b),
           Proper(S, k, b, N), Unshared(m, p, S), NEW r, r = After(m, p, S, k, b)
    PROVE  Became(m, r, N, p, S, k, b)
<1> DEFINE f == [m.stock EXCEPT ![p] = S]
<1>1. m.stock \in [Trader -> SUBSET Thing] /\ m.things \in Nat /\ m.burst \in BOOLEAN
      /\ k \in Nat /\ m.things <= k /\ b \in BOOLEAN /\ (m.burst => b)
    BY DEF Kept, Mem, Wider
<1>2. r.stock = f /\ r.things = k /\ r.burst = b
    BY DEF After
<1>3. S \in SUBSET Thing
    BY DEF Proper
<1>4. f \in [Trader -> SUBSET Thing] /\ f[p] = S /\ \A q \in Trader : q # p => f[q] = m.stock[q]
    BY <1>1, <1>3
<1>5. r \in Mem
    BY <1>1, <1>4 DEF After, Mem
<1> HIDE DEF f
<1>6. N \subseteq 1..k
    <2>1. \A i : i \in 1..m.things => i \in 1..k
        BY <1>1
    <2>. QED
        BY <2>1 DEF Kept
<1>7. ASSUME NEW q \in Trader
      PROVE  Proper(f[q], k, b, N)
    <2>1. CASE q = p
        BY <1>4, <2>1
    <2>2. CASE q # p
        <3>1. Proper(m.stock[q], m.things, m.burst, N)
            BY DEF Kept
        <3>2. Proper(m.stock[q], k, b, N)
            BY <1>1, <3>1, ProperGrows
        <3>. QED
            BY <1>4, <2>2, <3>2
    <2>. QED
        BY <2>1, <2>2
<1>8. ASSUME NEW q \in Trader, NEW t \in Trader, q # t, NEW x \in f[q], NEW y \in f[t]
      PROVE  x.obj # y.obj
    <2>1. CASE q = p
        BY <1>4, <1>8, <2>1 DEF Unshared
    <2>2. CASE t = p
        BY <1>4, <1>8, <2>2 DEF Unshared
    <2>3. CASE q # p /\ t # p
        BY <1>4, <1>8, <2>3 DEF Kept
    <2>. QED
        BY <2>1, <2>2, <2>3
<1>9. Kept(r, N)
    BY <1>2, <1>5, <1>6, <1>7, <1>8 DEF Kept
<1>. QED
    BY <1>1, <1>2, <1>4, <1>9 DEF Onward, Became

LEMMA KeptIs ==
    ASSUME NEW m, NEW N, Kept(m, N), NEW p \in Trader
    PROVE  /\ m \in Mem /\ m.things \in Nat /\ m.burst \in BOOLEAN
           /\ m.stock[p] \in SUBSET Thing /\ IsFiniteSet(m.stock[p])
           /\ Proper(m.stock[p], m.things, m.burst, N)
BY DEF Kept, Mem, Proper

LEMMA TakeAs ==
    ASSUME NEW m \in Mem, NEW p \in Trader, NEW x, NEW n
    PROVE  Take(m, p, x, n) =
               After(m, p, (m.stock[p] \ {x}) \cup
                   IF x.good \in Stacks /\ x.n > n THEN {Counting(x, x.n - n)} ELSE {}, m.things, m.burst)
<1> DEFINE S == (m.stock[p] \ {x}) \cup
                   IF x.good \in Stacks /\ x.n > n THEN {Counting(x, x.n - n)} ELSE {}
<1>1. Take(m, p, x, n) = [m EXCEPT !.stock[p] = S]
    BY DEF Take, Mem
<1> HIDE DEF S
<1>2. [m EXCEPT !.stock[p] = S] = After(m, p, S, m.things, m.burst)
    BY DEF After, Mem
<1>. QED
    BY <1>1, <1>2 DEF S

\* RemoveItem: p has so much less, and an object that is gone is nowhere.
LEMMA TakeFits ==
    ASSUME NEW m, NEW N, Kept(m, N), NEW p \in Trader, NEW x \in m.stock[p], NEW n \in Int,
           n <= x.n, x.good = Blade => n = x.n, NEW r, r = Take(m, p, x, n)
    PROVE  /\ Onward(m, r, N) /\ r.things = m.things /\ r.burst = m.burst
           /\ OthersKeep(m, r, p, x.good)
           /\ Total(r.stock[p], x.good) = Total(m.stock[p], x.good) - n
           /\ x.good = Blade => \A q \in Trader : \A y \in r.stock[q] : y.obj # x.obj
<1> DEFINE S == m.stock[p]
           R == S \ {x}
           z == Counting(x, x.n - n)
           T == R \cup IF x.good \in Stacks /\ x.n > n THEN {z} ELSE {}
<1>1. /\ m \in Mem /\ m.things \in Nat /\ m.burst \in BOOLEAN /\ S \in SUBSET Thing
      /\ IsFiniteSet(S) /\ Proper(S, m.things, m.burst, N)
    BY KeptIs
<1>2. /\ x \in Thing /\ x.n \in Int /\ x.good \in Kind /\ x.obj \in 1..m.things
      /\ x.good = Gold => x.obj \notin N
    BY <1>1, ThingIs DEF Proper
<1>3. z \in Thing /\ z.obj = x.obj /\ z.good = x.good /\ z.n = x.n - n
    <2>1. x.n - n \in Int
        BY <1>2
    <2>. QED
        BY <1>2, <2>1, ThingIs
<1>4. r = After(m, p, T, m.things, m.burst)
    BY <1>1, TakeAs
<1>5. /\ Proper(R, m.things, m.burst, N) /\ R \in SUBSET Thing /\ IsFiniteSet(R)
      /\ \A y \in R : y.obj # x.obj /\ (y.good = x.good => x.good = Blade)
    <2>1. Proper(R, m.things, m.burst, N)
        BY <1>1, ProperOut
    <2>. QED
        BY <1>1, <2>1 DEF Proper
<1>6. SlotCounts(S, R, x)
    <2>1. x \in S /\ R = S \ {x}
        OBVIOUS
    <2> HIDE DEF S, R
    <2>. QED
        BY <1>1, <2>1, TotalOut
<1>7. Proper(T, m.things, m.burst, N) /\ \A y \in T : \E w \in S : w.obj = y.obj
    <2>1. CASE x.good \in Stacks /\ x.n > n
        <3>1. T = R \cup {z} /\ z.n >= 1 /\ z.good # Blade
            BY <1>2, <1>3, <2>1, KindsAre
        <3> HIDE DEF R, z, T, S
        <3>2. Proper(R \cup {z}, m.things, m.burst, N)
            BY <1>2, <1>3, <1>5, <3>1, ProperIn
        <3>. QED
            BY <1>3, <3>1, <3>2 DEF R, S
    <2>2. CASE ~(x.good \in Stacks /\ x.n > n)
        <3>1. T = R
            BY <2>2
        <3>. QED
            BY <1>5, <3>1
    <2>. QED
        BY <2>1, <2>2
<1>8. \A g : Total(T, g) = Total(S, g) - IF x.good = g THEN n ELSE 0
    <2> SUFFICES ASSUME NEW g
                 PROVE  Total(T, g) = Total(S, g) - IF x.good = g THEN n ELSE 0
        OBVIOUS
    <2>1. CASE x.good \in Stacks /\ x.n > n
        <3>1. T = R \cup {z} /\ z \notin R
            BY <1>3, <1>5, <2>1
        <3> HIDE DEF R, z, T, S
        <3>2. SlotCounts(T, R, z)
            BY <1>3, <1>5, <3>1, TotalIn
        <3>. QED
            BY <1>2, <1>3, <1>6, <3>2 DEF SlotCounts
    <2>2. CASE ~(x.good \in Stacks /\ x.n > n)
        <3>1. T = R /\ n = x.n
            BY <1>2, <2>2, KindsAre
        <3> HIDE DEF R, T, S
        <3>. QED
            BY <1>2, <1>6, <3>1 DEF SlotCounts
    <2>. QED
        BY <2>1, <2>2
<1>9. Unshared(m, p, T)
    BY <1>7 DEF Kept, Unshared
<1>10. x.good = Blade => T = R
    BY KindsAre
<1>11. \A q \in Trader : q # p => \A y \in m.stock[q] : y.obj # x.obj
    BY DEF Kept
<1>12. Total(S, x.good) \in Int
    BY <1>1, GoodsCount
<1> HIDE DEF T, S, R, z
<1>13. /\ Onward(m, r, N) /\ r.things = m.things /\ r.burst = m.burst /\ r.stock[p] = T
       /\ \A q \in Trader : q # p => r.stock[q] = m.stock[q]
    <2> DEFINE k == m.things
               b == m.burst
    <2>1. Wider(m, k, b)
        BY <1>1 DEF Wider
    <2>2. r = After(m, p, T, k, b) /\ Proper(T, k, b, N)
        BY <1>4, <1>7
    <2>3. k = m.things /\ b = m.burst
        OBVIOUS
    <2> HIDE DEF k, b
    <2>4. Became(m, r, N, p, T, k, b)
        BY <2>1, <2>2, <1>9, AfterFits
    <2>. QED
        BY <2>3, <2>4 DEF Became
<1>14. OthersKeep(m, r, p, x.good)
    <2>1. \A k : k # x.good => Total(T, k) = Total(S, k)
        <3>1. \A k : Total(S, k) \in Int
            BY <1>1, GoodsCount
        <3>. QED
            BY <1>8, <3>1
    <2>. QED
        BY <1>13, <2>1 DEF OthersKeep, S
<1>15. x.good = Blade => \A q \in Trader : \A y \in r.stock[q] : y.obj # x.obj
    BY <1>5, <1>10, <1>11, <1>13
<1>. QED
    BY <1>8, <1>12, <1>13, <1>14, <1>15 DEF S

\* From m to r, p gained so much of g, and nothing else.
Gains(m, r, N, p, g, d) ==
    Onward(m, r, N) /\ OthersKeep(m, r, p, g) /\ Total(r.stock[p], g) = Total(m.stock[p], g) + d

\* One slot more, or one for another, in what p carries.
Fresh(m, N, p, x, k) ==
    /\ x \in Thing /\ k \in Nat /\ m.things <= k /\ x.obj \in 1..k
    /\ x.good = Blade => x.n = 1
    /\ ~m.burst => x.n >= 1
    /\ x.good = Gold => x.obj \notin N
    /\ \A q \in Trader : \A y \in m.stock[q] : y.obj # x.obj
    /\ \A y \in m.stock[p] : y.good = x.good => x.good = Blade

LEMMA PutNew ==
    ASSUME NEW m, NEW N, Kept(m, N), NEW p \in Trader, NEW x, NEW k, Fresh(m, N, p, x, k),
           NEW r, r = After(m, p, m.stock[p] \cup {x}, k, m.burst), NEW g, g = x.good, NEW d, d = x.n
    PROVE  Gains(m, r, N, p, g, d) /\ r.burst = m.burst
<1> DEFINE S == m.stock[p]
           T == S \cup {x}
           b == m.burst
<1>0. /\ x \in Thing /\ x.n \in Int /\ k \in Nat /\ m.things <= k /\ x.obj \in 1..k
      /\ x.good = Blade => x.n = 1
      /\ x.good = Gold => x.obj \notin N
    BY DEF Thing, Fresh
<1>1. /\ m.things \in Nat /\ b \in BOOLEAN /\ S \in SUBSET Thing /\ IsFiniteSet(S)
      /\ Proper(S, m.things, b, N)
    BY KeptIs
<1>2. Proper(S, k, b, N)
    <2> HIDE DEF S, b
    <2>. QED
        BY <1>0, <1>1, ProperGrows
<1>3. \A y \in S : y.obj # x.obj /\ (y.good = x.good => x.good = Blade)
    BY DEF Fresh
<1>4. r = After(m, p, T, k, b) /\ S = m.stock[p] /\ T = S \cup {x} /\ b = m.burst
    OBVIOUS
<1>5. ~b => x.n >= 1
    BY DEF Fresh
<1> HIDE DEF S, b, T
<1>6. Proper(T, k, b, N) /\ x \notin S
    <2>1. Proper(S \cup {x}, k, b, N) /\ x \notin S
        BY <1>0, <1>2, <1>3, <1>5, ProperIn
    <2>. QED
        BY <1>4, <2>1
<1>7. Unshared(m, p, T)
    BY <1>4 DEF Kept, Unshared, Fresh
<1>8. Wider(m, k, b)
    BY <1>0, <1>1, <1>4 DEF Wider
<1>9. Became(m, r, N, p, T, k, b)
    BY <1>4, <1>6, <1>7, <1>8, AfterFits
<1>10. SlotCounts(T, S, x)
    BY <1>0, <1>1, <1>4, <1>6, TotalIn
<1>11. OthersKeep(m, r, p, x.good)
    <2>1. \A h : h # x.good => Total(T, h) = Total(S, h)
        BY <1>10 DEF SlotCounts
    <2>. QED
        BY <1>4, <1>9, <2>1 DEF OthersKeep, Became
<1>12. Total(T, x.good) = Total(S, x.good) + x.n
    BY <1>0, <1>10 DEF SlotCounts
<1>. QED
    BY <1>4, <1>9, <1>11, <1>12 DEF Became, Gains

LEMMA PutMore ==
    ASSUME NEW m, NEW N, Kept(m, N), NEW p \in Trader, NEW x \in m.stock[p], NEW z \in Thing,
           z.obj = x.obj, z.good = x.good, x.good # Blade, NEW b \in BOOLEAN, m.burst => b, ~b => z.n >= 1,
           NEW r, r = After(m, p, (m.stock[p] \ {x}) \cup {z}, m.things, b),
           NEW g, g = x.good, NEW d, d = z.n - x.n
    PROVE  Gains(m, r, N, p, g, d) /\ r.burst = b
<1> DEFINE S == m.stock[p]
           R == S \ {x}
           T == R \cup {z}
           k == m.things
<1>1. /\ k \in Nat /\ k <= k /\ m.burst \in BOOLEAN /\ S \in SUBSET Thing /\ IsFiniteSet(S)
      /\ Proper(S, k, m.burst, N) /\ z.n \in Int
    <2>1. z.n \in Int
        BY DEF Thing
    <2>2. k \in Nat => k <= k
        OBVIOUS
    <2>. QED
        BY <2>1, <2>2, KeptIs
<1>2. Proper(S, k, b, N)
    <2> DEFINE a == m.burst
    <2>1. Proper(S, k, a, N) /\ (a => b)
        BY <1>1
    <2> HIDE DEF S, k, a
    <2>. QED
        BY <1>1, <2>1, ProperGrows
<1>3. /\ x.n \in Int /\ x.obj \in 1..k /\ x \in S /\ (x.good = Gold => x.obj \notin N)
      /\ \A y \in S : y # x => y.obj # x.obj /\ y.good # x.good
    BY <1>1, ThingIs DEF Proper
<1>4. r = After(m, p, T, k, b) /\ S = m.stock[p] /\ T = R \cup {z} /\ R = S \ {x} /\ k = m.things
    OBVIOUS
<1> HIDE DEF S, T, R, k
<1>5. Proper(R, k, b, N) /\ R \in SUBSET Thing /\ IsFiniteSet(R)
    <2>1. Proper(S \ {x}, k, b, N)
        BY <1>2, <1>3, ProperOut
    <2>. QED
        BY <1>1, <1>4, <2>1, FS_Subset
<1>6. Proper(T, k, b, N) /\ z \notin R
    <2>1. Proper(R \cup {z}, k, b, N) /\ z \notin R
        <3>1. \A y \in R : y.obj # z.obj /\ (y.good = z.good => z.good = Blade)
            BY <1>3, <1>4
        <3>2. z.obj \in 1..k /\ (z.good = Blade => z.n = 1) /\ (z.good = Gold => z.obj \notin N)
            BY <1>3
        <3>. QED
            BY <1>5, <3>1, <3>2, ProperIn
    <2>. QED
        BY <1>4, <2>1
<1>7. Unshared(m, p, T)
    BY <1>4 DEF Kept, Unshared
<1>8. Wider(m, k, b)
    BY <1>1, <1>4 DEF Wider
<1>9. Became(m, r, N, p, T, k, b)
    BY <1>4, <1>6, <1>7, <1>8, AfterFits
<1>10. SlotCounts(S, R, x)
    BY <1>1, <1>3, <1>4, TotalOut
<1>11. SlotCounts(T, R, z)
    BY <1>4, <1>5, <1>6, TotalIn
<1>12. OthersKeep(m, r, p, x.good)
    <2>1. \A h : h # x.good => Total(T, h) = Total(S, h)
        BY <1>10, <1>11 DEF SlotCounts
    <2>. QED
        BY <1>4, <1>9, <2>1 DEF OthersKeep, Became
<1>13. Total(T, x.good) = Total(S, x.good) + (z.n - x.n)
    BY <1>1, <1>3, <1>10, <1>11 DEF SlotCounts
<1>. QED
    BY <1>4, <1>9, <1>12, <1>13 DEF Became, Gains

\* AddItemWithID: unless the count wraps, p has so much more.
LEMMA PutFits ==
    ASSUME NEW m, NEW N, Kept(m, N), NEW p \in Trader, NEW g \in Kind, NEW n \in Int,
           g = Blade => n = 1, ~m.burst => n >= 1, NEW o \in Nat,
           o = 0 \/ (/\ g = Blade /\ o \in 1..m.things
                     /\ \A q \in Trader : \A y \in m.stock[q] : y.obj # o),
           NEW r, r = Put(m, p, o, g, n)
    PROVE  /\ Onward(m, r, N) /\ OthersKeep(m, r, p, g)
           /\ ~r.burst => Total(r.stock[p], g) = Total(m.stock[p], g) + n
<1> DEFINE S == m.stock[p]
           old == {x \in S : x.good = g}
           i == IF o = 0 THEN m.things + 1 ELSE o
           k == IF o = 0 THEN m.things + 1 ELSE m.things
           new == [obj |-> i, good |-> g, n |-> n]
<1>1. /\ m \in Mem /\ m.things \in Nat /\ m.burst \in BOOLEAN /\ S \in SUBSET Thing /\ IsFiniteSet(S)
      /\ Proper(S, m.things, m.burst, N)
    BY KeptIs
<1>2. CASE g \in Stacks /\ old # {}
    <2>1. g # Blade
        BY <1>2, KindsAre
    <2>2. PICK x \in old : TRUE
        BY <1>2
    <2>3. old = {x} /\ x \in S /\ x.good = g /\ x \in Thing
        BY <1>1, <2>1, <2>2 DEF Proper
    <2>4. x.n \in Int
        BY <2>3, ThingIs
    <2> DEFINE z == Counting(x, Wrap(x.n + n))
               b == m.burst \/ x.n + n > MaxInt
    <2>5. /\ z \in Thing /\ z.obj = x.obj /\ z.good = x.good /\ z.n = Wrap(x.n + n)
        <3>1. x.n + n \in Int
            BY <2>4
        <3>2. Wrap(x.n + n) \in Int
            BY <3>1, WrapIs
        <3>. QED
            BY <2>3, <3>2, ThingIs
    <2>6. r = After(m, p, (S \ {x}) \cup {z}, m.things, b)
        <3>1. Put(m, p, o, g, n) =
                 [m EXCEPT !.stock[p] = (@ \ old) \cup {Counting(y, Wrap(y.n + n)) : y \in old},
                           !.burst = @ \/ \E y \in old : y.n + n > MaxInt]
            BY <1>2 DEF Put
        <3>2. /\ {Counting(y, Wrap(y.n + n)) : y \in old} = {z} /\ S \ old = S \ {x}
              /\ (\E y \in old : y.n + n > MaxInt) <=> x.n + n > MaxInt
            <4>1. \A y : y \in old <=> y = x
                BY <2>3
            <4> HIDE DEF old, S
            <4>2. {Counting(y, Wrap(y.n + n)) : y \in old} = {z}
                BY <4>1, Zenon
            <4>. QED
                BY <4>1, <4>2
        <3> HIDE DEF z, old
        <3>3. Put(m, p, o, g, n) = [m EXCEPT !.stock[p] = (S \ {x}) \cup {z}, !.burst = b]
            BY <3>1, <3>2, <1>1 DEF Mem
        <3>. QED
            BY <3>3, <1>1 DEF After, Mem
    <2>7. b \in BOOLEAN /\ (m.burst => b)
        BY <1>1
    <2>8. ~b => z.n = x.n + n /\ z.n >= 1
        <3>1. ~b => z.n = x.n + n
            BY <2>4, <2>5, WrapIs
        <3>2. ~m.burst => x.n >= 1
            BY <1>1, <2>3 DEF Proper
        <3>. QED
            BY <2>4, <3>1, <3>2
    <2>9. x \in m.stock[p] /\ r = After(m, p, (m.stock[p] \ {x}) \cup {z}, m.things, b)
        BY <2>3, <2>6
    <2> HIDE DEF z, b, S, old
    <2>10. \A d : d = z.n - x.n => Gains(m, r, N, p, g, d) /\ r.burst = b
        <3>1. ~b => z.n >= 1
            BY <2>8
        <3>2. x.good # Blade /\ g = x.good
            BY <2>1, <2>3
        <3>. QED
            BY <2>5, <2>7, <2>9, <3>1, <3>2, PutMore
    <2>11. ~b => z.n - x.n = n
        BY <2>4, <2>8
    <2>. QED
        BY <2>10, <2>11 DEF Gains
<1>3. CASE ~(g \in Stacks /\ old # {})
    <2>1. new \in Thing /\ new.obj = i /\ new.good = g /\ new.n = n /\ k \in Nat /\ m.things <= k
        <3>1. i \in Nat /\ k \in Nat /\ m.things <= k
            BY <1>1
        <3> HIDE DEF i
        <3>. QED
            BY <3>1, NewThing
    <2>2. r = After(m, p, S \cup {new}, k, m.burst)
        <3>1. Put(m, p, o, g, n) =
                 [m EXCEPT !.stock[p] = @ \cup {new}, !.things = IF o = 0 THEN @ + 1 ELSE @]
            BY <1>3 DEF Put
        <3> HIDE DEF new
        <3>2. Put(m, p, o, g, n) = [m EXCEPT !.stock[p] = S \cup {new}, !.things = k]
            BY <3>1, <1>1 DEF Mem
        <3> HIDE DEF k
        <3>. QED
            BY <3>2, <1>1 DEF After, Mem
    <2>3. i \in 1..k /\ (g = Gold => i \notin N)
        <3>1. o # 0 => g = Blade /\ i \in 1..m.things
            OBVIOUS
        <3>2. N \subseteq 1..m.things
            BY DEF Kept
        <3>3. o = 0 => i = m.things + 1 /\ k = m.things + 1
            OBVIOUS
        <3>4. o # 0 => k = m.things
            OBVIOUS
        <3> HIDE DEF i, k
        <3>. QED
            BY <1>1, <3>1, <3>2, <3>3, <3>4, KindsAre
    <2>4. \A q \in Trader : \A y \in m.stock[q] : y.obj # i
        <3> SUFFICES ASSUME NEW q \in Trader, NEW y \in m.stock[q], y.obj = i PROVE FALSE
            OBVIOUS
        <3>1. y.obj \in 1..m.things
            BY KeptIs DEF Proper
        <3>. QED
            BY <1>1, <3>1
    <2>5. \A y \in S : y.good = g => g = Blade
        BY <1>3, KindsAre
    <2>6. r = After(m, p, m.stock[p] \cup {new}, k, m.burst) /\ \A y \in m.stock[p] : y.good = new.good => new.good = Blade
        BY <2>1, <2>2, <2>5
    <2>7. \A q \in Trader : \A y \in m.stock[q] : y.obj # new.obj
        BY <2>1, <2>4
    <2>8. /\ new.obj \in 1..k
          /\ new.good = Blade => new.n = 1
          /\ ~m.burst => new.n >= 1
          /\ new.good = Gold => new.obj \notin N
        BY <2>1, <2>3
    <2> HIDE DEF new, k, i, S, old
    <2>9. Fresh(m, N, p, new, k)
        BY <2>1, <2>6, <2>7, <2>8 DEF Fresh
    <2>10. Gains(m, r, N, p, g, n)
        BY <2>1, <2>6, <2>9, PutNew
    <2>. QED
        BY <2>10 DEF Gains
<1>. QED
    BY <1>2, <1>3

-----------------------------------------------------------------------------
(* Goods change hands.                                                       *)

LEMMA SupplyMoves ==
    ASSUME NEW m, NEW N, Kept(m, N), NEW r, Kept(r, N), NEW p \in Trader, NEW g \in Kind, NEW d \in Int,
           OthersKeep(m, r, p, g), Total(r.stock[p], g) = Total(m.stock[p], g) + d
    PROVE  \A k \in Kind : /\ SupplyOf(m.stock, k) \in Int /\ SupplyOf(r.stock, k) \in Int
                           /\ SupplyOf(r.stock, k) = SupplyOf(m.stock, k) + IF k = g THEN d ELSE 0
<1> SUFFICES ASSUME NEW k \in Kind
             PROVE  /\ SupplyOf(m.stock, k) \in Int /\ SupplyOf(r.stock, k) \in Int
                    /\ SupplyOf(r.stock, k) = SupplyOf(m.stock, k) + IF k = g THEN d ELSE 0
    OBVIOUS
<1> DEFINE f == [q \in Trader |-> Total(m.stock[q], k)]
           h == [q \in Trader |-> Total(r.stock[q], k)]
<1>1. IsFiniteSet(Trader)
    BY ShopAssumption
<1>2. \A q \in Trader : f[q] \in Int /\ h[q] \in Int
    <2> SUFFICES ASSUME NEW q \in Trader
                 PROVE  Total(m.stock[q], k) \in Int /\ Total(r.stock[q], k) \in Int
        OBVIOUS
    <2> DEFINE A == m.stock[q]
               B == r.stock[q]
    <2>1. A \in SUBSET Thing /\ IsFiniteSet(A) /\ B \in SUBSET Thing /\ IsFiniteSet(B)
        BY KeptIs
    <2> HIDE DEF A, B
    <2>2. Total(A, k) \in Int /\ Total(B, k) \in Int
        BY <2>1, GoodsCount
    <2>. QED
        BY <2>2 DEF A, B
<1>3. \A q \in Trader : q # p => h[q] = f[q]
    BY DEF OthersKeep
<1>4. h[p] = f[p] + IF k = g THEN d ELSE 0
    <2>1. k # g => h[p] = f[p]
        BY DEF OthersKeep
    <2>. QED
        BY <1>2, <2>1
<1>5. SupplyOf(m.stock, k) = SumFunctionOnSet(f, Trader) /\ SupplyOf(r.stock, k) = SumFunctionOnSet(h, Trader)
    BY DEF SupplyOf
<1> HIDE DEF f, h
<1>6. /\ SumFunctionOnSet(f, Trader) \in Int /\ SumFunctionOnSet(h, Trader) \in Int
      /\ SumFunctionOnSet(h, Trader) = SumFunctionOnSet(f, Trader) + (h[p] - f[p])
    BY <1>1, <1>2, <1>3, SumMoves
<1>. QED
    BY <1>2, <1>4, <1>5, <1>6

\* Unless a count has wrapped, there is as much of everything; and gold is where it was.
Preserves(m, r) == ~r.burst => \A k \in Kind : SupplyOf(r.stock, k) = SupplyOf(m.stock, k)
GoldStays(m, r) == \A q \in Trader : GetAdena(r.stock[q]) = GetAdena(m.stock[q])

LEMMA OnwardTrans ==
    ASSUME NEW l, NEW m, NEW r, NEW N, Kept(l, N), Onward(l, m, N), Onward(m, r, N)
    PROVE  Onward(l, r, N)
BY DEF Onward, Kept, Mem

\* TransferItem.
LEMMA TransferItemFits ==
    ASSUME NEW m, NEW N, Kept(m, N), NEW from \in Trader, NEW to \in Trader, NEW x \in m.stock[from],
           NEW n \in Int, n <= x.n, x.good = Blade => n = x.n, ~m.burst => n >= 1,
           NEW r, r = TransferItem(m, from, to, x, n)
    PROVE  Onward(m, r, N) /\ Preserves(m, r) /\ (x.good # Gold => GoldStays(m, r))
<1> DEFINE t == Take(m, from, x, n)
           g == x.good
           o == IF g = Blade THEN x.obj ELSE 0
<1>1. /\ Onward(m, t, N) /\ t.things = m.things /\ t.burst = m.burst
      /\ OthersKeep(m, t, from, x.good)
      /\ Total(t.stock[from], x.good) = Total(m.stock[from], x.good) - n
      /\ x.good = Blade => \A q \in Trader : \A y \in t.stock[q] : y.obj # x.obj
    <2> HIDE DEF t
    <2>1. t = Take(m, from, x, n)
        BY DEF t
    <2>. QED
        BY <2>1, TakeFits
<1>2. /\ x \in Thing /\ x.good \in Kind /\ x.obj \in 1..m.things /\ x.obj \in Nat
      /\ x.good = Blade => x.n = 1
    BY KeptIs, ThingIs DEF Proper
<1>3. r = Put(t, to, o, g, n)
    BY DEF TransferItem
<1>4. o \in Nat /\ g \in Kind /\ (g = Blade => n = 1) /\ (~t.burst => n >= 1)
    BY <1>1, <1>2
<1>5. o = 0 \/ (/\ g = Blade /\ o \in 1..t.things
                /\ \A q \in Trader : \A y \in t.stock[q] : y.obj # o)
    BY <1>1, <1>2
<1>6. Kept(t, N)
    BY <1>1 DEF Onward
<1>7. OthersKeep(m, t, from, g) /\ Total(t.stock[from], g) = Total(m.stock[from], g) + (-n)
    <2>1. \A i \in Int : i - n = i + (-n)
        OBVIOUS
    <2>2. m.stock[from] \in SUBSET Thing /\ IsFiniteSet(m.stock[from])
        BY KeptIs
    <2>3. Total(m.stock[from], x.good) \in Int
        BY <2>2, GoodsCount
    <2>. QED
        BY <1>1, <2>1, <2>3
<1>a. Onward(m, t, N) /\ g = x.good
    BY <1>1
<1> HIDE DEF t, o, g
<1>8. /\ Onward(t, r, N) /\ OthersKeep(t, r, to, g)
      /\ ~r.burst => Total(r.stock[to], g) = Total(t.stock[to], g) + n
    BY <1>3, <1>4, <1>5, <1>6, PutFits
<1>9. Onward(m, r, N)
    BY <1>a, <1>8, OnwardTrans
<1>10. Preserves(m, r)
    <2> SUFFICES ASSUME ~r.burst, NEW k \in Kind
                 PROVE  SupplyOf(r.stock, k) = SupplyOf(m.stock, k)
        BY DEF Preserves
    <2>1. -n \in Int /\ Kept(r, N)
        BY <1>9 DEF Onward
    <2>2. /\ SupplyOf(m.stock, k) \in Int /\ SupplyOf(t.stock, k) \in Int
          /\ SupplyOf(t.stock, k) = SupplyOf(m.stock, k) + IF k = g THEN -n ELSE 0
        BY <1>4, <1>6, <1>7, <2>1, SupplyMoves
    <2>3. SupplyOf(r.stock, k) = SupplyOf(t.stock, k) + IF k = g THEN n ELSE 0
        BY <1>4, <1>6, <1>8, <2>1, SupplyMoves
    <2>. QED
        BY <2>2, <2>3
<1>11. g # Gold => GoldStays(m, r)
    BY <1>7, <1>8, KindsAre DEF OthersKeep, GoldStays, GetAdena
<1>. QED
    BY <1>a, <1>9, <1>10, <1>11

LEMMA PurseIs ==
    ASSUME NEW m, NEW N, Kept(m, N), NEW p \in Trader
    PROVE  /\ GetAdena(m.stock[p]) \in Int
           /\ Purse(m.stock[p]) = {} => GetAdena(m.stock[p]) = 0
           /\ \A x \in Purse(m.stock[p]) :
                 x \in m.stock[p] /\ x.good = Gold /\ x.n = GetAdena(m.stock[p])
<1> DEFINE S == m.stock[p]
<1>1. S \in SUBSET Thing /\ IsFiniteSet(S) /\ Proper(S, m.things, m.burst, N)
    BY KeptIs
<1> HIDE DEF S
<1>2. GetAdena(S) \in Int
    BY <1>1, GoodsCount DEF GetAdena
<1>3. \A R : R \subseteq S /\ (\A y \in R : y.good # Gold) => Total(R, Gold) = 0
    <2> SUFFICES ASSUME NEW R, R \subseteq S, \A y \in R : y.good # Gold
                 PROVE  Total(R, Gold) = 0
        OBVIOUS
    <2>1. {y \in R : y.good = Gold} = {}
        OBVIOUS
    <2>2. Total(R, Gold) = SumFunctionOnSet([y \in R |-> y.n], {})
        BY <2>1 DEF Total
    <2>. QED
        BY <2>2, SumEmpty
<1>4. Purse(S) = {} => GetAdena(S) = 0
    BY <1>3 DEF Purse, GetAdena
<1>5. ASSUME NEW x \in Purse(S)
      PROVE  x \in S /\ x.good = Gold /\ x.n = GetAdena(S)
    <2>1. x \in S /\ x.good = Gold /\ x.n \in Int
        BY <1>1, ThingIs DEF Purse
    <2> DEFINE R == S \ {x}
    <2>2. Total(R, Gold) = 0
        <3>1. \A y \in R : y.good # Gold
            BY <1>1, <2>1, KindsAre DEF Proper
        <3>. QED
            BY <1>3, <3>1
    <2>3. R = S \ {x}
        OBVIOUS
    <2> HIDE DEF R
    <2>4. SlotCounts(S, R, x)
        BY <1>1, <2>1, <2>3, TotalOut
    <2>. QED
        BY <2>1, <2>2, <2>4 DEF SlotCounts, GetAdena
<1>. QED
    BY <1>2, <1>4, <1>5 DEF S

\* Who has as much pays it.
LEMMA PayFits ==
    ASSUME NEW m, NEW N, Kept(m, N), NEW p \in Trader, NEW n \in Nat, GetAdena(m.stock[p]) >= n,
           NEW r, r = Pay(m, p, n)
    PROVE  /\ Onward(m, r, N) /\ r.burst = m.burst /\ OthersKeep(m, r, p, Gold)
           /\ GetAdena(r.stock[p]) = GetAdena(m.stock[p]) - n
<1>1. CASE Purse(m.stock[p]) = {}
    <2>1. GetAdena(m.stock[p]) = 0
        BY <1>1, PurseIs
    <2>2. r = m /\ n = 0
        BY <1>1, <2>1 DEF Pay
    <2>3. Onward(m, m, N)
        BY DEF Onward, Kept, Mem
    <2>. QED
        BY <2>1, <2>2, <2>3 DEF OthersKeep
<1>2. CASE Purse(m.stock[p]) # {}
    <2> DEFINE x == CHOOSE x \in Purse(m.stock[p]) : TRUE
    <2>1. x \in Purse(m.stock[p])
        BY <1>2
    <2>2. r = Take(m, p, x, n)
        BY <1>2 DEF Pay
    <2> HIDE DEF x
    <2>3. x \in m.stock[p] /\ x.good = Gold /\ x.n = GetAdena(m.stock[p])
        BY <2>1, PurseIs
    <2>4. n \in Int /\ n <= x.n /\ (x.good = Blade => n = x.n)
        BY <2>3, KindsAre
    <2>5. /\ Onward(m, r, N) /\ r.things = m.things /\ r.burst = m.burst
          /\ OthersKeep(m, r, p, x.good)
          /\ Total(r.stock[p], x.good) = Total(m.stock[p], x.good) - n
        BY <2>2, <2>3, <2>4, TakeFits
    <2>. QED
        BY <2>3, <2>5 DEF GetAdena
<1>. QED
    BY <1>1, <1>2

\* TransferGold, of a price that can be paid.
LEMMA TransferGoldFits ==
    ASSUME NEW m, NEW N, Kept(m, N), NEW from \in Trader, NEW to \in Trader, NEW n \in Nat, n >= 1,
           GetAdena(m.stock[from]) >= n, NEW r, r = TransferGold(m, from, to, n)
    PROVE  /\ Onward(m, r, N) /\ Preserves(m, r)
           /\ from # to /\ ~r.burst =>
                 /\ GetAdena(r.stock[to]) = GetAdena(m.stock[to]) + n
                 /\ GetAdena(r.stock[from]) = GetAdena(m.stock[from]) - n
<1> DEFINE t == Pay(m, from, n)
           o == 0
<1>1. Purse(m.stock[from]) # {}
    BY PurseIs
<1>2. r = Put(t, to, o, Gold, n)
    BY <1>1 DEF TransferGold
<1>3. t = Pay(m, from, n) /\ o \in Nat /\ o = 0 /\ n \in Int /\ -n \in Int /\ Gold \in Kind /\ (Gold = Blade => n = 1)
    BY KindsAre
<1> HIDE DEF t, o
<1>4. /\ Onward(m, t, N) /\ t.burst = m.burst /\ OthersKeep(m, t, from, Gold)
      /\ GetAdena(t.stock[from]) = GetAdena(m.stock[from]) - n
    BY <1>3, PayFits
<1>5. Kept(t, N)
    BY <1>4 DEF Onward
<1>6. /\ Onward(t, r, N) /\ OthersKeep(t, r, to, Gold)
      /\ ~r.burst => Total(r.stock[to], Gold) = Total(t.stock[to], Gold) + n
    BY <1>2, <1>3, <1>5, PutFits
<1>7. Onward(m, r, N) /\ Kept(r, N)
    BY <1>4, <1>6, OnwardTrans DEF Onward
<1>8. Preserves(m, r)
    <2> SUFFICES ASSUME ~r.burst, NEW k \in Kind
                 PROVE  SupplyOf(r.stock, k) = SupplyOf(m.stock, k)
        BY DEF Preserves
    <2>1. Total(t.stock[from], Gold) = Total(m.stock[from], Gold) + (-n)
        <3>1. GetAdena(m.stock[from]) \in Int
            BY PurseIs
        <3>. QED
            BY <1>4, <3>1 DEF GetAdena
    <2>2. /\ SupplyOf(m.stock, k) \in Int /\ SupplyOf(t.stock, k) \in Int
          /\ SupplyOf(t.stock, k) = SupplyOf(m.stock, k) + IF k = Gold THEN -n ELSE 0
        BY <1>3, <1>4, <1>5, <2>1, SupplyMoves
    <2>3. SupplyOf(r.stock, k) = SupplyOf(t.stock, k) + IF k = Gold THEN n ELSE 0
        BY <1>3, <1>5, <1>6, <1>7, SupplyMoves
    <2>. QED
        BY <2>2, <2>3
<1>9. ASSUME from # to, ~r.burst
      PROVE  /\ GetAdena(r.stock[to]) = GetAdena(m.stock[to]) + n
             /\ GetAdena(r.stock[from]) = GetAdena(m.stock[from]) - n
    BY <1>3, <1>4, <1>6, <1>9 DEF OthersKeep, GetAdena
<1>. QED
    BY <1>7, <1>8, <1>9

-----------------------------------------------------------------------------
(* Loops: folds over the orders of a packet.                                 *)

LEMMA GreatestNumber ==
    ASSUME NEW S \in SUBSET Nat, S # {}, NEW b \in Nat, \A x \in S : x <= b
    PROVE  Max(S) \in S /\ \A y \in S : Max(S) >= y
<1> DEFINE B == {b - x : x \in S}
<1>1. B \in SUBSET Nat /\ B # {}
    <2>1. \A x \in S : b - x \in Nat
        OBVIOUS
    <2>2. \E x : x \in S
        OBVIOUS
    <2>. QED
        BY <2>1, <2>2
<1>2. PICK u \in B : \A y \in B : u <= y
    <2> HIDE DEF B
    <2>. QED
        BY <1>1, LeastNumber
<1>3. PICK x \in S : u = b - x
    OBVIOUS
<1>4. \A y \in S : x >= y
    <2> SUFFICES ASSUME NEW y \in S PROVE x >= y
        OBVIOUS
    <2>1. b - x <= b - y /\ x \in Nat /\ y \in Nat
        BY <1>2, <1>3
    <2>. QED
        BY <2>1
<1>. QED
    BY <1>4 DEF Max

LEMMA MaxIn ==
    ASSUME NEW n \in Nat, NEW s \in SUBSET (1..n), s # {}
    PROVE  Max(s) \in s /\ Max(s) \in 1..n
<1>1. s \in SUBSET Nat /\ \A x \in s : x <= n
    OBVIOUS
<1>. QED
    BY <1>1, GreatestNumber

\* What the turns of a loop do: f[i][v] is what the i-th makes of v, which stays in V.
Stays(f, V, n) == \A i \in 1..n : \A v \in V : f[i][v] \in V
\* The function FoldLeft computes with.
Turns(h, base, f, n) ==
    h = [s \in SUBSET (1..n) |-> IF s = {} THEN base ELSE f[Max(s)][h[s \ {Max(s)}]]]
\* The same, as far as it stays in V.
TurnsWithin(h, base, f, V, n) ==
    /\ h[{}] = base
    /\ \A s \in SUBSET (1..n) : s # {} /\ h[s \ {Max(s)}] \in V => h[s] = f[Max(s)][h[s \ {Max(s)}]]

LEMMA LoopStays ==
    ASSUME NEW n \in Nat, NEW V, NEW base \in V, NEW f, Stays(f, V, n)
    PROVE  /\ \E h : Turns(h, base, f, n) /\ \A s \in SUBSET (1..n) : h[s] \in V
           /\ \A h : TurnsWithin(h, base, f, V, n) => h[1..n] \in V
<1> DEFINE D == 1..n
           choose == [s \in SUBSET D |-> Max(s)]
           g == [s \in SUBSET D |-> f[Max(s)]]
           Q == [s \in SUBSET D |-> V]
<1>1. IsFiniteSet(D) /\ base \in Q[{}] /\ (\A s \in SUBSET D : Q[s] = V)
    BY FS_Interval
<1>2. Leads(g, choose, Q, D)
    <2>1. ASSUME NEW s \in SUBSET D, s # {}
          PROVE  choose[s] \in s /\ \A v \in Q[s \ {choose[s]}] : g[s][v] \in Q[s]
        <3>1. Max(s) \in s /\ Max(s) \in 1..n
            BY <2>1, MaxIn
        <3>2. s \ {choose[s]} \in SUBSET D
            OBVIOUS
        <3>3. Q[s \ {choose[s]}] = V /\ Q[s] = V /\ choose[s] = Max(s) /\ g[s] = f[Max(s)]
            BY <3>2
        <3>. QED
            BY <3>1, <3>3 DEF Stays
    <2> HIDE DEF g, choose, Q, D
    <2>. QED
        BY <2>1 DEF Leads
<1>3. /\ \A s \in SUBSET D : choose[s] = Max(s) /\ g[s] = f[Max(s)]
      /\ D \in SUBSET D
    OBVIOUS
<1>4. D = 1..n
    OBVIOUS
<1> HIDE DEF g, choose, Q, D
<1>5. PICK h : FoldsUp(h, base, g, choose, D) /\ \A s \in SUBSET D : h[s] \in Q[s]
    BY <1>1, <1>2, FoldFits
<1>6. Turns(h, base, f, n)
    BY <1>3, <1>4, <1>5 DEF FoldsUp, Turns
<1>7. ASSUME NEW k, TurnsWithin(k, base, f, V, n)
      PROVE  k[1..n] \in V
    <2>1. k[{}] = base /\ KeepsTo(k, g, choose, Q, D)
        <3>1. \A s \in SUBSET D : s \ {choose[s]} \in SUBSET D
            OBVIOUS
        <3>. QED
            BY <1>1, <1>3, <1>4, <1>7, <3>1 DEF TurnsWithin, KeepsTo
    <2>2. \A s \in SUBSET D : k[s] \in Q[s]
        BY <1>1, <1>2, <2>1, FoldKeeps
    <2>. QED
        BY <1>1, <1>3, <1>4, <2>2
<1>. QED
    BY <1>1, <1>4, <1>5, <1>6, <1>7

\* The loop of ExecuteBuy.
SoldAll(buyer, seller, base, q) == FoldLeft(LAMBDA t, o : SellOne(buyer, seller, t, o), base, q)

LEMMA SellOneLoop ==
    ASSUME NEW buyer, NEW seller, NEW n \in Nat, NEW q, DOMAIN q = 1..n, NEW V, NEW base \in V,
           \A i \in 1..n : \A v \in V : SellOne(buyer, seller, v, q[i]) \in V
    PROVE  SoldAll(buyer, seller, base, q) \in V
<1> DEFINE f == [i \in 1..n |-> [v \in V |-> SellOne(buyer, seller, v, q[i])]]
           Down(k) == k = [s \in SUBSET DOMAIN q |->
                             IF s = {} THEN base ELSE SellOne(buyer, seller, k[s \ {Max(s)}], q[Max(s)])]
           h == CHOOSE k : Down(k)
<1>1. SoldAll(buyer, seller, base, q) = h[1..n]
    BY DEF SoldAll, FoldLeft, MapThenFoldSet
<1>2. \A i \in 1..n : \A v \in V : f[i][v] = SellOne(buyer, seller, v, q[i])
    OBVIOUS
<1>3. Stays(f, V, n)
    BY DEF Stays
<1> HIDE DEF f
<1>4. PICK k : Turns(k, base, f, n) /\ \A s \in SUBSET (1..n) : k[s] \in V
    BY <1>3, LoopStays
<1>5. Down(k)
    <2>1. ASSUME NEW s \in SUBSET (1..n), s # {}
          PROVE  f[Max(s)][k[s \ {Max(s)}]] = SellOne(buyer, seller, k[s \ {Max(s)}], q[Max(s)])
        <3>1. Max(s) \in 1..n /\ k[s \ {Max(s)}] \in V
            BY <1>4, <2>1, MaxIn
        <3>. QED
            BY <1>2, <3>1
    <2>. QED
        BY <1>4, <2>1 DEF Turns
<1>6. Down(h)
    <2> HIDE DEF Down
    <2>. QED
        BY <1>5
<1>7. TurnsWithin(h, base, f, V, n)
    <2> HIDE DEF h
    <2>1. \A s \in SUBSET (1..n) :
             h[s] = IF s = {} THEN base ELSE SellOne(buyer, seller, h[s \ {Max(s)}], q[Max(s)])
        BY <1>6
    <2>2. \A s \in SUBSET (1..n) : s # {} => Max(s) \in 1..n
        BY MaxIn
    <2> HIDE DEF Down
    <2>. QED
        BY <1>2, <2>1, <2>2 DEF TurnsWithin
<1> HIDE DEF h
<1>8. h[1..n] \in V
    BY <1>3, <1>7, LoopStays
<1>. QED
    BY <1>1, <1>8

\* The loop of ExecuteSell.
BoughtAll(seller, buyer, base, q) == FoldLeft(LAMBDA t, o : BuyOne(seller, buyer, t, o), base, q)

LEMMA BuyOneLoop ==
    ASSUME NEW seller, NEW buyer, NEW n \in Nat, NEW q, DOMAIN q = 1..n, NEW V, NEW base \in V,
           \A i \in 1..n : \A v \in V : BuyOne(seller, buyer, v, q[i]) \in V
    PROVE  BoughtAll(seller, buyer, base, q) \in V
<1> DEFINE f == [i \in 1..n |-> [v \in V |-> BuyOne(seller, buyer, v, q[i])]]
           Down(k) == k = [s \in SUBSET DOMAIN q |->
                             IF s = {} THEN base ELSE BuyOne(seller, buyer, k[s \ {Max(s)}], q[Max(s)])]
           h == CHOOSE k : Down(k)
<1>1. BoughtAll(seller, buyer, base, q) = h[1..n]
    BY DEF BoughtAll, FoldLeft, MapThenFoldSet
<1>2. \A i \in 1..n : \A v \in V : f[i][v] = BuyOne(seller, buyer, v, q[i])
    OBVIOUS
<1>3. Stays(f, V, n)
    BY DEF Stays
<1> HIDE DEF f
<1>4. PICK k : Turns(k, base, f, n) /\ \A s \in SUBSET (1..n) : k[s] \in V
    BY <1>3, LoopStays
<1>5. Down(k)
    <2>1. ASSUME NEW s \in SUBSET (1..n), s # {}
          PROVE  f[Max(s)][k[s \ {Max(s)}]] = BuyOne(seller, buyer, k[s \ {Max(s)}], q[Max(s)])
        <3>1. Max(s) \in 1..n /\ k[s \ {Max(s)}] \in V
            BY <1>4, <2>1, MaxIn
        <3>. QED
            BY <1>2, <3>1
    <2>. QED
        BY <1>4, <2>1 DEF Turns
<1>6. Down(h)
    <2> HIDE DEF Down
    <2>. QED
        BY <1>5
<1>7. TurnsWithin(h, base, f, V, n)
    <2> HIDE DEF h
    <2>1. \A s \in SUBSET (1..n) :
             h[s] = IF s = {} THEN base ELSE BuyOne(seller, buyer, h[s \ {Max(s)}], q[Max(s)])
        BY <1>6
    <2>2. \A s \in SUBSET (1..n) : s # {} => Max(s) \in 1..n
        BY MaxIn
    <2> HIDE DEF Down
    <2>. QED
        BY <1>2, <2>1, <2>2 DEF TurnsWithin
<1> HIDE DEF h
<1>8. h[1..n] \in V
    BY <1>3, <1>7, LoopStays
<1>. QED
    BY <1>1, <1>8

\* The loop of BuyFromNpc.
HandedAll(p, base, q) == FoldLeft(LAMBDA t, o : Hand(p, t, o), base, q)

LEMMA HandLoop ==
    ASSUME NEW p, NEW n \in Nat, NEW q, DOMAIN q = 1..n, NEW V, NEW base \in V,
           \A i \in 1..n : \A v \in V : Hand(p, v, q[i]) \in V
    PROVE  HandedAll(p, base, q) \in V
<1> DEFINE f == [i \in 1..n |-> [v \in V |-> Hand(p, v, q[i])]]
           Down(k) == k = [s \in SUBSET DOMAIN q |->
                             IF s = {} THEN base ELSE Hand(p, k[s \ {Max(s)}], q[Max(s)])]
           h == CHOOSE k : Down(k)
<1>1. HandedAll(p, base, q) = h[1..n]
    BY DEF HandedAll, FoldLeft, MapThenFoldSet
<1>2. \A i \in 1..n : \A v \in V : f[i][v] = Hand(p, v, q[i])
    OBVIOUS
<1>3. Stays(f, V, n)
    BY DEF Stays
<1> HIDE DEF f
<1>4. PICK k : Turns(k, base, f, n) /\ \A s \in SUBSET (1..n) : k[s] \in V
    BY <1>3, LoopStays
<1>5. Down(k)
    <2>1. ASSUME NEW s \in SUBSET (1..n), s # {}
          PROVE  f[Max(s)][k[s \ {Max(s)}]] = Hand(p, k[s \ {Max(s)}], q[Max(s)])
        <3>1. Max(s) \in 1..n /\ k[s \ {Max(s)}] \in V
            BY <1>4, <2>1, MaxIn
        <3>. QED
            BY <1>2, <3>1
    <2>. QED
        BY <1>4, <2>1 DEF Turns
<1>6. Down(h)
    <2> HIDE DEF Down
    <2>. QED
        BY <1>5
<1>7. TurnsWithin(h, base, f, V, n)
    <2> HIDE DEF h
    <2>1. \A s \in SUBSET (1..n) :
             h[s] = IF s = {} THEN base ELSE Hand(p, h[s \ {Max(s)}], q[Max(s)])
        BY <1>6
    <2>2. \A s \in SUBSET (1..n) : s # {} => Max(s) \in 1..n
        BY MaxIn
    <2> HIDE DEF Down
    <2>. QED
        BY <1>2, <2>1, <2>2 DEF TurnsWithin
<1> HIDE DEF h
<1>8. h[1..n] \in V
    BY <1>3, <1>7, LoopStays
<1>. QED
    BY <1>1, <1>8

\* The loop of SellToNpc.
TakenAll(p, base, q) == FoldLeft(LAMBDA t, o : TakeOne(p, t, o), base, q)

LEMMA TakeOneLoop ==
    ASSUME NEW p, NEW n \in Nat, NEW q, DOMAIN q = 1..n, NEW V, NEW base \in V,
           \A i \in 1..n : \A v \in V : TakeOne(p, v, q[i]) \in V
    PROVE  TakenAll(p, base, q) \in V
<1> DEFINE f == [i \in 1..n |-> [v \in V |-> TakeOne(p, v, q[i])]]
           Down(k) == k = [s \in SUBSET DOMAIN q |->
                             IF s = {} THEN base ELSE TakeOne(p, k[s \ {Max(s)}], q[Max(s)])]
           h == CHOOSE k : Down(k)
<1>1. TakenAll(p, base, q) = h[1..n]
    BY DEF TakenAll, FoldLeft, MapThenFoldSet
<1>2. \A i \in 1..n : \A v \in V : f[i][v] = TakeOne(p, v, q[i])
    OBVIOUS
<1>3. Stays(f, V, n)
    BY DEF Stays
<1> HIDE DEF f
<1>4. PICK k : Turns(k, base, f, n) /\ \A s \in SUBSET (1..n) : k[s] \in V
    BY <1>3, LoopStays
<1>5. Down(k)
    <2>1. ASSUME NEW s \in SUBSET (1..n), s # {}
          PROVE  f[Max(s)][k[s \ {Max(s)}]] = TakeOne(p, k[s \ {Max(s)}], q[Max(s)])
        <3>1. Max(s) \in 1..n /\ k[s \ {Max(s)}] \in V
            BY <1>4, <2>1, MaxIn
        <3>. QED
            BY <1>2, <3>1
    <2>. QED
        BY <1>4, <2>1 DEF Turns
<1>6. Down(h)
    <2> HIDE DEF Down
    <2>. QED
        BY <1>5
<1>7. TurnsWithin(h, base, f, V, n)
    <2> HIDE DEF h
    <2>1. \A s \in SUBSET (1..n) :
             h[s] = IF s = {} THEN base ELSE TakeOne(p, h[s \ {Max(s)}], q[Max(s)])
        BY <1>6
    <2>2. \A s \in SUBSET (1..n) : s # {} => Max(s) \in 1..n
        BY MaxIn
    <2> HIDE DEF Down
    <2>. QED
        BY <1>2, <2>1, <2>2 DEF TurnsWithin
<1> HIDE DEF h
<1>8. h[1..n] \in V
    BY <1>3, <1>7, LoopStays
<1>. QED
    BY <1>1, <1>8

\* The loop of GiveItem.
Placed(p, g, base, q) == FoldLeft(LAMBDA r, i : Put(r, p, 0, g, 1), base, q)

LEMMA PutLoop ==
    ASSUME NEW p, NEW g, NEW n \in Nat, NEW q, DOMAIN q = 1..n, NEW V, NEW base \in V,
           \A v \in V : Put(v, p, 0, g, 1) \in V
    PROVE  Placed(p, g, base, q) \in V
<1> DEFINE f == [i \in 1..n |-> [v \in V |-> Put(v, p, 0, g, 1)]]
           Down(k) == k = [s \in SUBSET DOMAIN q |->
                             IF s = {} THEN base ELSE Put(k[s \ {Max(s)}], p, 0, g, 1)]
           h == CHOOSE k : Down(k)
<1>1. Placed(p, g, base, q) = h[1..n]
    BY DEF Placed, FoldLeft, MapThenFoldSet
<1>2. \A i \in 1..n : \A v \in V : f[i][v] = Put(v, p, 0, g, 1)
    OBVIOUS
<1>3. Stays(f, V, n)
    BY DEF Stays
<1> HIDE DEF f
<1>4. PICK k : Turns(k, base, f, n) /\ \A s \in SUBSET (1..n) : k[s] \in V
    BY <1>3, LoopStays
<1>5. Down(k)
    <2>1. ASSUME NEW s \in SUBSET (1..n), s # {}
          PROVE  f[Max(s)][k[s \ {Max(s)}]] = Put(k[s \ {Max(s)}], p, 0, g, 1)
        <3>1. Max(s) \in 1..n /\ k[s \ {Max(s)}] \in V
            BY <1>4, <2>1, MaxIn
        <3>. QED
            BY <1>2, <3>1
    <2>. QED
        BY <1>4, <2>1 DEF Turns
<1>6. Down(h)
    <2> HIDE DEF Down
    <2>. QED
        BY <1>5
<1>7. TurnsWithin(h, base, f, V, n)
    <2> HIDE DEF h
    <2>1. \A s \in SUBSET (1..n) :
             h[s] = IF s = {} THEN base ELSE Put(h[s \ {Max(s)}], p, 0, g, 1)
        BY <1>6
    <2>2. \A s \in SUBSET (1..n) : s # {} => Max(s) \in 1..n
        BY MaxIn
    <2> HIDE DEF Down
    <2>. QED
        BY <1>2, <2>1, <2>2 DEF TurnsWithin
<1> HIDE DEF h
<1>8. h[1..n] \in V
    BY <1>3, <1>7, LoopStays
<1>. QED
    BY <1>1, <1>8

-----------------------------------------------------------------------------
(* Lists, and what they brought.                                             *)

SellEntry(N) == [obj : N, price : Nat \ {0}, total : Nat, done : Nat]
BuyEntry == [good : Kind \ {Gold}, price : Nat \ {0}, total : Nat, done : Nat]

\* What is known of the entries of both kinds.
Entrance(E) ==
    \A e \in E : /\ e.price \in Nat \ {0} /\ e.total \in Nat /\ e.done \in Nat
                 /\ \A d \in Nat : /\ [e EXCEPT !.done = d] \in E
                                   /\ [e EXCEPT !.done = d].price = e.price
                                   /\ [e EXCEPT !.done = d].total = e.total
                                   /\ [e EXCEPT !.done = d].done = d

LEMMA EntriesAre == Entrance(BuyEntry) /\ \A N : Entrance(SellEntry(N))
BY DEF Entrance, SellEntry, BuyEntry

\* A list of a shop, of which nothing has sold more than was offered.
Listing(list, E) ==
    list \in Seq(E) /\ Len(list) <= MaxList /\ \A i \in 1..Len(list) : list[i].done <= list[i].total

LEMMA TimesNat == \A a, b \in Nat : a * b \in Nat /\ (a >= 1 /\ b >= 1 => a * b >= 1)
<1>1. \A a, b \in Nat : a * b \in Nat
    OBVIOUS
<1>2. ASSUME NEW a \in Nat, NEW b \in Nat, a >= 1, b >= 1
      PROVE  a * b >= 1
    <2>1. PICK c \in Nat : a = c + 1
        <3>1. a - 1 \in Nat /\ a = (a - 1) + 1
            BY <1>2
        <3>. QED
            BY <3>1
    <2>2. a * b = c * b + b
        BY <2>1
    <2>3. c * b \in Nat
        BY <1>1
    <2>. QED
        BY <1>2, <2>2, <2>3
<1>. QED
    BY <1>1, <1>2

\* What each entry brought.
Proceeds(list) == [i \in 1..Len(list) |-> list[i].price * list[i].done]

LEMMA BroughtIs ==
    ASSUME NEW E, Entrance(E), NEW list \in Seq(E)
    PROVE  /\ Brought(list) \in Nat
           /\ Brought(list) = SumFunctionOnSet(Proceeds(list), 1..Len(list))
           /\ \A i \in 1..Len(list) : /\ Proceeds(list)[i] = list[i].price * list[i].done
                                       /\ Proceeds(list)[i] \in Nat
<1> DEFINE D == 1..Len(list)
           f == Proceeds(list)
<1>1. DOMAIN list = D /\ Len(list) \in Nat /\ \A i \in D : list[i] \in E
    OBVIOUS
<1>2. Brought(list) = SumFunctionOnSet(f, D)
    BY <1>1 DEF Brought, SumFunction, Proceeds
<1>3. \A i \in D : f[i] = list[i].price * list[i].done /\ f[i] \in Nat
    BY <1>1, TimesNat DEF Entrance, Proceeds
<1>4. D \in FiniteSubsetsOf(D)
    BY <1>1, FS_Interval DEF FiniteSubsetsOf
<1>5. SumFunctionOnSet(f, D) \in Nat
    <2> HIDE DEF f, D
    <2>. QED
        BY <1>3, <1>4, SumNat
<1>. QED
    BY <1>2, <1>3, <1>5

\* n more of the i-th entry are sold.
Sold(list, l, i, n, price) ==
    /\ i \in 1..Len(list) /\ n \in Nat /\ n <= list[i].total - list[i].done
    /\ price = list[i].price * n /\ l = [list EXCEPT ![i].done = @ + n]

LEMMA SaleFits ==
    ASSUME NEW E, Entrance(E), NEW list, Listing(list, E), NEW i, NEW n, NEW price, NEW l,
           Sold(list, l, i, n, price)
    PROVE  Listing(l, E) /\ Brought(l) = Brought(list) + price
<1> DEFINE D == 1..Len(list)
           e == list[i]
           d == e.done + n
           z == [e EXCEPT !.done = d]
           f == Proceeds(list)
           h == Proceeds(l)
<1>1. /\ list \in Seq(E) /\ Len(list) \in Nat /\ DOMAIN list = D /\ Len(list) <= MaxList
      /\ \A j \in D : list[j] \in E /\ list[j].done <= list[j].total
      /\ i \in D /\ n \in Nat /\ n <= e.total - e.done /\ price = e.price * n
      /\ l = [list EXCEPT ![i].done = @ + n]
    BY DEF Listing, Sold
<1>2. e.price \in Nat \ {0} /\ e.total \in Nat /\ e.done \in Nat /\ e \in E
    BY <1>1 DEF Entrance
<1>3. d \in Nat /\ d <= e.total
    BY <1>1, <1>2
<1>4. z \in E /\ z.price = e.price /\ z.total = e.total /\ z.done = d
    <2> HIDE DEF d, e
    <2>. QED
        BY <1>2, <1>3 DEF Entrance
<1>5. l = [list EXCEPT ![i] = z]
    BY <1>1
<1> HIDE DEF z
<1>6. l \in Seq(E) /\ Len(l) = Len(list) /\ l[i] = z /\ \A j \in D : j # i => l[j] = list[j]
    BY <1>1, <1>4, <1>5
<1>7. Listing(l, E)
    BY <1>1, <1>3, <1>4, <1>6 DEF Listing
<1>8. /\ Brought(list) = SumFunctionOnSet(f, D)
      /\ \A j \in D : f[j] = list[j].price * list[j].done /\ f[j] \in Nat
    BY <1>1, BroughtIs
<1>9. /\ Brought(l) = SumFunctionOnSet(h, D)
      /\ \A j \in D : h[j] = l[j].price * l[j].done /\ h[j] \in Nat
    <2>1. /\ Brought(l) = SumFunctionOnSet(h, 1..Len(l))
          /\ \A j \in 1..Len(l) : h[j] = l[j].price * l[j].done /\ h[j] \in Nat
        <3>1. l \in Seq(E)
            BY <1>6
        <3>. QED
            BY ONLY Entrance(E), <3>1, BroughtIs
    <2>2. 1..Len(l) = D
        BY <1>6
    <2> HIDE DEF h, D
    <2>. QED
        BY <2>1, <2>2
<1>10. h[i] - f[i] = e.price * n
    <2>1. h[i] = e.price * (e.done + n) /\ f[i] = e.price * e.done
        BY <1>1, <1>4, <1>6, <1>8, <1>9
    <2>2. \A a, b, c \in Nat : a * (b + c) - a * b = a * c
        OBVIOUS
    <2>3. n \in Nat
        BY <1>1
    <2> HIDE DEF f, h, e
    <2>. QED
        BY <1>2, <2>1, <2>2, <2>3
<1>11. (\A j \in D : f[j] \in Int /\ h[j] \in Int) /\ (\A j \in D : j # i => h[j] = f[j])
    <2> HIDE DEF f, h, D
    <2>. QED
        BY <1>6, <1>8, <1>9
<1>a. IsFiniteSet(D)
    BY <1>1, FS_Interval
<1>12. i \in D
    BY <1>1
<1> HIDE DEF f, h, D, e
<1>13. SumFunctionOnSet(h, D) = SumFunctionOnSet(f, D) + (h[i] - f[i])
    <2>1. /\ SumFunctionOnSet(f, D) \in Int /\ SumFunctionOnSet(h, D) \in Int
          /\ SumFunctionOnSet(h, D) = SumFunctionOnSet(f, D) + (h[i] - f[i])
        BY <1>a, <1>11, <1>12, SumMoves
    <2>. QED
        BY <2>1
<1>. QED
    BY <1>1, <1>7, <1>8, <1>9, <1>10, <1>13

-----------------------------------------------------------------------------
(* One order, carried out.                                                   *)

LEMMA MinOfTwo ==
    ASSUME NEW a \in Int, NEW b \in Int
    PROVE  Min({a, b}) \in {a, b} /\ Min({a, b}) <= a /\ Min({a, b}) <= b
<1>1. \E x \in {a, b} : \A y \in {a, b} : x <= y
    <2>1. CASE a <= b
        BY <2>1
    <2>2. CASE b <= a
        BY <2>2
    <2>. QED
        BY <2>1, <2>2
<1>. QED
    BY <1>1 DEF Min

\* Goods one way and gold the other.
LEMMA DealFits ==
    ASSUME NEW m, NEW N, Kept(m, N), NEW from \in Trader, NEW to \in Trader, NEW x \in m.stock[from],
           x.good # Gold, NEW n \in Nat, n >= 1, n <= x.n, NEW price \in Nat, price >= 1,
           GetAdena(m.stock[to]) >= price,
           NEW r, r = TransferGold(TransferItem(m, from, to, x, n), to, from, price)
    PROVE  /\ Onward(m, r, N) /\ Preserves(m, r)
           /\ from # to /\ ~r.burst =>
                 /\ GetAdena(r.stock[from]) = GetAdena(m.stock[from]) + price
                 /\ GetAdena(r.stock[to]) = GetAdena(m.stock[to]) - price
<1> DEFINE t == TransferItem(m, from, to, x, n)
<1>1. x.good = Blade => n = x.n
    <2>1. Proper(m.stock[from], m.things, m.burst, N)
        BY DEF Kept
    <2>2. x.good = Blade => x.n = 1
        BY <2>1 DEF Proper
    <2>. QED
        BY <2>2
<1>2. t = TransferItem(m, from, to, x, n) /\ r = TransferGold(t, to, from, price) /\ n \in Int
    OBVIOUS
<1> HIDE DEF t
<1>3. Onward(m, t, N) /\ Preserves(m, t) /\ GoldStays(m, t)
    BY <1>1, <1>2, TransferItemFits
<1>4. Kept(t, N) /\ GetAdena(t.stock[to]) >= price
    BY <1>3 DEF Onward, GoldStays
<1>5. /\ Onward(t, r, N) /\ Preserves(t, r)
      /\ to # from /\ ~r.burst =>
            /\ GetAdena(r.stock[from]) = GetAdena(t.stock[from]) + price
            /\ GetAdena(r.stock[to]) = GetAdena(t.stock[to]) - price
    BY <1>2, <1>4, TransferGoldFits
<1>6. Onward(m, r, N)
    BY <1>3, <1>5, OnwardTrans
<1>7. Preserves(m, r)
    BY <1>3, <1>5 DEF Preserves, Onward
<1>. QED
    BY <1>3, <1>5, <1>6, <1>7 DEF GoldStays

-----------------------------------------------------------------------------
(* The loops of ExecuteBuy and ExecuteSell.                                  *)

\* From m to r the purse of s gained what the entries sold between k and l, or lost what
\* the entries bought.
Balanced(m, k, r, l, s, sells) ==
    IF sells THEN GetAdena(r.stock[s]) - GetAdena(m.stock[s]) = Brought(l) - Brought(k)
             ELSE GetAdena(r.stock[s]) - GetAdena(m.stock[s]) = Brought(k) - Brought(l)

\* What a loop over the list k of s, begun with m, keeps to; c is the customer.
States(E) == [mem : Mem, list : Seq(E), next : {"on", "break", "return"}]
Dealt(m, k, E, N, s, c, sells) ==
    {st \in States(E) :
        /\ Onward(m, st.mem, N) /\ Preserves(m, st.mem) /\ Listing(st.list, E)
        /\ s # c /\ ~st.mem.burst => Balanced(m, k, st.mem, st.list, s, sells)}

LEMMA NextDealt ==
    ASSUME NEW m, NEW k, NEW E, NEW N, NEW s, NEW c, NEW sells,
           NEW st \in Dealt(m, k, E, N, s, c, sells), NEW w \in {"on", "break", "return"}
    PROVE  [st EXCEPT !.next = w] \in Dealt(m, k, E, N, s, c, sells)
<1>1. [st EXCEPT !.next = w] \in States(E)
    BY DEF Dealt, States
<1>2. [st EXCEPT !.next = w].mem = st.mem /\ [st EXCEPT !.next = w].list = st.list
    BY DEF Dealt, States
<1>. QED
    BY <1>1, <1>2 DEF Dealt

LEMMA SaleDealt ==
    ASSUME NEW m, NEW k, NEW E, Entrance(E), NEW N, NEW s \in Trader, NEW c, NEW sells \in BOOLEAN,
           Kept(m, N), k \in Seq(E),
           NEW st \in Dealt(m, k, E, N, s, c, sells), NEW i, NEW n, NEW price \in Nat, NEW l,
           Sold(st.list, l, i, n, price), NEW r, Onward(st.mem, r, N), Preserves(st.mem, r),
           s # c /\ ~r.burst =>
               GetAdena(r.stock[s]) = GetAdena(st.mem.stock[s]) + IF sells THEN price ELSE -price,
           NEW t, t = [st EXCEPT !.mem = r, !.list = l]
    PROVE  t \in Dealt(m, k, E, N, s, c, sells)
<1>1. /\ st \in States(E) /\ Onward(m, st.mem, N) /\ Preserves(m, st.mem) /\ Listing(st.list, E)
      /\ s # c /\ ~st.mem.burst => Balanced(m, k, st.mem, st.list, s, sells)
    BY DEF Dealt
<1>2. Listing(l, E) /\ Brought(l) = Brought(st.list) + price
    <2> DEFINE q == st.list
    <2>1. Listing(q, E) /\ Sold(q, l, i, n, price)
        BY <1>1
    <2> HIDE DEF q
    <2>2. Listing(l, E) /\ Brought(l) = Brought(q) + price
        BY <2>1, SaleFits
    <2>. QED
        BY <2>2 DEF q
<1>4. Kept(st.mem, N) /\ Kept(r, N) /\ r \in Mem
    BY <1>1 DEF Onward, Kept
<1>5. l \in Seq(E)
    BY <1>2 DEF Listing
<1>6. t \in States(E) /\ t.mem = r /\ t.list = l
    BY <1>1, <1>4, <1>5 DEF States
<1>7. Onward(m, r, N)
    BY <1>1, OnwardTrans
<1>8. Preserves(m, r)
    BY <1>1 DEF Preserves, Onward
<1>9. ASSUME s # c, ~r.burst
      PROVE  Balanced(m, k, r, l, s, sells)
    <2>1. ~st.mem.burst
        BY <1>9 DEF Onward
    <2>2. Balanced(m, k, st.mem, st.list, s, sells)
        BY <1>1, <1>9, <2>1
    <2>3. GetAdena(r.stock[s]) = GetAdena(st.mem.stock[s]) + IF sells THEN price ELSE -price
        BY <1>9
    <2> DEFINE a == GetAdena(m.stock[s])
               b == GetAdena(st.mem.stock[s])
               g == GetAdena(r.stock[s])
               x == Brought(k)
               y == Brought(st.list)
               z == Brought(l)
    <2>4. a \in Int /\ b \in Int
        BY <1>4, PurseIs
    <2>5. x \in Nat /\ y \in Nat
        <3>1. st.list \in Seq(E)
            BY <1>1 DEF Listing
        <3>. QED
            BY <3>1, BroughtIs
    <2>a. z = y + price
        BY <1>2
    <2>6. CASE sells
        <3>1. b - a = y - x
            BY <2>2, <2>6 DEF Balanced
        <3>2. g = b + price
            BY <2>3, <2>6
        <3>3. g - a = z - x
            <4> HIDE DEF a, b, g, x, y, z
            <4>. QED
                BY <2>a, <2>4, <2>5, <3>1, <3>2
        <3>. QED
            BY <2>6, <3>3 DEF Balanced
    <2>7. CASE ~sells
        <3>1. b - a = x - y
            BY <2>2, <2>7 DEF Balanced
        <3>2. g = b + (-price)
            BY <2>3, <2>7
        <3>3. g - a = x - z
            <4> HIDE DEF a, b, g, x, y, z
            <4>. QED
                BY <2>a, <2>4, <2>5, <3>1, <3>2
        <3>. QED
            BY <2>7, <3>3 DEF Balanced
    <2>. QED
        BY <2>6, <2>7
<1>. QED
    BY <1>2, <1>6, <1>7, <1>8, <1>9, Zenon DEF Dealt

\* What is asked for, as far as there is any: the quantity of a sale, and its price.
LEMMA QuantityIs ==
    ASSUME NEW E, Entrance(E), NEW e \in E, NEW a \in Nat, NEW n, n = Min({a, e.total - e.done}), ~(n <= 0)
    PROVE  /\ n \in Nat /\ n >= 1 /\ n <= e.total - e.done
           /\ e.price * n \in Nat /\ e.price * n >= 1
<1>1. e.price \in Nat \ {0} /\ e.total \in Nat /\ e.done \in Nat
    BY DEF Entrance
<1>2. e.total - e.done \in Int
    BY <1>1
<1>3. n \in {a, e.total - e.done} /\ n <= e.total - e.done
    <2> DEFINE b == e.total - e.done
    <2>1. b \in Int /\ n = Min({a, b}) /\ a \in Int
        BY <1>2
    <2> HIDE DEF b
    <2>2. n \in {a, b} /\ n <= b
        BY <2>1, MinOfTwo
    <2>. QED
        BY <2>2 DEF b
<1>4. n \in Nat /\ n >= 1
    BY <1>2, <1>3
<1>5. e.price \in Nat /\ e.price >= 1
    BY <1>1
<1>. QED
    BY <1>3, <1>4, <1>5, TimesNat

LEMMA SellOneFits ==
    ASSUME NEW m, NEW N, Kept(m, N), NEW k \in Seq(SellEntry(N)), NEW s \in Trader, NEW c \in Trader,
           NEW st \in Dealt(m, k, SellEntry(N), N, s, c, TRUE), NEW o, o.n \in Nat
    PROVE  SellOne(c, s, st, o) \in Dealt(m, k, SellEntry(N), N, s, c, TRUE)
<1> DEFINE E == SellEntry(N)
           V == Dealt(m, k, E, N, s, c, TRUE)
           i == o.at
           e == st.list[i]
           n == Min({o.n, e.total - e.done})
           x == CHOOSE y \in st.mem.stock[s] : y.obj = e.obj
           price == e.price * n
           r == TransferGold(TransferItem(st.mem, s, c, x, n), c, s, price)
           l == [st.list EXCEPT ![i].done = @ + n]
           t == [st EXCEPT !.mem = r, !.list = l]
           Goes == /\ i \in DOMAIN st.list /\ ~(n <= 0) /\ e.obj \in Numbers(st.mem.stock[s])
                   /\ ~(GetAdena(st.mem.stock[c]) < price) /\ ~(x.n < n)
<1>1. \/ SellOne(c, s, st, o) = st
      \/ \E w \in {"on", "break", "return"} : SellOne(c, s, st, o) = [st EXCEPT !.next = w]
      \/ Goes /\ SellOne(c, s, st, o) = [st EXCEPT !.mem = r, !.list[i].done = @ + n]
    BY DEF SellOne
<1>a. [st EXCEPT !.mem = r, !.list[i].done = @ + n] = t
    BY DEF Dealt, States
<1>2. ASSUME Goes
      PROVE  t \in V
    <2>1. /\ st \in States(E) /\ Onward(m, st.mem, N) /\ Listing(st.list, E)
        BY DEF Dealt
    <2>2. i \in 1..Len(st.list) /\ e \in E /\ k \in Seq(E)
        BY <1>2, <2>1 DEF Listing
    <2>3. Kept(st.mem, N)
        BY <2>1 DEF Onward
    <2>4. Entrance(E)
        BY EntriesAre
    <2>5. /\ n \in Nat /\ n >= 1 /\ n <= e.total - e.done
          /\ price \in Nat /\ price >= 1
        <3>1. n = Min({o.n, e.total - e.done}) /\ ~(n <= 0)
            BY <1>2
        <3> HIDE DEF n, e, E
        <3>. QED
            BY <2>2, <2>4, <3>1, QuantityIs
    <2>6. x \in st.mem.stock[s] /\ x.obj = e.obj
        BY <1>2 DEF Numbers
    <2>7. x.good # Gold /\ x.n \in Int
        <3>1. Proper(st.mem.stock[s], st.mem.things, st.mem.burst, N)
            BY <2>3 DEF Kept
        <3>2. e.obj \in N
            BY <2>2 DEF SellEntry
        <3>3. x \in Thing /\ (x.good = Gold => x.obj \notin N)
            BY <2>6, <3>1 DEF Proper
        <3>4. x.n \in Int
            BY <3>3 DEF Thing
        <3>. QED
            BY <2>6, <3>2, <3>3, <3>4
    <2>8. n <= x.n /\ GetAdena(st.mem.stock[c]) >= price
        <3>1. GetAdena(st.mem.stock[c]) \in Int
            BY <2>3, PurseIs
        <3> HIDE DEF n, x, price
        <3>. QED
            BY <1>2, <2>5, <2>7, <3>1
    <2>9. Sold(st.list, l, i, n, price)
        BY <2>2, <2>5 DEF Sold
    <2>a. t = [st EXCEPT !.mem = r, !.list = l] /\ TRUE \in BOOLEAN
        OBVIOUS
    <2>b. r = TransferGold(TransferItem(st.mem, s, c, x, n), c, s, price)
        OBVIOUS
    <2>10. /\ Onward(st.mem, r, N) /\ Preserves(st.mem, r)
           /\ s # c /\ ~r.burst => GetAdena(r.stock[s]) = GetAdena(st.mem.stock[s]) + price
        <3> DEFINE q == st.mem
        <3>1. /\ Kept(q, N) /\ x \in q.stock[s] /\ GetAdena(q.stock[c]) >= price
              /\ r = TransferGold(TransferItem(q, s, c, x, n), c, s, price)
            BY <2>3, <2>6, <2>8, <2>b
        <3>2. x.good # Gold /\ n \in Nat /\ n >= 1 /\ n <= x.n /\ price \in Nat /\ price >= 1
            BY <2>5, <2>7, <2>8
        <3> HIDE DEF q, x, n, price, r, e
        <3>3. /\ Onward(q, r, N) /\ Preserves(q, r)
              /\ s # c /\ ~r.burst =>
                    /\ GetAdena(r.stock[s]) = GetAdena(q.stock[s]) + price
                    /\ GetAdena(r.stock[c]) = GetAdena(q.stock[c]) - price
            BY <3>1, <3>2, DealFits
        <3>. QED
            BY <3>3 DEF q
    <2>c. s # c /\ ~r.burst =>
              GetAdena(r.stock[s]) = GetAdena(st.mem.stock[s]) + IF TRUE THEN price ELSE -price
        BY <2>10
    <2>d. st \in Dealt(m, k, E, N, s, c, TRUE)
        OBVIOUS
    <2> HIDE DEF n, x, price, r, t, e, E, i, l
    <2>11. t \in Dealt(m, k, E, N, s, c, TRUE)
        BY <2>2, <2>4, <2>5, <2>9, <2>a, <2>10, <2>c, <2>d, SaleDealt
    <2>. QED
        BY <2>11
<1>3. \A w \in {"on", "break", "return"} : [st EXCEPT !.next = w] \in V
    BY NextDealt
<1> HIDE DEF t, r, n, x, e, price, l
<1>. QED
    BY <1>1, <1>2, <1>3, <1>a

LEMMA BuyOneFits ==
    ASSUME NEW m, NEW N, Kept(m, N), NEW k \in Seq(BuyEntry), NEW s \in Trader, NEW c \in Trader,
           NEW st \in Dealt(m, k, BuyEntry, N, s, c, FALSE), NEW o, o.n \in Nat
    PROVE  BuyOne(c, s, st, o) \in Dealt(m, k, BuyEntry, N, s, c, FALSE)
<1> DEFINE E == BuyEntry
           V == Dealt(m, k, E, N, s, c, FALSE)
           i == o.at
           e == st.list[i]
           n == Min({o.n, e.total - e.done})
           x == CHOOSE y \in st.mem.stock[c] : y.obj = o.obj
           price == e.price * n
           r == TransferGold(TransferItem(st.mem, c, s, x, n), s, c, price)
           l == [st.list EXCEPT ![i].done = @ + n]
           t == [st EXCEPT !.mem = r, !.list = l]
           Goes == /\ i \in DOMAIN st.list /\ ~(n <= 0) /\ o.obj \in Numbers(st.mem.stock[c])
                   /\ x.good = e.good /\ ~(GetAdena(st.mem.stock[s]) < price) /\ ~(x.n < n)
<1>1. \/ BuyOne(c, s, st, o) = st
      \/ \E w \in {"on", "break", "return"} : BuyOne(c, s, st, o) = [st EXCEPT !.next = w]
      \/ Goes /\ BuyOne(c, s, st, o) = [st EXCEPT !.mem = r, !.list[i].done = @ + n]
    BY DEF BuyOne
<1>a. [st EXCEPT !.mem = r, !.list[i].done = @ + n] = t
    BY DEF Dealt, States
<1>2. ASSUME Goes
      PROVE  t \in V
    <2>1. /\ st \in States(E) /\ Onward(m, st.mem, N) /\ Listing(st.list, E)
        BY DEF Dealt
    <2>2. i \in 1..Len(st.list) /\ e \in E /\ k \in Seq(E)
        BY <1>2, <2>1 DEF Listing
    <2>3. Kept(st.mem, N)
        BY <2>1 DEF Onward
    <2>4. Entrance(E)
        BY EntriesAre
    <2>5. /\ n \in Nat /\ n >= 1 /\ n <= e.total - e.done
          /\ price \in Nat /\ price >= 1
        <3>1. n = Min({o.n, e.total - e.done}) /\ ~(n <= 0)
            BY <1>2
        <3> HIDE DEF n, e, E
        <3>. QED
            BY <2>2, <2>4, <3>1, QuantityIs
    <2>6. x \in st.mem.stock[c]
        BY <1>2 DEF Numbers
    <2>7. x.good # Gold /\ x.n \in Int
        <3>1. Proper(st.mem.stock[c], st.mem.things, st.mem.burst, N)
            BY <2>3 DEF Kept
        <3>2. e.good # Gold
            BY <2>2 DEF BuyEntry
        <3>3. x \in Thing
            BY <2>6, <3>1 DEF Proper
        <3>4. x.n \in Int
            BY <3>3 DEF Thing
        <3>. QED
            BY <1>2, <3>2, <3>4
    <2>8. n <= x.n /\ GetAdena(st.mem.stock[s]) >= price
        <3>1. GetAdena(st.mem.stock[s]) \in Int
            BY <2>3, PurseIs
        <3> HIDE DEF n, x, price
        <3>. QED
            BY <1>2, <2>5, <2>7, <3>1
    <2>9. Sold(st.list, l, i, n, price)
        BY <2>2, <2>5 DEF Sold
    <2>a. t = [st EXCEPT !.mem = r, !.list = l] /\ FALSE \in BOOLEAN
        OBVIOUS
    <2>b. r = TransferGold(TransferItem(st.mem, c, s, x, n), s, c, price)
        OBVIOUS
    <2>10. /\ Onward(st.mem, r, N) /\ Preserves(st.mem, r)
           /\ s # c /\ ~r.burst => GetAdena(r.stock[s]) = GetAdena(st.mem.stock[s]) - price
        <3> DEFINE q == st.mem
        <3>1. /\ Kept(q, N) /\ x \in q.stock[c] /\ GetAdena(q.stock[s]) >= price
              /\ r = TransferGold(TransferItem(q, c, s, x, n), s, c, price)
            BY <2>3, <2>6, <2>8, <2>b
        <3>2. x.good # Gold /\ n \in Nat /\ n >= 1 /\ n <= x.n /\ price \in Nat /\ price >= 1
            BY <2>5, <2>7, <2>8
        <3> HIDE DEF q, x, n, price, r, e
        <3>3. /\ Onward(q, r, N) /\ Preserves(q, r)
              /\ c # s /\ ~r.burst =>
                    /\ GetAdena(r.stock[c]) = GetAdena(q.stock[c]) + price
                    /\ GetAdena(r.stock[s]) = GetAdena(q.stock[s]) - price
            BY <3>1, <3>2, DealFits
        <3>. QED
            BY <3>3 DEF q
    <2>c. s # c /\ ~r.burst =>
              GetAdena(r.stock[s]) = GetAdena(st.mem.stock[s]) + IF FALSE THEN price ELSE -price
        <3>1. GetAdena(st.mem.stock[s]) \in Int
            BY <2>3, PurseIs
        <3> HIDE DEF price, r
        <3>. QED
            BY <2>5, <2>10, <3>1
    <2>d. st \in Dealt(m, k, E, N, s, c, FALSE)
        OBVIOUS
    <2> HIDE DEF n, x, price, r, t, e, E, i, l
    <2>11. t \in Dealt(m, k, E, N, s, c, FALSE)
        BY <2>2, <2>4, <2>5, <2>9, <2>a, <2>10, <2>c, <2>d, SaleDealt
    <2>. QED
        BY <2>11
<1>3. \A w \in {"on", "break", "return"} : [st EXCEPT !.next = w] \in V
    BY NextDealt
<1> HIDE DEF t, r, n, x, e, price, l
<1>. QED
    BY <1>1, <1>2, <1>3, <1>a

-----------------------------------------------------------------------------
(* What is left of a list.                                                   *)

\* A sum of sums.
LEMMA SumOfBoth ==
    ASSUME NEW D, NEW f, NEW g, NEW h,
           \A x \in D : f[x] \in Int /\ g[x] \in Int /\ h[x] = f[x] + g[x]
    PROVE  \A S \in FiniteSubsetsOf(D) :
              SumFunctionOnSet(h, S) = SumFunctionOnSet(f, S) + SumFunctionOnSet(g, S)
<1> DEFINE G == {S \in FiniteSubsetsOf(D) :
                    SumFunctionOnSet(h, S) = SumFunctionOnSet(f, S) + SumFunctionOnSet(g, S)}
<1>1. {} \in G
    BY SumEmpty, FS_EmptySet DEF FiniteSubsetsOf
<1>2. ASSUME NEW S \in FiniteSubsetsOf(D), S # {}, \A R \in SUBSET S : R # S => R \in G
      PROVE  S \in G
    <2> DEFINE e == One(S)
               R == S \ {e}
    <2>1. e \in S /\ IsFiniteSet(S) /\ e \in D /\ R \in SUBSET S /\ R # S /\ S \subseteq D
        BY <1>2, OneIsIn DEF FiniteSubsetsOf
    <2>2. R \in G
        BY <1>2, <2>1
    <2>3. \A x \in S : f[x] \in Int /\ g[x] \in Int /\ h[x] \in Int
        BY <2>1
    <2>4. R = S \ {e}
        OBVIOUS
    <2> HIDE DEF e, R
    <2>5. SumFunctionOnSet(f, R) \in Int /\ SumFunctionOnSet(f, S) = f[e] + SumFunctionOnSet(f, R)
        BY <2>1, <2>3, <2>4, SumWithout
    <2>6. SumFunctionOnSet(g, R) \in Int /\ SumFunctionOnSet(g, S) = g[e] + SumFunctionOnSet(g, R)
        BY <2>1, <2>3, <2>4, SumWithout
    <2>7. SumFunctionOnSet(h, S) = h[e] + SumFunctionOnSet(h, R)
        BY <2>1, <2>3, <2>4, SumWithout
    <2>8. SumFunctionOnSet(h, R) = SumFunctionOnSet(f, R) + SumFunctionOnSet(g, R)
        BY <2>2
    <2>9. h[e] = f[e] + g[e] /\ f[e] \in Int /\ g[e] \in Int
        BY <2>1
    <2>. QED
        BY <2>5, <2>6, <2>7, <2>8, <2>9
<1>3. FiniteSubsetsOf(D) \subseteq G
    <2> HIDE DEF G
    <2>. QED
        BY <1>1, <1>2, FiniteInduction
<1>. QED
    BY <1>3

\* What the entries of a list weigh by w.
Weighed(w, r) == [i \in 1..Len(r) |-> w[r[i]]]
Weighs(w, r) == SumFunctionOnSet(Weighed(w, r), 1..Len(r))

LEMMA WeighsMore ==
    ASSUME NEW T, NEW w, \A e \in T : w[e] \in Int, NEW r \in Seq(T), NEW e \in T
    PROVE  Weighs(w, Append(r, e)) = Weighs(w, r) + w[e]
<1> DEFINE q == Append(r, e)
           n == Len(r)
           D == 1..n
           A == 1..Len(q)
           f == Weighed(w, r)
           h == Weighed(w, q)
<1>1. n \in Nat /\ q \in Seq(T) /\ Len(q) = n + 1 /\ q[n+1] = e /\ \A i \in D : q[i] = r[i]
    OBVIOUS
<1>2. A \ {n + 1} = D /\ n + 1 \in A
    BY <1>1
<1>3. /\ \A i \in A : h[i] = w[q[i]] /\ h[i] \in Int
      /\ \A i \in D : f[i] = w[r[i]] /\ f[i] = h[i] /\ f[i] \in Int
    <2>1. \A i \in A : h[i] = w[q[i]] /\ q[i] \in T
        BY <1>1 DEF Weighed
    <2>2. \A i \in D : f[i] = w[r[i]] /\ r[i] \in T /\ i \in A
        BY <1>1 DEF Weighed
    <2> HIDE DEF A, D, q, n, f, h
    <2>. QED
        BY <1>1, <2>1, <2>2
<1>4. h[n+1] = w[e]
    BY <1>1, <1>2, <1>3
<1>5. IsFiniteSet(A) /\ D \in FiniteSubsetsOf(D)
    BY <1>1, FS_Interval DEF FiniteSubsetsOf
<1>6. Weighs(w, q) = SumFunctionOnSet(h, A) /\ Weighs(w, r) = SumFunctionOnSet(f, D)
    BY DEF Weighs
<1> DEFINE l == n + 1
<1>a. l = n + 1 /\ w[e] \in Int
    OBVIOUS
<1> HIDE DEF A, D, q, n, f, h, l
<1>7. SumFunctionOnSet(h, A) = h[l] + SumFunctionOnSet(h, D) /\ SumFunctionOnSet(h, D) \in Int
    <2>1. l \in A /\ A \ {l} = D /\ \A i \in A : h[i] \in Int
        BY <1>2, <1>3, <1>a
    <2>2. SumFunctionOnSet(h, A \ {l}) \in Int /\ SumFunctionOnSet(h, A) = h[l] + SumFunctionOnSet(h, A \ {l})
        BY <1>5, <2>1, SumWithout
    <2>. QED
        BY <2>1, <2>2
<1>8. SumFunctionOnSet(f, D) = SumFunctionOnSet(h, D)
    BY <1>3, <1>5, SumEqual
<1>9. Weighs(w, q) = Weighs(w, r) + w[e]
    BY <1>4, <1>6, <1>7, <1>8, <1>a
<1>. QED
    BY <1>9 DEF q

\* What is left of the entries in s.
Left(w, list, S, T, g, s) ==
    {r \in Seq(T \cap S) : Len(r) <= Cardinality(s) /\ Weighs(w, r) = SumFunctionOnSet(g, s)}
\* The weight of each entry that is left.
WeightLeft(w, list, S) == [i \in 1..Len(list) |-> IF list[i] \in S THEN w[list[i]] ELSE 0]

LEMMA LeftNext ==
    ASSUME NEW T, NEW w, \A e \in T : w[e] \in Int, NEW list \in Seq(T), NEW S,
           NEW g, g = WeightLeft(w, list, S), NEW s \in SUBSET (1..Len(list)), NEW i \in s,
           NEW v \in Left(w, list, S, T, g, s \ {i})
    PROVE  (IF list[i] \in S THEN Append(v, list[i]) ELSE v) \in Left(w, list, S, T, g, s)
<1> DEFINE R == s \ {i}
           e == list[i]
           D == 1..Len(list)
           A == T \cap S
<1>1. Len(list) \in Nat /\ e \in T /\ i \in D /\ R = s \ {i}
    OBVIOUS
<1>2. \A j \in s : g[j] \in Int
    <2> SUFFICES ASSUME NEW j \in s PROVE g[j] \in Int
        OBVIOUS
    <2>1. list[j] \in T /\ g[j] = IF list[j] \in S THEN w[list[j]] ELSE 0
        BY DEF WeightLeft
    <2>. QED
        BY <2>1
<1>3. g[i] = IF e \in S THEN w[e] ELSE 0
    BY DEF WeightLeft
<1>4. IsFiniteSet(s) /\ IsFiniteSet(R)
    <2>1. s \subseteq D /\ R \subseteq D
        OBVIOUS
    <2>2. IsFiniteSet(D)
        BY <1>1, FS_Interval
    <2> HIDE DEF D, R
    <2>. QED
        BY <2>1, <2>2, FS_Subset
<1>5. Cardinality(s) \in Nat /\ Cardinality(R) = Cardinality(s) - 1
    BY <1>4, FS_RemoveElement, FS_CardinalityType
<1>6. v \in Seq(A) /\ Len(v) <= Cardinality(R) /\ Weighs(w, v) = SumFunctionOnSet(g, R) /\ Len(v) \in Nat
    BY DEF Left
<1> HIDE DEF e, R, D, A
<1>7. SumFunctionOnSet(g, s) = g[i] + SumFunctionOnSet(g, R) /\ SumFunctionOnSet(g, R) \in Int
    BY <1>1, <1>2, <1>4, SumWithout
<1>8. CASE e \in S
    <2> DEFINE q == Append(v, e)
    <2>1. q \in Seq(A) /\ Len(q) = Len(v) + 1
        <3>1. e \in A
            BY <1>1, <1>8 DEF A
        <3>. QED
            BY <1>6, <3>1
    <2>2. Len(q) <= Cardinality(s)
        BY <1>5, <1>6, <2>1
    <2>3. Weighs(w, q) = Weighs(w, v) + w[e]
        <3>1. v \in Seq(T)
            BY <1>6 DEF A
        <3>. QED
            BY <1>1, <3>1, WeighsMore
    <2>4. Weighs(w, q) = SumFunctionOnSet(g, s)
        <3>1. w[e] \in Int
            BY <1>1
        <3> HIDE DEF q
        <3>. QED
            BY <1>3, <1>6, <1>7, <1>8, <2>3, <3>1
    <2> HIDE DEF q
    <2>5. q \in Left(w, list, S, T, g, s)
        BY <2>1, <2>2, <2>4 DEF Left, A
    <2>. QED
        BY <1>8, <2>5 DEF q, e
<1>9. CASE e \notin S
    <2>1. Len(v) <= Cardinality(s) /\ Weighs(w, v) = SumFunctionOnSet(g, s)
        BY <1>3, <1>5, <1>6, <1>7, <1>9
    <2>2. v \in Left(w, list, S, T, g, s)
        BY <1>6, <2>1 DEF Left, A
    <2>. QED
        BY <1>9, <2>2 DEF e
<1>. QED
    BY <1>8, <1>9

\* Among: the entries in S, no more than there were, with what they weighed.
LEMMA AmongIs ==
    ASSUME NEW T, NEW w, \A e \in T : w[e] \in Int, NEW list \in Seq(T), NEW S
    PROVE  /\ Among(list, S) \in Seq(T \cap S) /\ Len(Among(list, S)) <= Len(list)
           /\ Weighs(w, Among(list, S)) = SumFunctionOnSet(WeightLeft(w, list, S), 1..Len(list))
<1> DEFINE n == Len(list)
           D == 1..n
           base == <<>>
           g == WeightLeft(w, list, S)
           Q == [s \in SUBSET D |-> Left(w, list, S, T, g, s)]
           choose == [s \in SUBSET D |-> Max(s)]
           Turn(v, e) == IF e \in S THEN Append(v, e) ELSE v
           f == [s \in SUBSET D |-> [v \in Seq(T \cap S) |-> Turn(v, list[Max(s)])]]
           Down(k) == k = [s \in SUBSET DOMAIN list |->
                             IF s = {} THEN base ELSE Turn(k[s \ {Max(s)}], list[Max(s)])]
           h == CHOOSE k : Down(k)
<1>1. Among(list, S) = h[DOMAIN list]
    BY DEF Among, FoldLeft, MapThenFoldSet
<1>2. n \in Nat /\ DOMAIN list = D /\ IsFiniteSet(D) /\ Cardinality(D) = n /\ D \in SUBSET D /\ n = Len(list)
    <2>1. n \in Nat /\ DOMAIN list = D /\ D \in SUBSET D /\ n = Len(list)
        OBVIOUS
    <2>2. IsFiniteSet(1..n) /\ Cardinality(1..n) = IF 1 > n THEN 0 ELSE n - 1 + 1
        BY <2>1, FS_Interval
    <2> HIDE DEF n
    <2>3. Cardinality(1..n) = n
        BY <2>1, <2>2
    <2>. QED
        BY <2>1, <2>2, <2>3
<1>3. base \in Q[{}]
    <2>1. Weighs(w, base) = 0
        <3>1. 1..Len(<<>>) = {}
            OBVIOUS
        <3>. QED
            BY <3>1, SumEmpty DEF Weighs
    <2>2. base \in Seq(T \cap S) /\ Len(base) <= Cardinality({}) /\ SumFunctionOnSet(g, {}) = 0
        <3>1. Cardinality({}) = 0 /\ Len(<<>>) = 0
            BY FS_EmptySet
        <3>2. SumFunctionOnSet(g, {}) = 0
            BY SumEmpty
        <3>. QED
            BY <3>1, <3>2
    <2>3. base \in Left(w, list, S, T, g, {})
        BY <2>1, <2>2 DEF Left
    <2>. QED
        BY <2>3
<1>4. \A s \in SUBSET D : Q[s] = Left(w, list, S, T, g, s) /\ Q[s] \subseteq Seq(T \cap S)
    BY DEF Left
<1>5. \A s \in SUBSET D : /\ choose[s] = Max(s)
                         /\ \A v \in Seq(T \cap S) : f[s][v] = Turn(v, list[Max(s)])
    OBVIOUS
<1>6. \A s \in SUBSET D : s # {} => Max(s) \in s
    BY <1>2, MaxIn
<1>7. Leads(f, choose, Q, D)
    <2>1. ASSUME NEW s \in SUBSET D, s # {}, NEW v \in Q[s \ {choose[s]}]
          PROVE  choose[s] \in s /\ f[s][v] \in Q[s]
        <3> DEFINE i == Max(s)
        <3>1. i \in s /\ choose[s] = i
            BY <1>5, <1>6, <2>1
        <3>2. s \ {i} \in SUBSET D
            OBVIOUS
        <3> HIDE DEF Q, f, choose
        <3>3. v \in Left(w, list, S, T, g, s \ {i}) /\ v \in Seq(T \cap S)
            BY <1>4, <2>1, <3>1, <3>2
        <3>4. f[s][v] = Turn(v, list[i])
            BY <1>5, <3>3
        <3>5. g = WeightLeft(w, list, S) /\ s \in SUBSET (1..Len(list))
            OBVIOUS
        <3> HIDE DEF g, i, D
        <3>6. Turn(v, list[i]) \in Left(w, list, S, T, g, s)
            BY <3>1, <3>3, <3>5, LeftNext
        <3>. QED
            BY <1>4, <3>1, <3>4, <3>6
    <2>2. \A s \in SUBSET D : s # {} => choose[s] \in s
        BY <1>5, <1>6
    <2> HIDE DEF f, choose, Q, D
    <2>. QED
        BY <2>1, <2>2 DEF Leads
<1>8. PICK k : FoldsUp(k, base, f, choose, D) /\ \A s \in SUBSET D : k[s] \in Q[s]
    <2> HIDE DEF f, choose, Q, D, base
    <2>. QED
        BY <1>2, <1>3, <1>7, FoldFits
<1>9. Down(k)
    <2>1. ASSUME NEW s \in SUBSET D, s # {}
          PROVE  k[s] = Turn(k[s \ {Max(s)}], list[Max(s)])
        <3>1. k[s] = f[s][k[s \ {choose[s]}]]
            BY <1>8, <2>1 DEF FoldsUp
        <3>2. s \ {Max(s)} \in SUBSET D /\ choose[s] = Max(s)
            BY <1>5
        <3>3. k[s \ {Max(s)}] \in Seq(T \cap S)
            BY <1>4, <1>8, <3>2
        <3> HIDE DEF f, Turn, choose, D
        <3>. QED
            BY <1>5, <3>1, <3>2, <3>3
    <2>2. k[{}] = base /\ k = [s \in SUBSET D |-> k[s]]
        BY <1>8 DEF FoldsUp
    <2> HIDE DEF Turn, D, base
    <2>. QED
        BY <1>2, <2>1, <2>2
<1>10. Down(h)
    <2> HIDE DEF Down
    <2>. QED
        BY <1>9
<1>11. /\ h[{}] = base
       /\ \A s \in SUBSET D : s # {} => h[s] = Turn(h[s \ {Max(s)}], list[Max(s)])
    <2> HIDE DEF h, Turn, base
    <2>. QED
        BY <1>2, <1>10
<1> HIDE DEF h, Down, base
<1>12. KeepsTo(h, f, choose, Q, D)
    <2>1. ASSUME NEW s \in SUBSET D, s # {}, h[s \ {choose[s]}] \in Q[s \ {choose[s]}]
          PROVE  h[s] = f[s][h[s \ {choose[s]}]]
        <3>1. s \ {choose[s]} \in SUBSET D /\ choose[s] = Max(s)
            BY <1>5
        <3>2. h[s \ {choose[s]}] \in Seq(T \cap S)
            BY <1>4, <2>1, <3>1
        <3> HIDE DEF Q, f, choose, D, Turn
        <3>. QED
            BY <1>5, <1>11, <2>1, <3>1, <3>2
    <2> HIDE DEF Q, f, choose, D
    <2>. QED
        BY <2>1 DEF KeepsTo
<1> HIDE DEF f, choose, Q, D, g, n
<1>13. \A s \in SUBSET D : h[s] \in Q[s]
    BY <1>2, <1>3, <1>7, <1>11, <1>12, FoldKeeps
<1>14. h[D] \in Left(w, list, S, T, g, D)
    BY <1>2, <1>4, <1>13
<1>. QED
    BY <1>1, <1>2, <1>14 DEF Left, g, D

LEMMA WeighsBrought ==
    ASSUME NEW E, Entrance(E), NEW w, w = [e \in E |-> e.price * e.done], NEW r \in Seq(E)
    PROVE  Weighs(w, r) = Brought(r)
<1> DEFINE D == 1..Len(r)
           f == Weighed(w, r)
           h == Proceeds(r)
<1>1. \A i \in D : f[i] = h[i]
    <2> SUFFICES ASSUME NEW i \in D PROVE f[i] = h[i]
        OBVIOUS
    <2>1. r[i] \in E /\ f[i] = w[r[i]] /\ h[i] = r[i].price * r[i].done
        BY DEF Weighed, Proceeds
    <2>. QED
        BY <2>1
<1>2. D \in FiniteSubsetsOf(D)
    <2>1. Len(r) \in Nat
        OBVIOUS
    <2>2. IsFiniteSet(D)
        BY <2>1, FS_Interval
    <2>. QED
        BY <2>2 DEF FiniteSubsetsOf
<1>3. Weighs(w, r) = SumFunctionOnSet(f, D) /\ Brought(r) = SumFunctionOnSet(h, D)
    BY BroughtIs DEF Weighs
<1> HIDE DEF f, h, D
<1>. QED
    BY <1>1, <1>2, <1>3, SumEqual

\* What leaves a list has brought all it could.
LEMMA PendingFits ==
    ASSUME NEW E, Entrance(E), NEW list, Listing(list, E)
    PROVE  /\ Listing(Pending(list), E) /\ Worth(list) \in Int
           /\ Brought(list) = Worth(list) + Brought(Pending(list))
<1> DEFINE D == 1..Len(list)
           S == {e \in ToSet(list) : ~DoneWith(e)}
           w == [e \in E |-> e.price * e.done]
           q == Among(list, S)
           f == [i \in D |-> IF DoneWith(list[i]) THEN list[i].price * list[i].total ELSE 0]
           g == WeightLeft(w, list, S)
           h == Proceeds(list)
<1>1. /\ list \in Seq(E) /\ Len(list) \in Nat /\ DOMAIN list = D /\ Len(list) <= MaxList
      /\ \A i \in D : list[i] \in E /\ list[i].done <= list[i].total
    BY DEF Listing
<1>2. \A e \in E : /\ e.price \in Nat /\ e.total \in Nat /\ e.done \in Nat
                   /\ e.price * e.done \in Nat /\ e.price * e.total \in Nat
    BY TimesNat DEF Entrance
<1>3. \A e \in E : w[e] = e.price * e.done /\ w[e] \in Int
    BY <1>2
<1>4. \A i \in D : list[i] \in S <=> ~DoneWith(list[i])
    BY <1>1 DEF ToSet
<1>5. Pending(list) = q /\ w = [e \in E |-> e.price * e.done]
    BY DEF Pending
<1>6. Worth(list) = SumFunctionOnSet(f, D)
    BY <1>1 DEF Worth, SumFunction
<1>7. Brought(list) = SumFunctionOnSet(h, D) /\ \A i \in D : h[i] = list[i].price * list[i].done
    BY <1>1, BroughtIs
<1>8. \A i \in D : f[i] \in Int /\ g[i] \in Int /\ h[i] = f[i] + g[i]
    <2> SUFFICES ASSUME NEW i \in D PROVE f[i] \in Int /\ g[i] \in Int /\ h[i] = f[i] + g[i]
        OBVIOUS
    <2> DEFINE e == list[i]
    <2>1. e \in E /\ e.done <= e.total /\ (e \in S <=> ~DoneWith(e))
        BY <1>1, <1>4
    <2>2. /\ f[i] = IF DoneWith(e) THEN e.price * e.total ELSE 0
          /\ h[i] = e.price * e.done
        BY <1>7
    <2>3. g[i] = IF e \in S THEN w[e] ELSE 0
        BY DEF WeightLeft
    <2> HIDE DEF e, S, w, f, g, h, D
    <2>4. CASE DoneWith(e)
        <3>1. e.done = e.total
            BY <1>2, <2>1, <2>4 DEF DoneWith
        <3>2. f[i] = e.price * e.total /\ g[i] = 0 /\ h[i] = e.price * e.total
            BY <2>1, <2>2, <2>3, <2>4, <3>1
        <3>. QED
            BY <1>2, <2>1, <3>2
    <2>5. CASE ~DoneWith(e)
        <3>1. f[i] = 0 /\ g[i] = e.price * e.done /\ h[i] = e.price * e.done
            BY <1>3, <2>1, <2>2, <2>3, <2>5
        <3>. QED
            BY <1>2, <2>1, <3>1
    <2>. QED
        BY <2>4, <2>5
<1>9. D \in FiniteSubsetsOf(D)
    <2>1. IsFiniteSet(D)
        <3>1. Len(list) \in Nat
            BY <1>1
        <3>. QED
            BY ONLY <3>1, FS_Interval
    <2>. QED
        BY <2>1 DEF FiniteSubsetsOf
<1>a. g = WeightLeft(w, list, S) /\ D = 1..Len(list) /\ q = Among(list, S)
    OBVIOUS
<1> HIDE DEF f, g, h, D, S, w, q
<1>10. SumFunctionOnSet(h, D) = SumFunctionOnSet(f, D) + SumFunctionOnSet(g, D)
    BY <1>8, <1>9, SumOfBoth
<1>11. SumFunctionOnSet(f, D) \in Int
    BY <1>8, <1>9, SumType
<1>12. q \in Seq(E \cap S) /\ Len(q) <= Len(list) /\ Weighs(w, q) = SumFunctionOnSet(g, D)
    BY <1>1, <1>3, <1>a, AmongIs
<1>13. q \in Seq(E) /\ \A i \in 1..Len(q) : q[i] \in E \cap S
    BY <1>12
<1>14. Weighs(w, q) = Brought(q)
    BY <1>5, <1>13, WeighsBrought
<1>15. Listing(q, E)
    <2>1. Len(q) <= MaxList
        <3>1. MaxList \in Nat /\ Len(q) \in Nat
            BY <1>13, ShopAssumption
        <3>. QED
            BY <1>1, <1>12, <3>1
    <2>2. \A e \in S : \E i \in D : e = list[i]
        BY <1>1 DEF S, ToSet
    <2>3. \A i \in 1..Len(q) : q[i].done <= q[i].total
        BY <1>1, <1>13, <2>2
    <2>. QED
        BY <1>13, <2>1, <2>3 DEF Listing
<1>. QED
    BY <1>5, <1>6, <1>7, <1>10, <1>11, <1>12, <1>14, <1>15

-----------------------------------------------------------------------------
(* Shops of NPCs.                                                            *)

LEMMA PutsFit ==
    ASSUME NEW m, NEW N, Kept(m, N), NEW p \in Trader, NEW g \in Kind, g # Gold, NEW n \in Nat,
           NEW r, r = PutEach(m, p, g, n)
    PROVE  Onward(m, r, N) /\ GoldStays(m, r)
<1> DEFINE V == {v \in Mem : Onward(m, v, N) /\ GoldStays(m, v)}
           q == [i \in 1..n |-> i]
<1>1. m \in V
    <2>1. m \in Mem /\ Onward(m, m, N) /\ GoldStays(m, m)
        BY DEF Onward, Kept, Mem, GoldStays
    <2>. QED
        BY <2>1
<1>2. ASSUME NEW v \in V
      PROVE  Put(v, p, 0, g, 1) \in V
    <2> DEFINE t == Put(v, p, 0, g, 1)
               o == 0
               one == 1
    <2>1. Onward(m, v, N) /\ GoldStays(m, v) /\ Kept(v, N)
        BY DEF Onward
    <2>a. o \in Nat /\ o = 0 /\ one \in Int /\ one >= 1 /\ (g = Blade => one = 1)
        OBVIOUS
    <2>2. t = Put(v, p, o, g, one)
        OBVIOUS
    <2> HIDE DEF t, o, one
    <2>3. Onward(v, t, N) /\ OthersKeep(v, t, p, g)
        BY <2>1, <2>a, <2>2, PutFits
    <2>4. Onward(m, t, N) /\ t \in Mem
        BY <2>1, <2>3, OnwardTrans DEF Onward, Kept
    <2>5. GoldStays(m, t)
        BY <2>1, <2>3, KindsAre DEF GoldStays, OthersKeep, GetAdena
    <2>. QED
        BY <2>4, <2>5 DEF t
<1>3. DOMAIN q = 1..n /\ r = Placed(p, g, m, q)
    BY DEF PutEach, Placed
<1> HIDE DEF V, q
<1>4. r \in V
    BY <1>1, <1>2, <1>3, PutLoop
<1>. QED
    BY <1>4 DEF V

\* What hands goods over works on.
Given == [mem : Mem, given : BOOLEAN]

\* ItemCreateSystem.GiveItem.
LEMMA GiveFits ==
    ASSUME NEW st \in Given, NEW N, Kept(st.mem, N), NEW p \in Trader, NEW g \in Kind, NEW n \in Int,
           NEW t, t = GiveItem(st, p, g, n)
    PROVE  /\ t \in Given /\ Onward(st.mem, t.mem, N)
           /\ g # Gold => GoldStays(st.mem, t.mem)
<1> DEFINE m == st.mem
           a == Put(m, p, 0, g, n)
           b == PutEach(m, p, g, n)
<1>1. \/ t = [st EXCEPT !.given = FALSE]
      \/ n > 0 /\ g \in Stacks /\ t = [st EXCEPT !.mem = a]
      \/ n > 0 /\ g \notin Stacks /\ t = [st EXCEPT !.mem = b]
    BY DEF GiveItem
<1>2. m \in Mem /\ Onward(m, m, N) /\ GoldStays(m, m) /\ Kept(m, N)
    BY DEF Onward, Kept, Mem, GoldStays
<1>3. \A r \in Mem : [st EXCEPT !.mem = r] \in Given /\ [st EXCEPT !.mem = r].mem = r
    BY DEF Given
<1>4. [st EXCEPT !.given = FALSE] \in Given /\ [st EXCEPT !.given = FALSE].mem = m
    BY DEF Given
<1>5. ASSUME n > 0, g \in Stacks
      PROVE  Onward(m, a, N) /\ (g # Gold => GoldStays(m, a))
    <2> DEFINE o == 0
    <2>1. a = Put(m, p, o, g, n) /\ o \in Nat /\ o = 0 /\ n >= 1 /\ g # Blade
        BY <1>5, KindsAre
    <2> HIDE DEF a, m, o
    <2>2. Onward(m, a, N) /\ OthersKeep(m, a, p, g)
        BY <1>2, <2>1, PutFits
    <2>. QED
        BY <2>2, KindsAre DEF OthersKeep, GoldStays, GetAdena
<1>6. ASSUME n > 0, g \notin Stacks
      PROVE  Onward(m, b, N) /\ GoldStays(m, b)
    <2>1. n \in Nat /\ g # Gold
        BY <1>6, KindsAre
    <2>2. b = PutEach(m, p, g, n)
        OBVIOUS
    <2> HIDE DEF b, m
    <2>. QED
        BY <1>2, <2>1, <2>2, PutsFit
<1>7. \A r : Onward(m, r, N) => r \in Mem
    BY DEF Onward, Kept
<1> HIDE DEF a, b, m
<1>. QED
    BY <1>1, <1>2, <1>3, <1>4, <1>5, <1>6, <1>7 DEF m

\* What is handed over, order by order.
LEMMA HandsFit ==
    ASSUME NEW m, NEW N, Kept(m, N), NEW p \in Trader, NEW n \in Nat, NEW q, DOMAIN q = 1..n,
           \A i \in 1..n : q[i].good \in Kind \ {Gold} /\ q[i].n \in Int,
           NEW st, st = HandedAll(p, [mem |-> m, given |-> TRUE], q)
    PROVE  Onward(m, st.mem, N) /\ GoldStays(m, st.mem)
<1> DEFINE V == {v \in Given : Onward(m, v.mem, N) /\ GoldStays(m, v.mem)}
           base == [mem |-> m, given |-> TRUE]
<1>1. base \in V
    <2>1. m \in Mem /\ Onward(m, m, N) /\ GoldStays(m, m)
        BY DEF Onward, Kept, Mem, GoldStays
    <2>2. base \in Given /\ base.mem = m
        BY <2>1 DEF Given
    <2>. QED
        BY <2>1, <2>2
<1>2. ASSUME NEW i \in 1..n, NEW v \in V
      PROVE  Hand(p, v, q[i]) \in V
    <2> DEFINE t == Hand(p, v, q[i])
               g == q[i].good
               d == q[i].n
    <2>1. v \in Given /\ Onward(m, v.mem, N) /\ GoldStays(m, v.mem) /\ Kept(v.mem, N)
        BY DEF Onward
    <2>2. g \in Kind /\ g # Gold /\ d \in Int
        OBVIOUS
    <2>3. CASE v.given
        <3>1. t = GiveItem(v, p, g, d)
            BY <2>3 DEF Hand
        <3> HIDE DEF t, g, d, V
        <3>2. t \in Given /\ Onward(v.mem, t.mem, N) /\ GoldStays(v.mem, t.mem)
            BY <2>1, <2>2, <3>1, GiveFits
        <3>3. Onward(m, t.mem, N)
            BY <2>1, <3>2, OnwardTrans
        <3>4. GoldStays(m, t.mem)
            BY <2>1, <3>2 DEF GoldStays
        <3>. QED
            BY <3>2, <3>3, <3>4 DEF V, t
    <2>4. CASE ~v.given
        BY <2>4 DEF Hand
    <2>. QED
        BY <2>3, <2>4
<1>3. st = HandedAll(p, base, q)
    OBVIOUS
<1> HIDE DEF V, base
<1>4. st \in V
    BY <1>1, <1>2, <1>3, HandLoop
<1>. QED
    BY <1>4 DEF V

\* What is taken for a sale.
LEMMA TakesFit ==
    ASSUME NEW m, NEW N, Kept(m, N), NEW p \in Trader, NEW n \in Nat, NEW q, DOMAIN q = 1..n,
           \A i \in 1..n : q[i].n \in Nat /\ q[i].n >= 1,
           NEW st, st = TakenAll(p, [mem |-> m, earned |-> 0], q)
    PROVE  Onward(m, st.mem, N) /\ st.mem \in Mem /\ st.earned \in Int
<1> DEFINE R == [mem : Mem, earned : Int]
           V == {v \in R : Onward(m, v.mem, N)}
           base == [mem |-> m, earned |-> 0]
<1>1. base \in V
    <2>1. m \in Mem /\ Onward(m, m, N)
        BY DEF Onward, Kept, Mem
    <2>2. base \in R /\ base.mem = m
        BY <2>1
    <2>. QED
        BY <2>1, <2>2
<1>2. ASSUME NEW i \in 1..n, NEW v \in V
      PROVE  TakeOne(p, v, q[i]) \in V
    <2> DEFINE o == q[i]
               x == CHOOSE y \in v.mem.stock[p] : y.obj = o.obj
               k == Min({o.n, x.n})
               r == Take(v.mem, p, x, k)
               z == v.earned + k * Buys[x.good]
    <2>1. v \in R /\ Onward(m, v.mem, N) /\ Kept(v.mem, N) /\ v.earned \in Int
        BY DEF Onward
    <2>2. CASE o.obj \notin Numbers(v.mem.stock[p]) \/ x.good \notin DOMAIN Buys
        <3>1. TakeOne(p, v, o) = v
            BY <2>2 DEF TakeOne
        <3>. QED
            BY <3>1
    <2>3. CASE ~(o.obj \notin Numbers(v.mem.stock[p]) \/ x.good \notin DOMAIN Buys)
        <3>1. TakeOne(p, v, o) = [mem |-> r, earned |-> z]
            BY <2>3 DEF TakeOne
        <3>2. x \in v.mem.stock[p] /\ x.good \in DOMAIN Buys
            BY <2>3 DEF Numbers
        <3>3. Proper(v.mem.stock[p], v.mem.things, v.mem.burst, N)
            BY <2>1 DEF Kept
        <3>4. x.n \in Int /\ (x.good = Blade => x.n = 1)
            BY <3>2, <3>3 DEF Proper, Thing
        <3>5. o.n \in Nat /\ o.n >= 1
            OBVIOUS
        <3>6. r = Take(v.mem, p, x, k)
            OBVIOUS
        <3>7. k \in Int /\ k <= x.n /\ (x.good = Blade => k = x.n)
            <4> DEFINE a == o.n
                       b == x.n
            <4>1. a \in Int /\ b \in Int /\ k = Min({a, b}) /\ a >= 1 /\ b = x.n
                BY <3>4, <3>5
            <4> HIDE DEF a, b, k, o, x
            <4>2. k \in {a, b} /\ k <= a /\ k <= b
                BY <4>1, MinOfTwo
            <4>. QED
                BY <3>4, <4>1, <4>2
        <3>8. z \in Int
            <4>1. Buys[x.good] \in Int
                BY <3>2, ShopAssumption
            <4>2. \A a, b, c \in Int : a + b * c \in Int
                OBVIOUS
            <4>3. z = v.earned + k * Buys[x.good]
                OBVIOUS
            <4> HIDE DEF k, x, z
            <4>. QED
                BY <2>1, <3>7, <4>1, <4>2, <4>3
        <3>9. Onward(v.mem, r, N)
            <4> DEFINE u == v.mem
            <4>1. Kept(u, N) /\ x \in u.stock[p] /\ r = Take(u, p, x, k)
                BY <2>1, <3>2, <3>6
            <4> HIDE DEF u, x, k, r, o
            <4>2. Onward(u, r, N)
                BY <3>7, <4>1, TakeFits
            <4>. QED
                BY <4>2 DEF u
        <3> HIDE DEF r, z, o, x, k
        <3>10. Onward(m, r, N) /\ r \in Mem
            BY <2>1, <3>9, OnwardTrans DEF Onward, Kept
        <3>11. [mem |-> r, earned |-> z] \in R /\ [mem |-> r, earned |-> z].mem = r
            BY <3>8, <3>10
        <3>. QED
            BY <3>1, <3>10, <3>11 DEF o
    <2>. QED
        BY <2>2, <2>3
<1>3. st = TakenAll(p, base, q)
    OBVIOUS
<1> HIDE DEF V, base
<1>4. st \in V
    BY <1>1, <1>2, <1>3, TakeOneLoop
<1>. QED
    BY <1>4 DEF V

\* A loop of ExecuteBuy or ExecuteSell as it begins.
LEMMA DealtBegins ==
    ASSUME NEW m, NEW N, Kept(m, N), NEW E, Entrance(E), NEW k, Listing(k, E), NEW s \in Trader, NEW c,
           NEW sells
    PROVE  [mem |-> m, list |-> k, next |-> "on"] \in Dealt(m, k, E, N, s, c, sells)
<1> DEFINE base == [mem |-> m, list |-> k, next |-> "on"]
<1>1. m \in Mem /\ Onward(m, m, N) /\ Preserves(m, m) /\ k \in Seq(E)
    BY DEF Onward, Kept, Mem, Preserves, Listing
<1>2. base \in States(E) /\ base.mem = m /\ base.list = k
    BY <1>1 DEF States
<1>3. Balanced(m, k, m, k, s, sells)
    <2>1. Brought(k) \in Nat /\ GetAdena(m.stock[s]) \in Int
        BY <1>1, BroughtIs, PurseIs
    <2>. QED
        BY <2>1 DEF Balanced
<1> HIDE DEF base
<1>4. base \in Dealt(m, k, E, N, s, c, sells)
    BY <1>1, <1>2, <1>3, Zenon DEF Dealt
<1>. QED
    BY <1>4 DEF base

LEMMA SalesFit ==
    ASSUME NEW m, NEW N, Kept(m, N), NEW k, Listing(k, SellEntry(N)), NEW s \in Trader, NEW c \in Trader,
           NEW n \in Nat, NEW q, DOMAIN q = 1..n, \A i \in 1..n : q[i].n \in Nat,
           NEW st, st = SoldAll(c, s, [mem |-> m, list |-> k, next |-> "on"], q)
    PROVE  st \in Dealt(m, k, SellEntry(N), N, s, c, TRUE)
<1> DEFINE V == Dealt(m, k, SellEntry(N), N, s, c, TRUE)
           base == [mem |-> m, list |-> k, next |-> "on"]
<1>1. base \in V
    BY EntriesAre, DealtBegins
<1>2. k \in Seq(SellEntry(N))
    BY DEF Listing
<1>3. \A i \in 1..n : \A v \in V : SellOne(c, s, v, q[i]) \in V
    BY <1>2, SellOneFits
<1>4. st = SoldAll(c, s, base, q)
    OBVIOUS
<1> HIDE DEF V, base
<1>5. st \in V
    BY <1>1, <1>3, <1>4, SellOneLoop
<1>. QED
    BY <1>5 DEF V

LEMMA PurchasesFit ==
    ASSUME NEW m, NEW N, Kept(m, N), NEW k, Listing(k, BuyEntry), NEW s \in Trader, NEW c \in Trader,
           NEW n \in Nat, NEW q, DOMAIN q = 1..n, \A i \in 1..n : q[i].n \in Nat,
           NEW st, st = BoughtAll(c, s, [mem |-> m, list |-> k, next |-> "on"], q)
    PROVE  st \in Dealt(m, k, BuyEntry, N, s, c, FALSE)
<1> DEFINE V == Dealt(m, k, BuyEntry, N, s, c, FALSE)
           base == [mem |-> m, list |-> k, next |-> "on"]
<1>1. base \in V
    BY EntriesAre, DealtBegins
<1>2. k \in Seq(BuyEntry)
    BY DEF Listing
<1>3. \A i \in 1..n : \A v \in V : BuyOne(c, s, v, q[i]) \in V
    BY <1>2, BuyOneFits
<1>4. st = BoughtAll(c, s, base, q)
    OBVIOUS
<1> HIDE DEF V, base
<1>5. st \in V
    BY <1>1, <1>3, <1>4, BuyOneLoop
<1>. QED
    BY <1>5 DEF V

-----------------------------------------------------------------------------
(* The inductive invariant of the shops.                                     *)

Account(r) == r.taken = r.cleared + Brought(r.sell) - Brought(r.buy)
\* A shop as it should be: b tells whether a count has wrapped, N which objects lists may name.
GoodShop(r, b, N) ==
    /\ r \in [open : BOOLEAN, sell : Seq(SellEntry(N)), buy : Seq(BuyEntry),
              taken : Int, cleared : Int, self : BOOLEAN]
    /\ Listing(r.sell, SellEntry(N)) /\ Listing(r.buy, BuyEntry)
    /\ ~b /\ ~r.self => Account(r)
GoodShops(all, b, N) == DOMAIN all = Trader /\ all = [p \in Trader |-> all[p]] /\ \A p \in Trader : GoodShop(all[p], b, N)

\* No gold is numbered as something on a list.
ShopInv ==
    /\ worn \in [Trader -> SUBSET Nat] /\ glanced \in [Trader -> 0..MaxList]
    /\ visits \in Nat /\ taxes \in Nat
    /\ \E N \in SUBSET Nat : Kept(Memory, N) /\ GoodShops(shop, burst, N)

LEMMA EmptyBrings == Brought(<<>>) = 0
<1>1. DOMAIN <<>> = {} /\ \A f : f = [i \in {} |-> f[i]] => DOMAIN f = {}
    OBVIOUS
<1> DEFINE f == [i \in DOMAIN <<>> |-> <<>>[i].price * <<>>[i].done]
<1>2. Brought(<<>>) = SumFunctionOnSet(f, DOMAIN f) /\ DOMAIN f = {}
    BY DEF Brought, SumFunction
<1> HIDE DEF f
<1>. QED
    BY <1>2, SumEmpty

LEMMA ClosedIsGood == \A b, N : GoodShop(Closed, b, N)
<1> SUFFICES ASSUME NEW b, NEW N PROVE GoodShop(Closed, b, N)
    OBVIOUS
<1>1. \A E : <<>> \in Seq(E) /\ Len(<<>>) = 0 /\ 1..Len(<<>>) = {}
    OBVIOUS
<1>2. 0 <= MaxList
    BY ShopAssumption
<1>3. \A E : Listing(<<>>, E)
    BY <1>1, <1>2 DEF Listing
<1>4. /\ Closed.open = FALSE /\ Closed.sell = <<>> /\ Closed.buy = <<>> /\ Closed.taken = 0
      /\ Closed.cleared = 0
    BY DEF Closed
<1>5. Account(Closed)
    BY <1>4, EmptyBrings DEF Account
<1>6. Closed \in [open : BOOLEAN, sell : Seq(SellEntry(N)), buy : Seq(BuyEntry),
                  taken : Int, cleared : Int, self : BOOLEAN]
    BY <1>1 DEF Closed
<1>. QED
    BY <1>3, <1>4, <1>5, <1>6, Zenon DEF GoodShop

\* A finite set of goods has a greatest number.
LEMMA NumbersEnd ==
    ASSUME NEW S \in SUBSET Thing, IsFiniteSet(S)
    PROVE  \E b \in Nat : \A x \in S : x.obj <= b
<1> DEFINE G == {T \in FiniteSubsetsOf(Thing) : \E b \in Nat : \A x \in T : x.obj <= b}
<1>1. {} \in G
    <2>1. \E b \in Nat : \A x \in {} : x.obj <= b
        <3>1. 0 \in Nat
            OBVIOUS
        <3>. QED
            BY <3>1
    <2>. QED
        BY <2>1, FS_EmptySet DEF FiniteSubsetsOf
<1>2. ASSUME NEW T \in FiniteSubsetsOf(Thing), T # {}, \A R \in SUBSET T : R # T => R \in G
      PROVE  T \in G
    <2>1. PICK e : e \in T
        BY <1>2
    <2>2. T \ {e} \in G
        BY <1>2, <2>1
    <2>3. PICK b \in Nat : \A x \in T \ {e} : x.obj <= b
        BY <2>2
    <2>4. T \subseteq Thing
        BY DEF FiniteSubsetsOf
    <2>5. \A x \in T : x.obj \in Nat
        BY <2>4 DEF Thing
    <2>6. b + e.obj \in Nat /\ \A x \in T : x.obj <= b + e.obj
        <3>1. e.obj \in Nat
            BY <2>1, <2>5
        <3>2. \A x \in T : x # e => x.obj <= b
            BY <2>3
        <3> HIDE DEF G
        <3>. QED
            BY <2>5, <3>1, <3>2
    <2>. QED
        BY <2>6
<1>3. FiniteSubsetsOf(Thing) \subseteq G
    <2> HIDE DEF G
    <2>. QED
        BY <1>1, <1>2, FiniteInduction
<1>4. S \in FiniteSubsetsOf(Thing)
    BY DEF FiniteSubsetsOf
<1>. QED
    BY <1>3, <1>4

LEMMA FirstNumbersEnd == \E b \in Nat : \A p \in Trader : \A x \in FirstStock[p] : x.obj <= b
<1> DEFINE G == {T \in FiniteSubsetsOf(Trader) : \E b \in Nat : \A p \in T : \A x \in FirstStock[p] : x.obj <= b}
<1>1. {} \in G
    <2>1. \E b \in Nat : \A p \in {} : \A x \in FirstStock[p] : x.obj <= b
        <3>1. 0 \in Nat
            OBVIOUS
        <3>. QED
            BY <3>1
    <2>. QED
        BY <2>1, FS_EmptySet DEF FiniteSubsetsOf
<1>2. ASSUME NEW T \in FiniteSubsetsOf(Trader), T # {}, \A R \in SUBSET T : R # T => R \in G
      PROVE  T \in G
    <2>1. PICK e : e \in T
        BY <1>2
    <2>2. T \ {e} \in G
        BY <1>2, <2>1
    <2>3. PICK b \in Nat : \A p \in T \ {e} : \A x \in FirstStock[p] : x.obj <= b
        BY <2>2
    <2>4. T \subseteq Trader
        BY DEF FiniteSubsetsOf
    <2>5. \A p \in T : IsFiniteSet(FirstStock[p]) /\ FirstStock[p] \in SUBSET Thing
        BY <2>4, ShopAssumption
    <2>6. PICK c \in Nat : \A x \in FirstStock[e] : x.obj <= c
        BY <2>1, <2>5, NumbersEnd
    <2>7. \A p \in T : \A x \in FirstStock[p] : x.obj \in Nat
        BY <2>5 DEF Thing
    <2>8. b + c \in Nat /\ \A p \in T : \A x \in FirstStock[p] : x.obj <= b + c
        <3>1. \A p \in T : p # e => \A x \in FirstStock[p] : x.obj <= b
            BY <2>3
        <3>2. \A i \in Nat : (i <= b => i <= b + c) /\ (i <= c => i <= b + c)
            OBVIOUS
        <3>3. b + c \in Nat
            OBVIOUS
        <3> HIDE DEF G
        <3>. QED
            BY <2>6, <2>7, <3>1, <3>2, <3>3
    <2>. QED
        BY <2>8
<1>3. FiniteSubsetsOf(Trader) \subseteq G
    <2> HIDE DEF G
    <2>. QED
        BY <1>1, <1>2, FiniteInduction
<1>4. Trader \in FiniteSubsetsOf(Trader)
    BY ShopAssumption DEF FiniteSubsetsOf
<1>. QED
    BY <1>3, <1>4

LEMMA ShopBegins == ShopInit => ShopInv
<1> SUFFICES ASSUME ShopInit PROVE ShopInv
    OBVIOUS
<1> DEFINE A == UNION {stock[p] : p \in Trader}
           B == {0} \cup {x.obj : x \in A}
<1>1. /\ stock = FirstStock /\ FirstStock \in [Trader -> SUBSET Thing]
      /\ \A p \in Trader :
          /\ IsFiniteSet(FirstStock[p])
          /\ \A x \in FirstStock[p] :
                /\ x.obj >= 1 /\ x.n >= 1 /\ (x.good = Blade => x.n = 1)
                /\ \A q \in Trader : \A y \in FirstStock[q] :
                      /\ x.obj = y.obj => p = q /\ x = y
                      /\ p = q /\ x.good = y.good /\ x.good # Blade => x = y
    BY ShopAssumption DEF ShopInit
<1>2. \A p \in Trader : \A x \in stock[p] : x.obj \in B /\ x.obj \in Nat /\ x \in Thing
    BY <1>1 DEF Thing
<1>3. PICK b \in Nat : \A p \in Trader : \A x \in stock[p] : x.obj <= b
    BY <1>1, FirstNumbersEnd
<1>4. B \in SUBSET Nat /\ B # {} /\ \A i \in B : i <= b
    BY <1>2, <1>3
<1>5. things = Max(B)
    BY DEF ShopInit
<1>6. burst = FALSE /\ visits = 0 /\ taxes = 0
    BY DEF ShopInit
<1> HIDE DEF B
<1>7. things \in Nat /\ \A i \in B : i <= things
    BY <1>4, <1>5, GreatestNumber
<1>8. \A p \in Trader : \A x \in stock[p] : x.obj \in 1..things
    BY <1>1, <1>2, <1>7
<1>9. /\ Memory.stock = stock /\ Memory.things = things /\ Memory.burst = FALSE /\ Memory \in Mem
    BY <1>1, <1>6, <1>7 DEF Memory, Mem
<1>10. ASSUME NEW p \in Trader PROVE Proper(stock[p], things, FALSE, {})
    BY <1>1, <1>8 DEF Proper
<1>a. \A p, q \in Trader : p # q => \A x \in stock[p], y \in stock[q] : x.obj # y.obj
    BY <1>1
<1>11. Kept(Memory, {})
    <2> DEFINE m == Memory
    <2>1. m.stock = stock /\ m.things = things /\ m.burst = FALSE /\ m \in Mem
        BY <1>9
    <2> HIDE DEF m
    <2>2. Kept(m, {})
        BY <1>10, <1>a, <2>1 DEF Kept
    <2>. QED
        BY <2>2 DEF m
<1>12. GoodShops(shop, burst, {})
    BY ClosedIsGood DEF GoodShops, ShopInit
<1>13. /\ worn \in [Trader -> SUBSET Nat] /\ glanced \in [Trader -> 0..MaxList]
       /\ visits \in Nat /\ taxes \in Nat
    <2>1. 0 \in 0..MaxList
        BY ShopAssumption
    <2>. QED
        BY <1>6, <2>1 DEF ShopInit
<1>14. {} \in SUBSET Nat
    OBVIOUS
<1>. QED
    BY <1>11, <1>12, <1>13, <1>14 DEF ShopInv

-----------------------------------------------------------------------------
(* Steps.                                                                    *)

LEMMA WiderLists ==
    ASSUME NEW N, NEW M, N \subseteq M, NEW l, Listing(l, SellEntry(N))
    PROVE  Listing(l, SellEntry(M))
<1>1. SellEntry(N) \subseteq SellEntry(M)
    BY DEF SellEntry
<1>2. ASSUME NEW A, NEW B, A \subseteq B, NEW q \in Seq(A)
      PROVE  q \in Seq(B)
    BY <1>2
<1> DEFINE A == SellEntry(N)
           B == SellEntry(M)
<1>3. A \subseteq B /\ l \in Seq(A)
    BY <1>1 DEF Listing
<1> HIDE DEF A, B
<1>4. l \in Seq(B)
    BY <1>2, <1>3
<1>. QED
    BY <1>4 DEF Listing, B

LEMMA GoodShopStays ==
    ASSUME NEW r, NEW b, NEW c, b => c, NEW N, NEW M, N \subseteq M, GoodShop(r, b, N)
    PROVE  GoodShop(r, c, M)
<1>1. /\ r \in [open : BOOLEAN, sell : Seq(SellEntry(N)), buy : Seq(BuyEntry),
                taken : Int, cleared : Int, self : BOOLEAN]
      /\ Listing(r.sell, SellEntry(N)) /\ Listing(r.buy, BuyEntry)
      /\ ~b /\ ~r.self => Account(r)
    BY DEF GoodShop
<1>2. Listing(r.sell, SellEntry(M))
    <2> DEFINE l == r.sell
    <2>1. Listing(l, SellEntry(N))
        BY <1>1
    <2> HIDE DEF l
    <2>2. Listing(l, SellEntry(M))
        BY <2>1, WiderLists
    <2>. QED
        BY <2>2 DEF l
<1>3. r.sell \in Seq(SellEntry(M))
    BY <1>2 DEF Listing
<1>4. r \in [open : BOOLEAN, sell : Seq(SellEntry(M)), buy : Seq(BuyEntry),
             taken : Int, cleared : Int, self : BOOLEAN]
    BY <1>1, <1>3
<1>. QED
    BY <1>1, <1>2, <1>4, Zenon DEF GoodShop

LEMMA ShopsChange ==
    ASSUME NEW all, NEW b, NEW c, b => c, NEW N, NEW M, N \subseteq M, GoodShops(all, b, N),
           NEW p \in Trader, NEW r, GoodShop(r, c, M), NEW new, new = [all EXCEPT ![p] = r]
    PROVE  GoodShops(new, c, M)
<1>1. DOMAIN all = Trader /\ all = [q \in Trader |-> all[q]] /\ \A q \in Trader : GoodShop(all[q], b, N)
    BY DEF GoodShops
<1>2. \A q \in Trader : GoodShop(all[q], c, M)
    BY <1>1, GoodShopStays
<1>3. DOMAIN new = Trader /\ new = [q \in Trader |-> new[q]] /\ new[p] = r /\ \A q \in Trader : q # p => new[q] = all[q]
    BY <1>1
<1>4. ASSUME NEW q \in Trader PROVE GoodShop(new[q], c, M)
    <2>1. CASE q = p
        BY <1>3, <2>1
    <2>2. CASE q # p
        BY <1>2, <1>3, <2>2
    <2>. QED
        BY <2>1, <2>2
<1>. QED
    BY <1>3, <1>4, Zenon DEF GoodShops

LEMMA ShopsStay ==
    ASSUME NEW all, NEW b, NEW c, b => c, NEW N, NEW M, N \subseteq M, GoodShops(all, b, N)
    PROVE  GoodShops(all, c, M)
<1>1. DOMAIN all = Trader /\ all = [q \in Trader |-> all[q]] /\ \A q \in Trader : GoodShop(all[q], b, N)
    BY DEF GoodShops
<1>2. \A q \in Trader : GoodShop(all[q], c, M)
    BY <1>1, GoodShopStays
<1>. QED
    BY <1>1, <1>2, Zenon DEF GoodShops

\* What a step keeps to.
StepFits == ShopInv' /\ Conserved /\ TaxFits

\* Nothing carried changes.
LEMMA QuietStep ==
    ASSUME ShopInv, UNCHANGED <<stock, things, visits, taxes, burst>>,
           worn' \in [Trader -> SUBSET Nat], glanced' \in [Trader -> 0..MaxList],
           NEW N \in SUBSET Nat, Kept(Memory, N), GoodShops(shop', burst, N)
    PROVE  StepFits
<1>1. Memory' = Memory
    BY DEF Memory
<1>2. visits' \in Nat /\ taxes' \in Nat /\ ~(taxes' > taxes) /\ stock' = stock /\ burst' = burst
    BY DEF ShopInv
<1>3. Kept(Memory', N) /\ GoodShops(shop', burst', N)
    BY <1>1, <1>2
<1>4. ShopInv'
    BY <1>2, <1>3 DEF ShopInv
<1>. QED
    BY <1>2, <1>4 DEF StepFits, Conserved, TaxFits

\* Goods change hands between players.
LEMMA MovingStep ==
    ASSUME ShopInv, UNCHANGED <<worn, glanced, visits, taxes>>,
           NEW N \in SUBSET Nat, NEW m, Onward(Memory, m, N), Preserves(Memory, m), Store(m),
           GoodShops(shop', m.burst, N)
    PROVE  StepFits
<1>1. m \in Mem /\ Kept(m, N)
    BY DEF Onward, Kept
<1>2. stock' = m.stock /\ things' = m.things /\ burst' = m.burst
    BY DEF Store
<1>3. Memory' = m
    BY <1>1, <1>2 DEF Memory, Mem
<1>4. ShopInv'
    BY <1>1, <1>2, <1>3 DEF ShopInv
<1>5. Conserved
    <2>1. Memory.stock = stock
        BY DEF Memory
    <2>2. ~m.burst => \A g \in Kind : SupplyOf(m.stock, g) = SupplyOf(stock, g)
        BY <2>1 DEF Preserves
    <2>3. \A g \in Kind : Supply(g) = SupplyOf(stock, g) /\ Supply(g)' = SupplyOf(m.stock, g)
        BY <1>2 DEF Supply, SupplyOf
    <2>. QED
        BY <1>2, <2>2, <2>3 DEF Conserved
<1>6. TaxFits
    <2>1. ~(taxes' > taxes)
        BY DEF ShopInv
    <2>. QED
        BY <2>1 DEF TaxFits
<1>. QED
    BY <1>4, <1>5, <1>6 DEF StepFits

LEMMA CloseShopFits == ASSUME ShopInv, NEW p \in Trader, CloseShop(p) PROVE StepFits
<1>1. PICK N \in SUBSET Nat : Kept(Memory, N) /\ GoodShops(shop, burst, N)
    BY DEF ShopInv
<1>2. shop' = [shop EXCEPT ![p] = Closed] /\ UNCHANGED <<stock, worn, glanced, things, visits, taxes, burst>>
    BY DEF CloseShop
<1>3. GoodShops(shop', burst, N)
    BY <1>1, <1>2, ClosedIsGood, ShopsChange
<1>4. worn' \in [Trader -> SUBSET Nat] /\ glanced' \in [Trader -> 0..MaxList]
    BY <1>2 DEF ShopInv
<1>. QED
    BY <1>1, <1>2, <1>3, <1>4, QuietStep

LEMMA RelogFits == ASSUME ShopInv, NEW p \in Trader, Relog(p) PROVE StepFits
<1>1. PICK N \in SUBSET Nat : Kept(Memory, N) /\ GoodShops(shop, burst, N)
    BY DEF ShopInv
<1>2. /\ shop' = [shop EXCEPT ![p] = Closed] /\ glanced' = [glanced EXCEPT ![p] = 0]
      /\ UNCHANGED <<stock, worn, things, visits, taxes, burst>>
    BY DEF Relog
<1>3. GoodShops(shop', burst, N)
    BY <1>1, <1>2, ClosedIsGood, ShopsChange
<1>4. worn' \in [Trader -> SUBSET Nat] /\ glanced' \in [Trader -> 0..MaxList]
    <2>1. 0 \in 0..MaxList
        BY ShopAssumption
    <2>. QED
        BY <1>2, <2>1 DEF ShopInv
<1>. QED
    BY <1>1, <1>2, <1>3, <1>4, QuietStep

LEMMA BrowseFits == ASSUME ShopInv, NEW p \in Trader, NEW s \in Trader, Browse(p, s) PROVE StepFits
<1>1. PICK N \in SUBSET Nat : Kept(Memory, N) /\ GoodShops(shop, burst, N)
    BY DEF ShopInv
<1>2. /\ glanced' = [glanced EXCEPT ![p] = Len(shop[s].sell)]
      /\ UNCHANGED <<stock, worn, shop, things, visits, taxes, burst>>
    BY DEF Browse
<1>3. Len(shop[s].sell) \in 0..MaxList
    <2>1. Listing(shop[s].sell, SellEntry(N))
        BY <1>1 DEF GoodShops, GoodShop
    <2>2. shop[s].sell \in Seq(SellEntry(N)) /\ Len(shop[s].sell) <= MaxList
        BY <2>1 DEF Listing
    <2>3. Len(shop[s].sell) \in Nat /\ MaxList \in Nat
        BY <2>2, ShopAssumption
    <2>. QED
        BY <2>2, <2>3
<1>4. worn' \in [Trader -> SUBSET Nat] /\ glanced' \in [Trader -> 0..MaxList]
    BY <1>2, <1>3 DEF ShopInv
<1>. QED
    BY <1>1, <1>2, <1>4, QuietStep

LEMMA EquipWeaponFits ==
    ASSUME ShopInv, NEW p \in Trader, NEW x, EquipWeapon(p, x)
    PROVE  StepFits
<1>1. PICK N \in SUBSET Nat : Kept(Memory, N) /\ GoodShops(shop, burst, N)
    BY DEF ShopInv
<1>2. /\ x \in stock[p] /\ worn' = [worn EXCEPT ![p] = IF x.obj \in @ THEN @ \ {x.obj} ELSE {x.obj}]
      /\ UNCHANGED <<stock, shop, glanced, things, visits, taxes, burst>>
    BY DEF EquipWeapon
<1>3. x.obj \in Nat
    <2>1. Memory.stock = stock
        BY DEF Memory
    <2>2. x \in Thing
        BY <1>1, <1>2, <2>1, KeptIs
    <2>. QED
        BY <2>2 DEF Thing
<1>4. worn' \in [Trader -> SUBSET Nat] /\ glanced' \in [Trader -> 0..MaxList]
    BY <1>2, <1>3 DEF ShopInv
<1>. QED
    BY <1>1, <1>2, <1>4, QuietStep

LEMMA HandOverFits ==
    ASSUME ShopInv, NEW p \in Trader, NEW q \in Trader, NEW x, HandOver(p, q, x)
    PROVE  StepFits
<1>1. PICK N \in SUBSET Nat : Kept(Memory, N) /\ GoodShops(shop, burst, N)
    BY DEF ShopInv
<1> DEFINE m == Memory
           n == x.n
           r == TransferItem(m, p, q, x, n)
<1>2. m.stock = stock /\ m.burst = burst
    BY DEF Memory
<1>3. x \in m.stock[p] /\ Store(r) /\ UNCHANGED <<worn, shop, glanced, visits, taxes>>
    BY <1>2 DEF HandOver
<1>4. n \in Int /\ n <= x.n /\ (x.good = Blade => n = x.n) /\ (~m.burst => n >= 1)
    <2>1. x \in Thing /\ (~m.burst => x.n >= 1)
        BY <1>1, <1>3, KeptIs DEF Proper
    <2>2. x.n \in Int
        BY <2>1 DEF Thing
    <2>. QED
        BY <2>1, <2>2
<1>5. r = TransferItem(m, p, q, x, n) /\ Kept(m, N)
    BY <1>1
<1> HIDE DEF n, r, m
<1>6. Onward(m, r, N) /\ Preserves(m, r)
    BY <1>3, <1>4, <1>5, TransferItemFits
<1>7. GoodShops(shop', r.burst, N)
    <2>1. burst => r.burst
        BY <1>2, <1>6 DEF Onward
    <2>. QED
        BY <1>1, <1>3, <2>1, ShopsStay
<1>. QED
    BY <1>3, <1>6, <1>7, MovingStep DEF m

\* The books of a shop whose purse gained g, after entries that brought w were done with.
Books(r, sell, buy, g, w, c, s) ==
    [open |-> TRUE, sell |-> sell, buy |-> buy, taken |-> r.taken + g, cleared |-> r.cleared + w,
     self |-> r.self \/ c = s]

LEMMA GoodShopIs ==
    ASSUME NEW r, NEW b, NEW N, GoodShop(r, b, N)
    PROVE  /\ r.open \in BOOLEAN /\ r.taken \in Int /\ r.cleared \in Int /\ r.self \in BOOLEAN
           /\ r.sell \in Seq(SellEntry(N)) /\ Listing(r.sell, SellEntry(N)) /\ Brought(r.sell) \in Nat
           /\ r.buy \in Seq(BuyEntry) /\ Listing(r.buy, BuyEntry) /\ Brought(r.buy) \in Nat
           /\ ~b /\ ~r.self => r.taken = r.cleared + Brought(r.sell) - Brought(r.buy)
<1>1. /\ r \in [open : BOOLEAN, sell : Seq(SellEntry(N)), buy : Seq(BuyEntry),
                taken : Int, cleared : Int, self : BOOLEAN]
      /\ Listing(r.sell, SellEntry(N)) /\ Listing(r.buy, BuyEntry)
      /\ ~b /\ ~r.self => Account(r)
    BY DEF GoodShop
<1>2. /\ r.open \in BOOLEAN /\ r.taken \in Int /\ r.cleared \in Int /\ r.self \in BOOLEAN
      /\ r.sell \in Seq(SellEntry(N)) /\ r.buy \in Seq(BuyEntry)
    BY <1>1
<1>3. Brought(r.sell) \in Nat /\ Brought(r.buy) \in Nat
    <2> DEFINE l == r.sell
               k == r.buy
    <2>1. l \in Seq(SellEntry(N)) /\ k \in Seq(BuyEntry)
        BY <1>2
    <2> HIDE DEF l, k
    <2>2. Brought(l) \in Nat /\ Brought(k) \in Nat
        BY <2>1, EntriesAre, BroughtIs
    <2>. QED
        BY <2>2 DEF l, k
<1>. QED
    BY <1>1, <1>2, <1>3 DEF Account

LEMMA SoldBooks ==
    ASSUME NEW r, NEW b, NEW N, GoodShop(r, b, N), NEW m, Kept(m, N), m.burst = b,
           NEW s \in Trader, NEW c, NEW k, k = r.sell,
           NEW st, st \in Dealt(m, k, SellEntry(N), N, s, c, TRUE),
           NEW l, NEW w \in Int, Listing(l, SellEntry(N)), Brought(st.list) = w + Brought(l),
           NEW g, g = GetAdena(st.mem.stock[s]) - GetAdena(m.stock[s])
    PROVE  GoodShop(Books(r, l, r.buy, g, w, c, s), st.mem.burst, N)
<1> DEFINE z == Books(r, l, r.buy, g, w, c, s)
<1>1. /\ r.open \in BOOLEAN /\ r.taken \in Int /\ r.cleared \in Int /\ r.self \in BOOLEAN
      /\ r.sell \in Seq(SellEntry(N)) /\ Listing(r.sell, SellEntry(N)) /\ Brought(r.sell) \in Nat
      /\ r.buy \in Seq(BuyEntry) /\ Listing(r.buy, BuyEntry) /\ Brought(r.buy) \in Nat
      /\ ~b /\ ~r.self => r.taken = r.cleared + Brought(r.sell) - Brought(r.buy)
    BY GoodShopIs
<1>2. /\ Onward(m, st.mem, N)
      /\ s # c /\ ~st.mem.burst => GetAdena(st.mem.stock[s]) - GetAdena(m.stock[s]) = Brought(st.list) - Brought(k)
    BY DEF Dealt, Balanced
<1>3. Kept(st.mem, N) /\ (b => st.mem.burst)
    BY <1>2 DEF Onward
<1>4. g \in Int
    BY <1>3, PurseIs
<1>5. l \in Seq(SellEntry(N)) /\ Brought(l) \in Nat
    <2>1. l \in Seq(SellEntry(N))
        BY DEF Listing
    <2>. QED
        BY <2>1, EntriesAre, BroughtIs
<1>6. /\ z.sell = l /\ z.buy = r.buy /\ z.taken = r.taken + g /\ z.cleared = r.cleared + w
      /\ z.self = (r.self \/ c = s)
    BY DEF Books
<1>7. z \in [open : BOOLEAN, sell : Seq(SellEntry(N)), buy : Seq(BuyEntry),
             taken : Int, cleared : Int, self : BOOLEAN]
    <2>1. r.taken + g \in Int /\ r.cleared + w \in Int /\ (r.self \/ c = s) \in BOOLEAN
        BY <1>1, <1>4
    <2>. QED
        BY <1>1, <1>5, <2>1 DEF Books
<1>8. ASSUME ~st.mem.burst, ~z.self
      PROVE  Account(z)
    <2>1. ~b /\ ~r.self /\ s # c
        BY <1>3, <1>6, <1>8
    <2>2. r.taken = r.cleared + Brought(r.sell) - Brought(r.buy) /\ g = (w + Brought(l)) - Brought(r.sell)
        BY <1>1, <1>2, <1>8, <2>1
    <2> DEFINE x == Brought(l)
               y == Brought(r.sell)
               a == Brought(r.buy)
               t == r.taken
               v == r.cleared
    <2>3. t + g = v + w + x - a
        <3>1. t \in Int /\ v \in Int /\ x \in Int /\ y \in Int /\ a \in Int /\ t = v + y - a /\ g = (w + x) - y
            BY <1>1, <1>5, <2>2
        <3> HIDE DEF x, y, a, t, v
        <3>. QED
            BY <1>4, <3>1
    <2>4. z.taken = t + g /\ z.cleared = v + w /\ Brought(z.sell) = x /\ Brought(z.buy) = a
        BY <1>6
    <2> HIDE DEF z, x, y, a, t, v
    <2>. QED
        BY <2>3, <2>4 DEF Account
<1>9. Listing(z.sell, SellEntry(N)) /\ Listing(z.buy, BuyEntry)
    BY <1>1, <1>6
<1> HIDE DEF z
<1>10. GoodShop(z, st.mem.burst, N)
    BY <1>7, <1>8, <1>9, Zenon DEF GoodShop
<1>. QED
    BY <1>10 DEF z

LEMMA BoughtBooks ==
    ASSUME NEW r, NEW b, NEW N, GoodShop(r, b, N), NEW m, Kept(m, N), m.burst = b,
           NEW s \in Trader, NEW c, NEW k, k = r.buy,
           NEW st, st \in Dealt(m, k, BuyEntry, N, s, c, FALSE),
           NEW l, NEW w \in Int, NEW v, v = -w, Listing(l, BuyEntry), Brought(st.list) = w + Brought(l),
           NEW g, g = GetAdena(st.mem.stock[s]) - GetAdena(m.stock[s])
    PROVE  GoodShop(Books(r, r.sell, l, g, v, c, s), st.mem.burst, N)
<1> DEFINE z == Books(r, r.sell, l, g, v, c, s)
<1>1. /\ r.open \in BOOLEAN /\ r.taken \in Int /\ r.cleared \in Int /\ r.self \in BOOLEAN
      /\ r.sell \in Seq(SellEntry(N)) /\ Listing(r.sell, SellEntry(N)) /\ Brought(r.sell) \in Nat
      /\ r.buy \in Seq(BuyEntry) /\ Listing(r.buy, BuyEntry) /\ Brought(r.buy) \in Nat
      /\ ~b /\ ~r.self => r.taken = r.cleared + Brought(r.sell) - Brought(r.buy)
    BY GoodShopIs
<1>2. /\ Onward(m, st.mem, N)
      /\ s # c /\ ~st.mem.burst => GetAdena(st.mem.stock[s]) - GetAdena(m.stock[s]) = Brought(k) - Brought(st.list)
    BY DEF Dealt, Balanced
<1>3. Kept(st.mem, N) /\ (b => st.mem.burst)
    BY <1>2 DEF Onward
<1>4. g \in Int
    BY <1>3, PurseIs
<1>5. l \in Seq(BuyEntry) /\ Brought(l) \in Nat
    <2>1. l \in Seq(BuyEntry)
        BY DEF Listing
    <2>. QED
        BY <2>1, EntriesAre, BroughtIs
<1>6. /\ z.sell = r.sell /\ z.buy = l /\ z.taken = r.taken + g /\ z.cleared = r.cleared + v
      /\ z.self = (r.self \/ c = s)
    BY DEF Books
<1>7. z \in [open : BOOLEAN, sell : Seq(SellEntry(N)), buy : Seq(BuyEntry),
             taken : Int, cleared : Int, self : BOOLEAN]
    <2>1. r.taken + g \in Int /\ r.cleared + v \in Int /\ (r.self \/ c = s) \in BOOLEAN
        BY <1>1, <1>4
    <2>. QED
        BY <1>1, <1>5, <2>1 DEF Books
<1>8. ASSUME ~st.mem.burst, ~z.self
      PROVE  Account(z)
    <2>1. ~b /\ ~r.self /\ s # c
        BY <1>3, <1>6, <1>8
    <2>2. r.taken = r.cleared + Brought(r.sell) - Brought(r.buy) /\ g = Brought(r.buy) - (w + Brought(l))
        BY <1>1, <1>2, <1>8, <2>1
    <2> DEFINE x == Brought(l)
               y == Brought(r.buy)
               a == Brought(r.sell)
               t == r.taken
               u == r.cleared
    <2>3. t + g = (u + v) + a - x
        <3>1. t \in Int /\ u \in Int /\ x \in Int /\ y \in Int /\ a \in Int /\ t = u + a - y /\ g = y - (w + x)
            BY <1>1, <1>5, <2>2
        <3> HIDE DEF x, y, a, t, u
        <3>. QED
            BY <1>4, <3>1
    <2>4. z.taken = t + g /\ z.cleared = u + v /\ Brought(z.sell) = a /\ Brought(z.buy) = x
        BY <1>6
    <2> HIDE DEF z, x, y, a, t, u
    <2>. QED
        BY <2>3, <2>4 DEF Account
<1>9. Listing(z.sell, SellEntry(N)) /\ Listing(z.buy, BuyEntry)
    BY <1>1, <1>6
<1> HIDE DEF z
<1>10. GoodShop(z, st.mem.burst, N)
    BY <1>7, <1>8, <1>9, Zenon DEF GoodShop
<1>. QED
    BY <1>10 DEF z

LEMMA OrdersAre ==
    ASSUME NEW T, NEW o, o \in Lists(T)
    PROVE  \E n \in Nat : n <= MaxList /\ DOMAIN o = 1..n /\ o \in [1..n -> T]
<1>1. PICK n \in 0..MaxList : o \in [1..n -> T]
    BY DEF Lists
<1>2. n \in Nat /\ n <= MaxList
    BY ShopAssumption
<1>. QED
    BY <1>1, <1>2

LEMMA SweptIsGood ==
    ASSUME NEW r, NEW b, NEW N, GoodShop(r, b, N)
    PROVE  GoodShop(Swept(r), b, N)
BY ClosedIsGood DEF Swept

LEMMA ExecuteBuyFits ==
    ASSUME ShopInv, NEW c \in Trader, NEW s \in Trader,
           NEW o \in Orders([at : DOMAIN shop[s].sell, n : 1..2, log : BOOLEAN]), ExecuteBuy(c, s, o)
    PROVE  StepFits
<1>1. PICK N \in SUBSET Nat : Kept(Memory, N) /\ GoodShops(shop, burst, N)
    BY DEF ShopInv
<1> DEFINE m == Memory
           k == shop[s].sell
           E == SellEntry(N)
           st == SoldAll(c, s, [mem |-> m, list |-> k, next |-> "on"], o)
           r == shop[s]
           l == st.list
           g == GetAdena(st.mem.stock[s]) - GetAdena(m.stock[s])
<1>2. PICK n \in Nat : DOMAIN o = 1..n /\ \A i \in 1..n : o[i].n \in Nat
    <2>1. PICK n \in Nat : DOMAIN o = 1..n /\ o \in [1..n -> [at : DOMAIN shop[s].sell, n : 1..2, log : BOOLEAN]]
        BY OrdersAre DEF Orders
    <2>2. \A i \in 1..n : o[i].n \in 1..2
        BY <2>1
    <2>. QED
        BY <2>1, <2>2
<1>3. m.stock = stock /\ m.burst = burst /\ m.things = things /\ Kept(m, N)
    BY <1>1 DEF Memory
<1>4. /\ Store(st.mem)
      /\ shop' = [shop EXCEPT ![s] =
                 IF st.next = "return" THEN Booked(s, c, st.mem, 0, st.list, shop[s].buy)
                 ELSE Swept(Booked(s, c, st.mem, Worth(st.list), Pending(st.list), shop[s].buy))]
      /\ UNCHANGED <<worn, glanced, visits, taxes>>
    BY DEF ExecuteBuy, SoldAll, Loop
<1>5. GoodShop(r, burst, N) /\ Listing(k, E) /\ Entrance(E)
    BY <1>1, EntriesAre DEF GoodShops, GoodShop
<1>6. st \in Dealt(m, k, E, N, s, c, TRUE)
    <2>1. st = SoldAll(c, s, [mem |-> m, list |-> k, next |-> "on"], o)
        OBVIOUS
    <2> HIDE DEF st, m, k
    <2>. QED
        BY <1>2, <1>3, <1>5, <2>1, SalesFit
<1>7. k = r.sell /\ g = GetAdena(st.mem.stock[s]) - GetAdena(stock[s]) /\ g = GetAdena(st.mem.stock[s]) - GetAdena(m.stock[s])
    BY <1>3
<1>a. r = shop[s] /\ l = st.list
    OBVIOUS
<1> HIDE DEF st, m, k, r, g, l
<1>8. Onward(m, st.mem, N) /\ Preserves(m, st.mem) /\ Listing(l, E) /\ Kept(st.mem, N)
    BY <1>6, <1>a DEF Dealt, Onward
<1>9. GetAdena(st.mem.stock[s]) \in Int /\ GetAdena(stock[s]) \in Int
    BY <1>3, <1>8, PurseIs
<1>10. Brought(l) \in Nat /\ Brought(l) = 0 + Brought(l)
    <2>1. l \in Seq(E)
        BY <1>8 DEF Listing
    <2>2. Brought(l) \in Nat
        BY <1>5, <2>1, BroughtIs
    <2>. QED
        BY <2>2
<1>11. ASSUME NEW w \in Int, NEW q, Listing(q, E), Brought(l) = w + Brought(q)
       PROVE  GoodShop(Booked(s, c, st.mem, w, q, shop[s].buy), st.mem.burst, N)
    <2>1. GoodShop(Books(r, q, r.buy, g, w, c, s), st.mem.burst, N)
        <3>1. Brought(st.list) = w + Brought(q)
            BY <1>11, <1>a
        <3>. QED
            BY <1>3, <1>5, <1>6, <1>7, <1>11, <3>1, SoldBooks DEF E
    <2>2. Booked(s, c, st.mem, w, q, shop[s].buy) = Books(r, q, r.buy, g, w, c, s)
        BY <1>7, <1>a DEF Booked, Books
    <2>. QED
        BY <2>1, <2>2
<1>12. GoodShop(Booked(s, c, st.mem, 0, l, shop[s].buy), st.mem.burst, N)
    BY <1>8, <1>10, <1>11
<1>13. GoodShop(Booked(s, c, st.mem, Worth(l), Pending(l), shop[s].buy), st.mem.burst, N)
    <2>1. Listing(Pending(l), E) /\ Worth(l) \in Int /\ Brought(l) = Worth(l) + Brought(Pending(l))
        BY <1>5, <1>8, PendingFits
    <2>. QED
        BY <1>11, <2>1
<1>14. \E z : GoodShop(z, st.mem.burst, N) /\ shop' = [shop EXCEPT ![s] = z]
    <2> DEFINE y == Booked(s, c, st.mem, 0, l, shop[s].buy)
               z == Booked(s, c, st.mem, Worth(l), Pending(l), shop[s].buy)
               v == IF st.next = "return" THEN y ELSE Swept(z)
    <2>1. shop' = [shop EXCEPT ![s] = v]
        BY <1>4, <1>a
    <2>2. GoodShop(y, st.mem.burst, N) /\ GoodShop(z, st.mem.burst, N)
        BY <1>12, <1>13
    <2> HIDE DEF y, z
    <2>3. GoodShop(v, st.mem.burst, N)
        BY <2>2, SweptIsGood
    <2> HIDE DEF v
    <2>. QED
        BY <2>1, <2>3
<1>15. GoodShops(shop', st.mem.burst, N)
    <2>1. PICK z : GoodShop(z, st.mem.burst, N) /\ shop' = [shop EXCEPT ![s] = z]
        BY <1>14
    <2>2. burst => st.mem.burst
        BY <1>3, <1>8 DEF Onward
    <2> DEFINE d == st.mem.burst
               f == shop'
    <2>3. GoodShop(z, d, N) /\ f = [shop EXCEPT ![s] = z] /\ (burst => d)
        BY <2>1, <2>2
    <2> HIDE DEF d, f
    <2>4. GoodShops(f, d, N)
        BY <1>1, <2>3, ShopsChange
    <2>. QED
        BY <2>4 DEF f, d
<1>. QED
    BY <1>4, <1>8, <1>15, MovingStep DEF m

LEMMA ExecuteSellFits ==
    ASSUME ShopInv, NEW c \in Trader, NEW s \in Trader,
           NEW o \in Orders([obj : Numbers(stock[c]), at : DOMAIN shop[s].buy, n : 1..2, log : BOOLEAN]), ExecuteSell(c, s, o)
    PROVE  StepFits
<1>1. PICK N \in SUBSET Nat : Kept(Memory, N) /\ GoodShops(shop, burst, N)
    BY DEF ShopInv
<1> DEFINE m == Memory
           k == shop[s].buy
           E == BuyEntry
           st == BoughtAll(c, s, [mem |-> m, list |-> k, next |-> "on"], o)
           r == shop[s]
           l == st.list
           g == GetAdena(st.mem.stock[s]) - GetAdena(m.stock[s])
<1>2. PICK n \in Nat : DOMAIN o = 1..n /\ \A i \in 1..n : o[i].n \in Nat
    <2>1. PICK n \in Nat : DOMAIN o = 1..n /\ o \in [1..n -> [obj : Numbers(stock[c]), at : DOMAIN shop[s].buy, n : 1..2, log : BOOLEAN]]
        BY OrdersAre DEF Orders
    <2>2. \A i \in 1..n : o[i].n \in 1..2
        BY <2>1
    <2>. QED
        BY <2>1, <2>2
<1>3. m.stock = stock /\ m.burst = burst /\ m.things = things /\ Kept(m, N)
    BY <1>1 DEF Memory
<1>4. /\ Store(st.mem)
      /\ shop' = [shop EXCEPT ![s] =
                 IF st.next = "return" THEN Booked(s, c, st.mem, 0, shop[s].sell, st.list)
                 ELSE Swept(Booked(s, c, st.mem, -Worth(st.list), shop[s].sell, Pending(st.list)))]
      /\ UNCHANGED <<worn, glanced, visits, taxes>>
    BY DEF ExecuteSell, BoughtAll, Loop
<1>5. GoodShop(r, burst, N) /\ Listing(k, E) /\ Entrance(E)
    BY <1>1, EntriesAre DEF GoodShops, GoodShop
<1>6. st \in Dealt(m, k, E, N, s, c, FALSE)
    <2>1. st = BoughtAll(c, s, [mem |-> m, list |-> k, next |-> "on"], o)
        OBVIOUS
    <2> HIDE DEF st, m, k
    <2>. QED
        BY <1>2, <1>3, <1>5, <2>1, PurchasesFit
<1>7. k = r.buy /\ g = GetAdena(st.mem.stock[s]) - GetAdena(stock[s]) /\ g = GetAdena(st.mem.stock[s]) - GetAdena(m.stock[s])
    BY <1>3
<1>a. r = shop[s] /\ l = st.list
    OBVIOUS
<1> HIDE DEF st, m, k, r, g, l
<1>8. Onward(m, st.mem, N) /\ Preserves(m, st.mem) /\ Listing(l, E) /\ Kept(st.mem, N)
    BY <1>6, <1>a DEF Dealt, Onward
<1>9. GetAdena(st.mem.stock[s]) \in Int /\ GetAdena(stock[s]) \in Int
    BY <1>3, <1>8, PurseIs
<1>10. Brought(l) \in Nat /\ Brought(l) = 0 + Brought(l)
    <2>1. l \in Seq(E)
        BY <1>8 DEF Listing
    <2>2. Brought(l) \in Nat
        BY <1>5, <2>1, BroughtIs
    <2>. QED
        BY <2>2
<1>11. ASSUME NEW w \in Int, NEW v \in Int, w + v = 0, NEW q, Listing(q, E), Brought(l) = w + Brought(q)
       PROVE  GoodShop(Booked(s, c, st.mem, v, shop[s].sell, q), st.mem.burst, N)
    <2>1. GoodShop(Books(r, r.sell, q, g, v, c, s), st.mem.burst, N)
        <3>1. Brought(st.list) = w + Brought(q) /\ v = -w
            BY <1>11, <1>a
        <3>. QED
            BY <1>3, <1>5, <1>6, <1>7, <1>11, <3>1, BoughtBooks DEF E
    <2>2. Booked(s, c, st.mem, v, shop[s].sell, q) = Books(r, r.sell, q, g, v, c, s)
        BY <1>7, <1>a DEF Booked, Books
    <2>. QED
        BY <2>1, <2>2
<1>12. GoodShop(Booked(s, c, st.mem, 0, shop[s].sell, l), st.mem.burst, N)
    <2>1. 0 \in Int /\ 0 + 0 = 0
        OBVIOUS
    <2>. QED
        BY <1>8, <1>10, <1>11, <2>1
<1>13. GoodShop(Booked(s, c, st.mem, -Worth(l), shop[s].sell, Pending(l)), st.mem.burst, N)
    <2>1. Listing(Pending(l), E) /\ Worth(l) \in Int /\ Brought(l) = Worth(l) + Brought(Pending(l))
        BY <1>5, <1>8, PendingFits
    <2>2. -Worth(l) \in Int /\ Worth(l) + (-Worth(l)) = 0
        BY <2>1
    <2>. QED
        BY <1>11, <2>1, <2>2
<1>14. \E z : GoodShop(z, st.mem.burst, N) /\ shop' = [shop EXCEPT ![s] = z]
    <2> DEFINE y == Booked(s, c, st.mem, 0, shop[s].sell, l)
               z == Booked(s, c, st.mem, -Worth(l), shop[s].sell, Pending(l))
               v == IF st.next = "return" THEN y ELSE Swept(z)
    <2>1. shop' = [shop EXCEPT ![s] = v]
        BY <1>4, <1>a
    <2>2. GoodShop(y, st.mem.burst, N) /\ GoodShop(z, st.mem.burst, N)
        BY <1>12, <1>13
    <2> HIDE DEF y, z
    <2>3. GoodShop(v, st.mem.burst, N)
        BY <2>2, SweptIsGood
    <2> HIDE DEF v
    <2>. QED
        BY <2>1, <2>3
<1>15. GoodShops(shop', st.mem.burst, N)
    <2>1. PICK z : GoodShop(z, st.mem.burst, N) /\ shop' = [shop EXCEPT ![s] = z]
        BY <1>14
    <2>2. burst => st.mem.burst
        BY <1>3, <1>8 DEF Onward
    <2> DEFINE d == st.mem.burst
               f == shop'
    <2>3. GoodShop(z, d, N) /\ f = [shop EXCEPT ![s] = z] /\ (burst => d)
        BY <2>1, <2>2
    <2> HIDE DEF d, f
    <2>4. GoodShops(f, d, N)
        BY <1>1, <2>3, ShopsChange
    <2>. QED
        BY <2>4 DEF f, d
<1>. QED
    BY <1>4, <1>8, <1>15, MovingStep DEF m

\* Nothing is sold yet.
LEMMA NothingBrought ==
    ASSUME NEW E, Entrance(E), NEW l \in Seq(E), \A i \in 1..Len(l) : l[i].done = 0
    PROVE  Brought(l) = 0
<1> DEFINE D == 1..Len(l)
           f == Proceeds(l)
<1>1. /\ Brought(l) = SumFunctionOnSet(f, D)
      /\ \A i \in D : f[i] = l[i].price * l[i].done
    BY BroughtIs
<1>2. \A i \in D : f[i] = 0
    <2> SUFFICES ASSUME NEW i \in D PROVE f[i] = 0
        OBVIOUS
    <2>1. l[i] \in E /\ l[i].done = 0 /\ f[i] = l[i].price * l[i].done
        BY <1>1
    <2>2. l[i].price \in Nat
        BY <2>1 DEF Entrance
    <2>3. \A a \in Nat : a * 0 = 0
        OBVIOUS
    <2>. QED
        BY <2>1, <2>2, <2>3
<1>3. IsFiniteSet(D)
    <2>1. Len(l) \in Nat
        OBVIOUS
    <2>. QED
        BY <2>1, FS_Interval
<1> HIDE DEF f, D
<1>. QED
    BY <1>1, <1>2, <1>3, SumOfZeros

\* A list, made of what is left of a request.
LEMMA RequestIs ==
    ASSUME NEW T, NEW list, list \in Lists(T), NEW S
    PROVE  /\ Among(list, S) \in Seq(T \cap S) /\ Len(Among(list, S)) \in 0..MaxList
           /\ DOMAIN Among(list, S) = 1..Len(Among(list, S))
           /\ \A i \in 1..Len(Among(list, S)) : Among(list, S)[i] \in T \cap S
<1> DEFINE w == [e \in T |-> 0]
           q == Among(list, S)
<1>1. \A e \in T : w[e] \in Int
    OBVIOUS
<1>2. PICK n \in Nat : n <= MaxList /\ DOMAIN list = 1..n /\ list \in [1..n -> T]
    BY OrdersAre
<1>3. list \in Seq(T) /\ Len(list) = n
    BY <1>2
<1> HIDE DEF w
<1>4. Among(list, S) \in Seq(T \cap S) /\ Len(Among(list, S)) <= Len(list)
    BY <1>1, <1>3, AmongIs
<1>5. q \in Seq(T \cap S) /\ Len(q) <= n
    BY <1>3, <1>4
<1> HIDE DEF q
<1>6. /\ Len(q) \in Nat /\ DOMAIN q = 1..Len(q)
      /\ \A i \in 1..Len(q) : q[i] \in T \cap S
    BY <1>5
<1>7. Len(q) \in 0..MaxList
    BY <1>2, <1>5, <1>6, ShopAssumption
<1>. QED
    BY <1>5, <1>6, <1>7 DEF q

\* The numbers of what is no gold are no gold's.
LEMMA KeptWider ==
    ASSUME NEW m, NEW N, Kept(m, N), NEW p \in Trader,
           NEW M, M = N \cup Numbers({x \in m.stock[p] : x.good # Gold})
    PROVE  Kept(m, M) /\ \A x \in m.stock[p] : x.obj \in Numbers({y \in m.stock[p] : y.good # Gold}) => x.good # Gold
<1>1. /\ m \in Mem /\ N \subseteq 1..m.things
      /\ \A q \in Trader : Proper(m.stock[q], m.things, m.burst, N)
      /\ \A q, t \in Trader : q # t => \A x \in m.stock[q], y \in m.stock[t] : x.obj # y.obj
    BY DEF Kept
<1> DEFINE A == Numbers({x \in m.stock[p] : x.good # Gold})
<1>2. \A i : i \in A => \E y \in m.stock[p] : y.good # Gold /\ y.obj = i
    BY DEF Numbers
<1>3. ASSUME NEW q \in Trader, NEW x \in m.stock[q], x.good = Gold
      PROVE  x.obj \notin A
    <2> SUFFICES ASSUME x.obj \in A PROVE FALSE
        OBVIOUS
    <2>1. PICK y \in m.stock[p] : y.good # Gold /\ y.obj = x.obj
        BY <1>2
    <2>2. q = p
        BY <1>1, <2>1
    <2>3. x = y
        BY <1>1, <2>1, <2>2 DEF Proper
    <2>. QED
        BY <1>3, <2>1, <2>3
<1>4. M = N \cup A
    OBVIOUS
<1>5. A \subseteq 1..m.things
    BY <1>1, <1>2 DEF Proper
<1> HIDE DEF A
<1>6. ASSUME NEW q \in Trader PROVE Proper(m.stock[q], m.things, m.burst, M)
    BY <1>1, <1>3, <1>4 DEF Proper
<1>7. Kept(m, M)
    BY <1>1, <1>4, <1>5, <1>6 DEF Kept
<1>. QED
    BY <1>3, <1>7 DEF A

\* A list of a shop as it opens.
LEMMA NewListing ==
    ASSUME NEW E, Entrance(E), NEW n \in 0..MaxList, NEW l, l \in [1..n -> E],
           \A i \in 1..n : l[i].done = 0
    PROVE  Listing(l, E) /\ l \in Seq(E) /\ Brought(l) = 0
<1>1. n \in Nat /\ n <= MaxList
    BY ShopAssumption
<1>2. l \in Seq(E) /\ Len(l) = n
    BY <1>1
<1>3. \A i \in 1..n : l[i].done <= l[i].total
    <2>1. \A i \in 1..n : l[i] \in E
        OBVIOUS
    <2>2. \A i \in 1..n : l[i].total \in Nat
        BY <2>1 DEF Entrance
    <2>. QED
        BY <2>2
<1>. QED
    BY <1>1, <1>2, <1>3, NothingBrought DEF Listing

\* What an entry of a request for p is about.
Asked(p) == [obj : Numbers({x \in stock[p] : x.good # Gold}), price : Price, n : 1..2]
Meant(p, r) == CHOOSE x \in stock[p] : x.obj = r.obj

LEMMA MeantIs ==
    ASSUME NEW N, Kept(Memory, N), NEW p \in Trader, NEW r \in Asked(p)
    PROVE  /\ Meant(p, r) \in stock[p] /\ Meant(p, r).good \in Kind \ {Gold} /\ Meant(p, r).n \in Int
           /\ r.price \in Nat \ {0} /\ r.n \in Nat
           /\ r.obj \in Numbers({x \in stock[p] : x.good # Gold}) /\ r.obj \in Nat
<1> DEFINE A == Numbers({x \in stock[p] : x.good # Gold})
           x == Meant(p, r)
<1>1. r.obj \in A /\ r.price \in Price /\ r.n \in 1..2
    BY DEF Asked
<1>2. r.price \in Nat \ {0}
    BY <1>1, ShopAssumption
<1>3. PICK y \in stock[p] : y.good # Gold /\ y.obj = r.obj
    BY <1>1 DEF Numbers
<1>4. x \in stock[p] /\ x.obj = r.obj
    BY <1>3 DEF Meant
<1>5. Memory.stock = stock
    BY DEF Memory
<1> HIDE DEF x, A
<1>6. Proper(stock[p], things, burst, N)
    BY KeptIs DEF Memory
<1>7. x = y /\ x \in Thing
    BY <1>3, <1>4, <1>6 DEF Proper
<1>8. x.good \in Kind /\ x.n \in Int /\ x.obj \in Nat
    BY <1>7 DEF Thing
<1>. QED
    BY <1>1, <1>2, <1>3, <1>4, <1>7, <1>8 DEF x, A

LEMMA OpenShopFits ==
    ASSUME ShopInv, NEW p \in Trader, NEW toSell \in Requests(p), NEW toBuy \in Requests(p),
           OpenShop(p, toSell, toBuy)
    PROVE  StepFits
<1>1. PICK N \in SUBSET Nat : Kept(Memory, N) /\ GoodShops(shop, burst, N)
    BY DEF ShopInv
<1> DEFINE A == Numbers({x \in stock[p] : x.good # Gold})
           M == N \cup A
           T == Asked(p)
           there(list) == {r \in ToSet(list) : r.obj \in Numbers(stock[p])}
           F == {r \in there(toSell) : Meant(p, r).n > 0}
           B == there(toBuy)
           offers == Among(toSell, F)
           wishes == Among(toBuy, B)
           sell == [i \in DOMAIN offers |->
                       [obj |-> offers[i].obj, price |-> offers[i].price,
                        total |-> Min({offers[i].n, Meant(p, offers[i]).n}), done |-> 0]]
           buy == [i \in DOMAIN wishes |->
                      [good |-> Meant(p, wishes[i]).good, price |-> wishes[i].price, total |-> wishes[i].n,
                       done |-> 0]]
           z == [Closed EXCEPT !.open = TRUE, !.sell = sell, !.buy = buy]
<1>2. /\ \/ shop' = [shop EXCEPT ![p] = Closed]
         \/ shop' = shop
         \/ shop' = [shop EXCEPT ![p] = z]
      /\ UNCHANGED <<stock, worn, glanced, things, visits, taxes, burst>>
    <2> DEFINE c1 == \E r \in there(toSell) : r.obj \in worn[p]
               c2 == sell = <<>> /\ buy = <<>>
    <2>1. /\ shop' = [shop EXCEPT ![p] = IF c1 THEN Closed ELSE IF c2 THEN @ ELSE z]
          /\ UNCHANGED <<stock, worn, glanced, things, visits, taxes, burst>>
        BY DEF OpenShop, Meant
    <2>2. shop = [q \in Trader |-> shop[q]]
        BY <1>1 DEF GoodShops
    <2>3. shop = [shop EXCEPT ![p] = shop[p]]
        BY <2>2
    <2> HIDE DEF c1, c2, z
    <2>. QED
        BY <2>1, <2>3
<1>3. Kept(Memory, M) /\ M \in SUBSET Nat
    <2>1. Memory.stock = stock
        BY DEF Memory
    <2>2. Kept(Memory, M)
        BY <1>1, <2>1, KeptWider
    <2> HIDE DEF M
    <2>3. M \subseteq 1..Memory.things
        BY <2>2 DEF Kept
    <2>. QED
        BY <2>2, <2>3
<1>4. A \subseteq M
    OBVIOUS
<1>5. toSell \in Lists(T) /\ toBuy \in Lists(T)
    BY DEF Requests, Asked
<1>a. sell = [i \in DOMAIN offers |->
                       [obj |-> offers[i].obj, price |-> offers[i].price,
                        total |-> Min({offers[i].n, Meant(p, offers[i]).n}), done |-> 0]]
    OBVIOUS
<1>b. buy = [i \in DOMAIN wishes |->
                      [good |-> Meant(p, wishes[i]).good, price |-> wishes[i].price, total |-> wishes[i].n,
                       done |-> 0]]
    OBVIOUS
<1>c. z = [Closed EXCEPT !.open = TRUE, !.sell = sell, !.buy = buy]
    OBVIOUS
<1> HIDE DEF sell, buy, z
<1>6. PICK n \in 0..MaxList : /\ DOMAIN offers = 1..n
                              /\ \A i \in 1..n : offers[i] \in T \cap F
    <2> HIDE DEF F, T
    <2>. QED
        BY <1>5, RequestIs
<1>7. PICK k \in 0..MaxList : /\ DOMAIN wishes = 1..k
                              /\ \A i \in 1..k : wishes[i] \in T
    <2> HIDE DEF B, T
    <2>. QED
        BY <1>5, RequestIs
<1>d. \A r \in F : Meant(p, r).n > 0
    OBVIOUS
<1> HIDE DEF F, B, offers, wishes, M, A, T
<1>8. sell \in [1..n -> SellEntry(M)] /\ \A i \in 1..n : sell[i].done = 0
    <2>1. ASSUME NEW i \in 1..n
          PROVE  [obj |-> offers[i].obj, price |-> offers[i].price,
                  total |-> Min({offers[i].n, Meant(p, offers[i]).n}), done |-> 0] \in SellEntry(M)
        <3> DEFINE r == offers[i]
                   x == Meant(p, r)
                   d == Min({r.n, x.n})
        <3>1. r \in Asked(p) /\ x.n > 0
            BY <1>6, <1>d DEF T
        <3>2. /\ x.n \in Int /\ r.price \in Nat \ {0} /\ r.n \in Nat /\ r.obj \in A
            BY <1>1, <3>1, MeantIs DEF A
        <3>3. d \in Nat
            <4> DEFINE a == r.n
                       b == x.n
            <4>1. a \in Int /\ b \in Int /\ d = Min({a, b}) /\ a >= 0 /\ b > 0
                BY <3>1, <3>2
            <4> HIDE DEF a, b, d
            <4>2. d \in {a, b}
                BY <4>1, MinOfTwo
            <4>. QED
                BY <4>1, <4>2
        <3>4. r.obj \in M /\ 0 \in Nat
            BY <1>4, <3>2
        <3> HIDE DEF r, d
        <3>5. [obj |-> r.obj, price |-> r.price, total |-> d, done |-> 0] \in SellEntry(M)
            BY <3>2, <3>3, <3>4 DEF SellEntry
        <3>. QED
            BY <3>5 DEF r, d, x
    <2>2. ASSUME NEW i \in 1..n
          PROVE  sell[i].done = 0
        BY <1>6, <1>a
    <2>. QED
        BY <1>6, <1>a, <2>1, <2>2
<1>9. buy \in [1..k -> BuyEntry] /\ \A i \in 1..k : buy[i].done = 0
    <2>1. ASSUME NEW i \in 1..k
          PROVE  [good |-> Meant(p, wishes[i]).good, price |-> wishes[i].price, total |-> wishes[i].n,
                  done |-> 0] \in BuyEntry
        <3>1. wishes[i] \in Asked(p)
            BY <1>7 DEF T
        <3>2. /\ Meant(p, wishes[i]).good \in Kind \ {Gold} /\ wishes[i].price \in Nat \ {0}
              /\ wishes[i].n \in Nat /\ 0 \in Nat
            BY <1>1, <3>1, MeantIs
        <3>. QED
            BY <3>2 DEF BuyEntry
    <2>2. ASSUME NEW i \in 1..k
          PROVE  buy[i].done = 0
        BY <1>7, <1>b
    <2>. QED
        BY <1>7, <1>b, <2>1, <2>2
<1>10. Listing(sell, SellEntry(M)) /\ sell \in Seq(SellEntry(M)) /\ Brought(sell) = 0
    BY <1>8, EntriesAre, NewListing
<1>11. Listing(buy, BuyEntry) /\ buy \in Seq(BuyEntry) /\ Brought(buy) = 0
    BY <1>9, EntriesAre, NewListing
<1>12. GoodShop(z, burst, M)
    <2>1. z = [open |-> TRUE, sell |-> sell, buy |-> buy, taken |-> 0, cleared |-> 0, self |-> FALSE]
        BY <1>c DEF Closed
    <2>2. z \in [open : BOOLEAN, sell : Seq(SellEntry(M)), buy : Seq(BuyEntry),
                 taken : Int, cleared : Int, self : BOOLEAN]
        BY <1>10, <1>11, <2>1
    <2>3. z.sell = sell /\ z.buy = buy /\ z.taken = 0 /\ z.cleared = 0
        BY <2>1
    <2>4. Account(z)
        BY <1>10, <1>11, <2>3 DEF Account
    <2>. QED
        BY <1>10, <1>11, <2>2, <2>3, <2>4, Zenon DEF GoodShop
<1>13. GoodShops(shop', burst, M)
    <2>1. N \subseteq M
        BY DEF M
    <2>2. GoodShop(Closed, burst, M)
        BY ClosedIsGood
    <2>. QED
        BY <1>1, <1>2, <1>12, <2>1, <2>2, ShopsChange, ShopsStay
<1>14. worn' \in [Trader -> SUBSET Nat] /\ glanced' \in [Trader -> 0..MaxList]
    BY <1>2 DEF ShopInv
<1>. QED
    BY <1>2, <1>3, <1>13, <1>14, QuietStep

\* What castles get of a price, and what is paid.
LEMMA TaxesAre ==
    ASSUME NEW cost \in Nat
    PROVE  /\ Payment(cost) \in Nat /\ ToCastles(cost) \in Nat
           /\ ToCastles(cost) > 0 => ToCastles(cost) < Payment(cost)
<1> DEFINE a == cost * TaxRate
           b == CastleTax(cost)
           c == WarTax(cost)
           d == DiadTax(cost)
           e == NationalTax(cost)
<1>1. \A i \in Nat : i \div 100 \in Nat /\ i \div 100 <= i
    OBVIOUS
<1>2. a \in Nat /\ (cost = 0 => a = 0)
    <2>1. TaxRate \in Nat
        BY ShopAssumption
    <2>2. \A i, j \in Nat : i * j \in Nat /\ (i = 0 => i * j = 0)
        OBVIOUS
    <2>. QED
        BY <2>1, <2>2
<1>3. b = a \div 100 /\ c = (cost * 15) \div 100 /\ e = (b * 10) \div 100 /\ d = (c * 10) \div 100
    BY DEF CastleTax, WarTax, NationalTax, DiadTax
<1> HIDE DEF a, b, c, d, e
<1>4. b \in Nat /\ c \in Nat /\ (cost = 0 => b = 0 /\ c = 0)
    BY <1>2, <1>3
<1>5. d \in Nat /\ e \in Nat /\ d <= c /\ (c = 0 => d = 0)
    BY <1>3, <1>4
<1>6. Payment(cost) = cost + b + c /\ ToCastles(cost) = (b - e) + e + d
    BY DEF Payment, ToCastles, b, c, d, e
<1>. QED
    BY <1>4, <1>5, <1>6

\* An NPC is visited: the goods of p change, and taxes may be paid.
LEMMA VisitStep ==
    ASSUME ShopInv, UNCHANGED <<worn, shop, glanced>>, visits' = visits + 1, taxes' \in Nat,
           NEW N \in SUBSET Nat, GoodShops(shop, burst, N), NEW m, Onward(Memory, m, N), Store(m), TaxFits
    PROVE  StepFits
<1>1. m \in Mem /\ Kept(m, N) /\ (burst => m.burst)
    BY DEF Onward, Kept, Memory
<1>2. stock' = m.stock /\ things' = m.things /\ burst' = m.burst
    BY DEF Store
<1>3. Memory' = m
    BY <1>1, <1>2 DEF Memory, Mem
<1>4. GoodShops(shop', m.burst, N)
    BY <1>1, ShopsStay
<1>5. visits' \in Nat /\ visits' # visits
    BY DEF ShopInv
<1>6. ShopInv'
    BY <1>1, <1>2, <1>3, <1>4, <1>5 DEF ShopInv
<1>. QED
    BY <1>5, <1>6 DEF StepFits, Conserved

LEMMA BuyFromNpcFits ==
    ASSUME ShopInv, NEW p \in Trader, NEW o \in Lists([at : DOMAIN Ware, n : {1}]), BuyFromNpc(p, o)
    PROVE  StepFits
<1>1. PICK N \in SUBSET Nat : Kept(Memory, N) /\ GoodShops(shop, burst, N)
    BY DEF ShopInv
<1> DEFINE m == Memory
           wares == [i \in DOMAIN o |-> [good |-> Ware[o[i].at].good, n |-> Wrap(o[i].n * Ware[o[i].at].pack)]]
           f == [i \in DOMAIN o |-> Ware[o[i].at].price * o[i].n]
           cost == SumFunction(f)
           d == Payment(cost)
           r == Pay(m, p, d)
           st == HandedAll(p, [mem |-> r, given |-> TRUE], wares)
<1>2. PICK n \in Nat : DOMAIN o = 1..n /\ o \in [1..n -> [at : DOMAIN Ware, n : {1}]]
    BY OrdersAre
<1>3. m.stock = stock /\ m.burst = burst /\ Kept(m, N)
    BY <1>1 DEF Memory
<1>4. /\ visits' = visits + 1 /\ GetAdena(stock[p]) >= d /\ Store(st.mem)
      /\ taxes' = taxes + ToCastles(cost) /\ UNCHANGED <<worn, shop, glanced>>
    BY DEF BuyFromNpc, HandedAll
<1>5. ASSUME NEW i \in 1..n
      PROVE  f[i] \in Nat /\ wares[i].good \in Kind \ {Gold} /\ wares[i].n \in Int
    <2> DEFINE w == Ware[o[i].at]
               k == o[i].n
    <2>1. o[i].at \in DOMAIN Ware /\ k \in Nat
        BY <1>2
    <2>2. w.good \in Kind \ {Gold} /\ w.price \in Nat /\ w.pack \in Nat
        BY <2>1, ShopAssumption
    <2>3. f[i] = w.price * k /\ wares[i].good = w.good /\ wares[i].n = Wrap(k * w.pack)
        BY <1>2
    <2> HIDE DEF w, k, f, wares
    <2>4. \A a, b \in Nat : a * b \in Nat /\ a * b \in Int
        OBVIOUS
    <2>5. Wrap(k * w.pack) \in Int
        BY <2>1, <2>2, <2>4, WrapIs
    <2>. QED
        BY <2>1, <2>2, <2>3, <2>4, <2>5
<1>6. cost \in Nat
    <2> DEFINE D == 1..n
    <2>1. cost = SumFunctionOnSet(f, D)
        BY <1>2 DEF SumFunction
    <2>a. IsFiniteSet(D)
        BY FS_Interval
    <2>b. D \in FiniteSubsetsOf(D)
        BY <2>a DEF FiniteSubsetsOf
    <2>2. D \in FiniteSubsetsOf(D) /\ \A i \in D : f[i] \in Nat
        <3> HIDE DEF f, wares
        <3>. QED
            BY <1>5, <2>b
    <2> HIDE DEF D, f, cost
    <2>. QED
        BY <2>1, <2>2, SumNat
<1>7. DOMAIN wares = 1..n
    BY <1>2
<1>a. r = Pay(m, p, d) /\ st = HandedAll(p, [mem |-> r, given |-> TRUE], wares) /\ d = Payment(cost)
    OBVIOUS
<1>b. GetAdena(m.stock[p]) >= d
    BY <1>3, <1>4
<1> HIDE DEF m, wares, f, cost, d, r, st
<1>8. d \in Nat /\ ToCastles(cost) \in Nat /\ (ToCastles(cost) > 0 => ToCastles(cost) < d)
    BY <1>6, <1>a, TaxesAre
<1>9. /\ Onward(m, r, N) /\ r.burst = m.burst /\ OthersKeep(m, r, p, Gold)
      /\ GetAdena(r.stock[p]) = GetAdena(m.stock[p]) - d
    BY <1>3, <1>8, <1>a, <1>b, PayFits
<1>10. Kept(r, N)
    BY <1>9 DEF Onward
<1>11. Onward(r, st.mem, N) /\ GoldStays(r, st.mem)
    BY <1>5, <1>7, <1>10, <1>a, HandsFit
<1>12. Onward(m, st.mem, N)
    BY <1>3, <1>9, <1>11, OnwardTrans
<1>13. Supply(Gold) - Supply(Gold)' = d
    <2> DEFINE e == -d
    <2>1. e \in Int /\ Gold \in Kind
        BY <1>8, KindsAre
    <2>2. Total(r.stock[p], Gold) = Total(m.stock[p], Gold) + e
        <3>1. GetAdena(m.stock[p]) \in Int
            BY <1>3, PurseIs
        <3>. QED
            BY <1>8, <1>9, <3>1 DEF GetAdena
    <2>a. e = -d
        OBVIOUS
    <2> HIDE DEF e
    <2>3. /\ SupplyOf(m.stock, Gold) \in Int /\ SupplyOf(r.stock, Gold) \in Int
          /\ SupplyOf(r.stock, Gold) = SupplyOf(m.stock, Gold) + e
        BY <1>3, <1>9, <1>10, <2>1, <2>2, SupplyMoves
    <2>4. SupplyOf(st.mem.stock, Gold) = SupplyOf(r.stock, Gold)
        BY <1>11 DEF GoldStays, GetAdena, SupplyOf
    <2>5. Supply(Gold) = SupplyOf(m.stock, Gold) /\ Supply(Gold)' = SupplyOf(st.mem.stock, Gold)
        BY <1>3, <1>4 DEF Supply, SupplyOf, Store
    <2>. QED
        BY <1>8, <2>a, <2>3, <2>4, <2>5
<1>14. TaxFits
    <2>1. taxes \in Nat
        BY DEF ShopInv
    <2>2. taxes' > taxes => ToCastles(cost) > 0
        BY <1>4, <1>8, <2>1
    <2>3. taxes' - taxes = ToCastles(cost)
        BY <1>4, <1>8, <2>1
    <2>. QED
        BY <1>8, <1>13, <2>2, <2>3 DEF TaxFits
<1>15. taxes' \in Nat
    BY <1>4, <1>8 DEF ShopInv
<1>. QED
    BY <1>1, <1>4, <1>12, <1>14, <1>15, VisitStep DEF m

LEMMA SellToNpcFits ==
    ASSUME ShopInv, NEW p \in Trader, NEW o \in Lists([obj : Numbers(stock[p]), n : 1..2]), SellToNpc(p, o)
    PROVE  StepFits
<1>1. PICK N \in SUBSET Nat : Kept(Memory, N) /\ GoodShops(shop, burst, N)
    BY DEF ShopInv
<1> DEFINE m == Memory
           st == TakenAll(p, [mem |-> m, earned |-> 0], o)
           u == [mem |-> st.mem, given |-> TRUE]
           e == Wrap(st.earned)
           t == GiveItem(u, p, Gold, e)
           r == IF st.earned > 0 THEN t.mem ELSE st.mem
<1>2. PICK n \in Nat : DOMAIN o = 1..n /\ \A i \in 1..n : o[i].n \in Nat /\ o[i].n >= 1
    <2>1. PICK n \in Nat : DOMAIN o = 1..n /\ o \in [1..n -> [obj : Numbers(stock[p]), n : 1..2]]
        BY OrdersAre
    <2>2. \A i \in 1..n : o[i].n \in 1..2
        BY <2>1
    <2>. QED
        BY <2>1, <2>2
<1>3. visits' = visits + 1 /\ Store(r) /\ UNCHANGED <<worn, shop, glanced, taxes>>
    BY DEF SellToNpc, TakenAll
<1>4. Kept(m, N) /\ st = TakenAll(p, [mem |-> m, earned |-> 0], o)
    BY <1>1
<1>5. t = GiveItem(u, p, Gold, e) /\ e = Wrap(st.earned) /\ u = [mem |-> st.mem, given |-> TRUE]
      /\ r = IF st.earned > 0 THEN t.mem ELSE st.mem
    OBVIOUS
<1> HIDE DEF m, st, u, e, t, r
<1>6. Onward(m, st.mem, N) /\ st.mem \in Mem /\ st.earned \in Int
    BY <1>2, <1>4, TakesFit
<1>7. u \in Given /\ u.mem = st.mem /\ e \in Int /\ Gold \in Kind /\ Kept(u.mem, N)
    <2>1. u \in Given /\ u.mem = st.mem
        BY <1>5, <1>6 DEF Given
    <2>. QED
        BY <1>5, <1>6, <2>1, WrapIs, KindsAre DEF Onward
<1>8. Onward(u.mem, t.mem, N)
    BY <1>5, <1>7, GiveFits
<1>9. Onward(m, t.mem, N)
    BY <1>4, <1>6, <1>7, <1>8, OnwardTrans
<1>10. Onward(m, r, N)
    BY <1>5, <1>6, <1>9
<1>11. taxes' \in Nat /\ TaxFits
    BY <1>3 DEF ShopInv, TaxFits
<1>. QED
    BY <1>1, <1>3, <1>10, <1>11, VisitStep DEF m

LEMMA ShopStep == ShopInv /\ [ShopNext]_shopVars => StepFits
<1> SUFFICES ASSUME ShopInv, [ShopNext]_shopVars PROVE StepFits
    OBVIOUS
<1>1. PICK N \in SUBSET Nat : Kept(Memory, N) /\ GoodShops(shop, burst, N)
    BY DEF ShopInv
<1>2. Keeper \subseteq Trader
    BY ShopAssumption
<1>3. CASE UNCHANGED shopVars
    <2>1. UNCHANGED <<stock, worn, shop, glanced, things, visits, taxes, burst>>
        BY <1>3 DEF shopVars
    <2>2. worn' \in [Trader -> SUBSET Nat] /\ glanced' \in [Trader -> 0..MaxList]
        BY <2>1 DEF ShopInv
    <2>. QED
        BY <1>1, <2>1, <2>2, QuietStep
<1>4. CASE \E p \in Keeper :
              (\E sell, buy \in Requests(p) : Len(buy) <= 1 /\ OpenShop(p, sell, buy)) \/ CloseShop(p)
    BY <1>2, <1>4, OpenShopFits, CloseShopFits
<1>5. CASE \E p \in Trader :
              \/ Relog(p)
              \/ \E o \in Lists([at : DOMAIN Ware, n : {1}]) \ {<<>>} : BuyFromNpc(p, o)
              \/ \E o \in Lists([obj : Numbers(stock[p]), n : 1..2]) \ {<<>>} : SellToNpc(p, o)
              \/ \E x \in stock[p] : EquipWeapon(p, x)
    <2>1. PICK p \in Trader :
              \/ Relog(p)
              \/ \E o \in Lists([at : DOMAIN Ware, n : {1}]) \ {<<>>} : BuyFromNpc(p, o)
              \/ \E o \in Lists([obj : Numbers(stock[p]), n : 1..2]) \ {<<>>} : SellToNpc(p, o)
              \/ \E x \in stock[p] : EquipWeapon(p, x)
        BY <1>5
    <2>2. CASE Relog(p)
        BY <2>2, RelogFits
    <2>3. CASE \E o \in Lists([at : DOMAIN Ware, n : {1}]) \ {<<>>} : BuyFromNpc(p, o)
        BY <2>3, BuyFromNpcFits
    <2>4. CASE \E o \in Lists([obj : Numbers(stock[p]), n : 1..2]) \ {<<>>} : SellToNpc(p, o)
        BY <2>4, SellToNpcFits
    <2>5. CASE \E x \in stock[p] : EquipWeapon(p, x)
        BY <2>5, EquipWeaponFits
    <2>. QED
        BY <2>1, <2>2, <2>3, <2>4, <2>5
<1>6. CASE \E p, s \in Trader :
              \/ Browse(p, s)
              \/ \E o \in Orders([at : DOMAIN shop[s].sell, n : 1..2, log : BOOLEAN]) : ExecuteBuy(p, s, o)
              \/ \E x \in stock[p] : HandOver(p, s, x)
              \/ \E o \in Orders([obj : Numbers(stock[p]), at : DOMAIN shop[s].buy, n : 1..2, log : BOOLEAN]) :
                    ExecuteSell(p, s, o)
    <2>1. PICK p \in Trader, s \in Trader :
              \/ Browse(p, s)
              \/ \E o \in Orders([at : DOMAIN shop[s].sell, n : 1..2, log : BOOLEAN]) : ExecuteBuy(p, s, o)
              \/ \E x \in stock[p] : HandOver(p, s, x)
              \/ \E o \in Orders([obj : Numbers(stock[p]), at : DOMAIN shop[s].buy, n : 1..2, log : BOOLEAN]) :
                    ExecuteSell(p, s, o)
        BY <1>6
    <2>2. CASE Browse(p, s)
        BY <2>2, BrowseFits
    <2>3. CASE \E o \in Orders([at : DOMAIN shop[s].sell, n : 1..2, log : BOOLEAN]) : ExecuteBuy(p, s, o)
        BY <2>3, ExecuteBuyFits
    <2>4. CASE \E x \in stock[p] : HandOver(p, s, x)
        BY <2>4, HandOverFits
    <2>5. CASE \E o \in Orders([obj : Numbers(stock[p]), at : DOMAIN shop[s].buy, n : 1..2, log : BOOLEAN]) :
                  ExecuteSell(p, s, o)
        BY <2>5, ExecuteSellFits
    <2>. QED
        BY <2>1, <2>2, <2>3, <2>4, <2>5
<1>. QED
    BY <1>3, <1>4, <1>5, <1>6 DEF ShopNext

LEMMA ShopInvAgrees == ShopInv => ShopsAgree
<1> SUFFICES ASSUME ShopInv PROVE ShopsAgree
    OBVIOUS
<1>1. PICK N \in SUBSET Nat : Kept(Memory, N) /\ GoodShops(shop, burst, N)
    BY DEF ShopInv
<1>2. /\ Memory.stock = stock /\ Memory.things = things /\ Memory.burst = burst /\ Memory \in Mem
    BY <1>1 DEF Memory, Kept
<1>3. stock \in [Trader -> SUBSET Thing] /\ burst \in BOOLEAN
    BY <1>2 DEF Mem
<1>4. ShopTypeOK
    BY <1>3 DEF ShopTypeOK, ShopInv
<1>5. TakingsAgree
    <2> SUFFICES ASSUME NEW s \in Trader
                 PROVE  /\ \A i \in DOMAIN shop[s].sell : shop[s].sell[i].done \in 0..shop[s].sell[i].total
                        /\ \A i \in DOMAIN shop[s].buy : shop[s].buy[i].done \in 0..shop[s].buy[i].total
                        /\ ~burst /\ ~shop[s].self =>
                              shop[s].taken = shop[s].cleared + Brought(shop[s].sell) - Brought(shop[s].buy)
        BY DEF TakingsAgree
    <2> DEFINE r == shop[s]
    <2>1. GoodShop(r, burst, N)
        BY <1>1 DEF GoodShops
    <2>2. ASSUME NEW E, Entrance(E), NEW l, Listing(l, E)
          PROVE  \A i \in DOMAIN l : l[i].done \in 0..l[i].total
        <3>1. l \in Seq(E) /\ \A i \in 1..Len(l) : l[i].done <= l[i].total
            BY <2>2 DEF Listing
        <3>2. DOMAIN l = 1..Len(l) /\ \A i \in DOMAIN l : l[i] \in E
            BY <3>1
        <3>3. \A i \in DOMAIN l : l[i].done \in Nat /\ l[i].total \in Nat /\ l[i].done <= l[i].total
            BY <2>2, <3>1, <3>2 DEF Entrance
        <3>. QED
            BY <3>3
    <2> HIDE DEF r
    <2>3. /\ Listing(r.sell, SellEntry(N)) /\ Listing(r.buy, BuyEntry)
          /\ ~burst /\ ~r.self => r.taken = r.cleared + Brought(r.sell) - Brought(r.buy)
        BY <2>1, GoodShopIs
    <2>4. \A i \in DOMAIN r.sell : r.sell[i].done \in 0..r.sell[i].total
        <3> DEFINE l == r.sell
        <3>1. Listing(l, SellEntry(N))
            BY <2>3
        <3> HIDE DEF l
        <3>2. \A i \in DOMAIN l : l[i].done \in 0..l[i].total
            BY <2>2, <3>1, EntriesAre
        <3>. QED
            BY <3>2 DEF l
    <2>5. \A i \in DOMAIN r.buy : r.buy[i].done \in 0..r.buy[i].total
        <3> DEFINE l == r.buy
        <3>1. Listing(l, BuyEntry)
            BY <2>3
        <3> HIDE DEF l
        <3>2. \A i \in DOMAIN l : l[i].done \in 0..l[i].total
            BY <2>2, <3>1, EntriesAre
        <3>. QED
            BY <3>2 DEF l
    <2>. QED
        BY <2>3, <2>4, <2>5 DEF r
<1>6. ObjectsAreUnique
    <2> SUFFICES ASSUME NEW p \in Trader, NEW q \in Trader, NEW x \in stock[p], NEW y \in stock[q],
                        x.obj = y.obj
                 PROVE  p = q /\ x = y
        BY DEF ObjectsAreUnique
    <2>1. p = q
        BY <1>1, <1>2 DEF Kept
    <2>2. Proper(stock[p], things, burst, N)
        BY <1>1, <1>2, KeptIs
    <2>. QED
        BY <2>1, <2>2 DEF Proper
<1>. QED
    BY <1>4, <1>5, <1>6 DEF ShopsAgree

\* The shops agree (ShopsAgree) whatever the players, goods, prices and wares are, and
\* however many orders a packet holds (private_shop.go, shop.go).
THEOREM ShopsAlwaysAgree == ShopSpec => []ShopsAgree
<1>1. ShopInit => ShopInv
    BY ShopBegins
<1>2. ShopInv /\ [ShopNext]_shopVars => ShopInv'
    BY ShopStep DEF StepFits
<1>3. ShopInv => ShopsAgree
    BY ShopInvAgrees
<1>. QED
    BY <1>1, <1>2, <1>3, PTL DEF ShopSpec

\* No good is made or lost between players, and castles get less than a customer of an
\* NPC pays (private_shop.go:294-355, shop.go:92-185).
THEOREM PurchasesAlwaysBalance == ShopSpec => PurchasesBalance
<1>1. ShopInit => ShopInv
    BY ShopBegins
<1>2. ShopInv /\ [ShopNext]_shopVars => ShopInv' /\ Conserved /\ TaxFits
    BY ShopStep DEF StepFits
<1>. QED
    BY <1>1, <1>2, PTL DEF ShopSpec, PurchasesBalance
=============================================================================
