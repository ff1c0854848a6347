-------------------------------- MODULE Sums --------------------------------
(***************************************************************************)
(* Facts about sums over finite sets: what SumFunctionOnSet computes; and  *)
(* about least numbers, and folds.                                         *)
(***************************************************************************)
EXTENDS Integers, FiniteSets, Functions, FiniteSetTheorems, WellFoundedInduction, TLAPS

One(s) == CHOOSE x \in s : TRUE
AddsUp(h, f, S) == h = [s \in SUBSET S |-> IF s = {} THEN 0 ELSE f[One(s)] + h[s \ {One(s)}]]

LEMMA OneIsIn == \A s : s # {} => One(s) \in s
BY DEF One

\* Every nonempty set of finite sets has a member none of whose proper subsets is in it.
LEMMA LeastSet ==
    ASSUME NEW D, NEW T \in SUBSET FiniteSubsetsOf(D), T # {}
    PROVE  \E S \in T : \A R \in T : R \subseteq S => R = S
<1>1. IsWellFoundedOn(StrictSubsetOrdering(D), FiniteSubsetsOf(D))
    BY FS_StrictSubsetOrderingWellFounded
<1>2. PICK S \in T : \A R \in T : ~ <<R, S>> \in StrictSubsetOrdering(D)
    BY <1>1, WFMin
<1>3. ASSUME NEW R \in T, R \subseteq S, R # S
      PROVE  FALSE
    <2>1. R \in SUBSET D /\ S \in SUBSET D
        BY DEF FiniteSubsetsOf
    <2>. QED
        BY <1>2, <1>3, <2>1 DEF StrictSubsetOrdering
<1>. QED
    BY <1>3

\* Induction on the numbers, for a set of them: the provers do not take a property for a
\* parameter.
LEMMA Upwards ==
    ASSUME NEW G, 0 \in G, \A n \in Nat : n \in G => n + 1 \in G
    PROVE  Nat \subseteq G
<1> DEFINE T == {0..n : n \in Nat \ G}
<1>1. SUFFICES ASSUME T # {} PROVE FALSE
    OBVIOUS
<1>2. T \in SUBSET FiniteSubsetsOf(Nat)
    <2>1. \A n \in Nat : IsFiniteSet(0..n) /\ 0..n \subseteq Nat
        BY FS_Interval
    <2>. QED
        BY <2>1 DEF FiniteSubsetsOf
<1>3. PICK S \in T : \A R \in T : R \subseteq S => R = S
    <2> HIDE DEF T
    <2>. QED
        BY <1>1, <1>2, LeastSet
<1>4. PICK n \in Nat \ G : S = 0..n
    OBVIOUS
<1>5. n - 1 \in Nat /\ n - 1 \notin G
    <2>1. n # 0
        BY <1>4
    <2>2. n - 1 \in Nat /\ (n - 1) + 1 = n
        BY <2>1
    <2>. QED
        BY <1>4, <2>2
<1>6. 0..(n - 1) \in T /\ 0..(n - 1) \subseteq S
    BY <1>4, <1>5
<1>7. n \in S /\ n \notin 0..(n - 1)
    BY <1>4
<1>. QED
    BY <1>3, <1>6, <1>7

\* A set of numbers that is not empty has a least one.
LEMMA LeastNumber ==
    ASSUME NEW N \in SUBSET Nat, N # {}
    PROVE  \E x \in N : \A y \in N : x <= y
<1> DEFINE T == {0..n : n \in N}
<1>1. T \in SUBSET FiniteSubsetsOf(Nat) /\ T # {}
    <2>1. \A n \in Nat : IsFiniteSet(0..n) /\ 0..n \subseteq Nat
        BY FS_Interval
    <2>. QED
        BY <2>1 DEF FiniteSubsetsOf
<1>2. PICK S \in T : \A R \in T : R \subseteq S => R = S
    <2> HIDE DEF T
    <2>. QED
        BY <1>1, LeastSet
<1>3. PICK x \in N : S = 0..x
    OBVIOUS
<1>4. ASSUME NEW y \in N, ~(x <= y)
      PROVE  FALSE
    <2>1. 0..y \in T /\ 0..y \subseteq 0..x /\ x \notin 0..y /\ x \in 0..x
        BY <1>4
    <2>. QED
        BY <1>2, <1>3, <2>1
<1>. QED
    BY <1>4

LEMMA AddsUpOnce ==
    ASSUME NEW S, IsFiniteSet(S), NEW f, NEW g, NEW h, AddsUp(g, f, S), AddsUp(h, f, S)
    PROVE  g = h
<1> DEFINE Bad == {s \in SUBSET S : g[s] # h[s]}
<1>1. SUFFICES ASSUME Bad # {} PROVE FALSE
    BY DEF AddsUp
<1>2. Bad \in SUBSET FiniteSubsetsOf(S)
    BY FS_FiniteSubsetsOfFinite
<1>3. PICK s \in Bad : \A r \in Bad : r \subseteq s => r = s
    <2> HIDE DEF Bad
    <2>. QED
        BY <1>1, <1>2, LeastSet
<1>4. s \in SUBSET S /\ g[s] # h[s]
    OBVIOUS
<1>5. s # {}
    BY <1>4 DEF AddsUp
<1>6. One(s) \in s
    BY <1>5, OneIsIn
<1>7. g[s \ {One(s)}] = h[s \ {One(s)}]
    <2>1. s \ {One(s)} \in SUBSET S
        OBVIOUS
    <2>2. s \ {One(s)} \notin Bad
        BY <1>3, <1>6
    <2>. QED
        BY <2>1, <2>2
<1>8. g[s] = f[One(s)] + g[s \ {One(s)}] /\ h[s] = f[One(s)] + h[s \ {One(s)}]
    BY <1>4, <1>5 DEF AddsUp
<1>. QED
    BY <1>4, <1>7, <1>8

\* What adds up over a set does so over its subsets.
LEMMA AddsUpBelow ==
    ASSUME NEW S, NEW R \in SUBSET S, NEW f, NEW h, AddsUp(h, f, S)
    PROVE  AddsUp([s \in SUBSET R |-> h[s]], f, R)
<1> DEFINE k == [s \in SUBSET R |-> h[s]]
<1>1. ASSUME NEW s \in SUBSET R
      PROVE  k[s] = IF s = {} THEN 0 ELSE f[One(s)] + k[s \ {One(s)}]
    <2>1. s \in SUBSET S /\ s \ {One(s)} \in SUBSET R
        OBVIOUS
    <2>2. h[s] = IF s = {} THEN 0 ELSE f[One(s)] + h[s \ {One(s)}]
        BY <2>1 DEF AddsUp
    <2>. QED
        BY <2>1, <2>2
<1>2. k = [s \in SUBSET R |-> IF s = {} THEN 0 ELSE f[One(s)] + k[s \ {One(s)}]]
    BY <1>1
<1>. QED
    BY <1>2 DEF AddsUp

LEMMA SumsExist ==
    ASSUME NEW S, IsFiniteSet(S), NEW f
    PROVE  \E h : AddsUp(h, f, S)
<1> DEFINE Bad == {s \in SUBSET S : ~\E h : AddsUp(h, f, s)}
           V(s) == (CHOOSE h : AddsUp(h, f, s))[s]
<1>1. SUFFICES ASSUME Bad # {} PROVE FALSE
    OBVIOUS
<1>2. Bad \in SUBSET FiniteSubsetsOf(S)
    BY FS_FiniteSubsetsOfFinite
<1>3. PICK s \in Bad : \A r \in Bad : r \subseteq s => r = s
    <2> HIDE DEF Bad
    <2>. QED
        BY <1>1, <1>2, LeastSet
<1>4. \A r \in SUBSET s : r # s => \E h : AddsUp(h, f, r)
    BY <1>3
<1>5. ASSUME NEW r \in SUBSET s, r # s
      PROVE  V(r) = IF r = {} THEN 0 ELSE f[One(r)] + V(r \ {One(r)})
    <2> DEFINE h == CHOOSE k : AddsUp(k, f, r)
               q == r \ {One(r)}
    <2>1. AddsUp(h, f, r)
        BY <1>4, <1>5
    <2>2. V(r) = IF r = {} THEN 0 ELSE f[One(r)] + h[q]
        BY <2>1 DEF AddsUp
    <2>3. CASE r = {}
        BY <2>2, <2>3
    <2>4. CASE r # {}
        <3>1. q \in SUBSET s /\ q # s /\ q \in SUBSET r
            BY <1>5
        <3>2. AddsUp(CHOOSE k : AddsUp(k, f, q), f, q)
            BY <1>4, <3>1
        <3>3. AddsUp([t \in SUBSET q |-> h[t]], f, q)
            <4> HIDE DEF h, q
            <4>. QED
                BY <2>1, <3>1, AddsUpBelow
        <3>4. IsFiniteSet(q)
            BY <3>1, FS_Subset
        <3>5. (CHOOSE k : AddsUp(k, f, q)) = [t \in SUBSET q |-> h[t]]
            BY <3>2, <3>3, <3>4, AddsUpOnce
        <3>6. V(q) = h[q]
            <4>1. q \in SUBSET q
                OBVIOUS
            <4>. QED
                BY <3>5, <4>1
        <3>. QED
            BY <2>2, <2>4, <3>6
    <2>. QED
        BY <2>3, <2>4
<1> DEFINE W == [r \in SUBSET s |-> IF r # s THEN V(r)
                                    ELSE IF s = {} THEN 0 ELSE f[One(s)] + V(s \ {One(s)})]
<1>6. ASSUME NEW r \in SUBSET s
      PROVE  W[r] = IF r = {} THEN 0 ELSE f[One(r)] + W[r \ {One(r)}]
    <2>1. CASE r = {}
        BY <1>5, <2>1
    <2>2. CASE r # {}
        <3>1. One(r) \in r
            BY <2>2, OneIsIn
        <3>2. r \ {One(r)} \in SUBSET s /\ r \ {One(r)} # s
            BY <3>1
        <3>3. W[r \ {One(r)}] = V(r \ {One(r)})
            BY <3>2
        <3>4. W[r] = f[One(r)] + V(r \ {One(r)})
            BY <1>5, <2>2
        <3>. QED
            BY <2>2, <3>3, <3>4
    <2>. QED
        BY <2>1, <2>2
<1>7. W = [r \in SUBSET s |-> IF r = {} THEN 0 ELSE f[One(r)] + W[r \ {One(r)}]]
    <2>1. W = [r \in SUBSET s |-> W[r]]
        OBVIOUS
    <2> HIDE DEF W
    <2>. QED
        BY <1>6, <2>1
<1>8. AddsUp(W, f, s)
    BY <1>7 DEF AddsUp
<1>. QED
    BY <1>8

LEMMA SumAddsUp ==
    ASSUME NEW S, IsFiniteSet(S), NEW f
    PROVE  \E h : AddsUp(h, f, S) /\ SumFunctionOnSet(f, S) = h[S]
<1> DEFINE Sum(k) == k = [s \in SUBSET S |->
                IF s = {} THEN 0 ELSE f[CHOOSE x \in s : TRUE] + k[s \ {CHOOSE x \in s : TRUE}]]
           h == CHOOSE k : Sum(k)
<1>1. SumFunctionOnSet(f, S) = h[S]
    BY DEF SumFunctionOnSet, FoldFunctionOnSet, MapThenFoldSet
<1>2. ASSUME NEW k
      PROVE  Sum(k) <=> AddsUp(k, f, S)
    BY DEF AddsUp, One
<1>3. \E k : Sum(k)
    <2> HIDE DEF Sum
    <2>. QED
        BY <1>2, SumsExist
<1>4. AddsUp(h, f, S)
    <2> HIDE DEF Sum
    <2>. QED
        BY <1>2, <1>3
<1>. QED
    BY <1>1, <1>4

-----------------------------------------------------------------------------
LEMMA SumEmpty ==
    ASSUME NEW f
    PROVE  SumFunctionOnSet(f, {}) = 0
<1>1. IsFiniteSet({})
    BY FS_EmptySet
<1>2. PICK h : AddsUp(h, f, {}) /\ SumFunctionOnSet(f, {}) = h[{}]
    BY <1>1, SumAddsUp
<1>. QED
    BY <1>2 DEF AddsUp

LEMMA SumStep ==
    ASSUME NEW S, IsFiniteSet(S), S # {}, NEW f
    PROVE  SumFunctionOnSet(f, S) = f[One(S)] + SumFunctionOnSet(f, S \ {One(S)})
<1> DEFINE R == S \ {One(S)}
<1>1. PICK h : AddsUp(h, f, S) /\ SumFunctionOnSet(f, S) = h[S]
    BY SumAddsUp
<1>2. IsFiniteSet(R)
    BY FS_Subset
<1>3. PICK k : AddsUp(k, f, R) /\ SumFunctionOnSet(f, R) = k[R]
    BY <1>2, SumAddsUp
<1>4. AddsUp([s \in SUBSET R |-> h[s]], f, R)
    <2>1. R \in SUBSET S
        OBVIOUS
    <2> HIDE DEF R
    <2>. QED
        BY <1>1, <2>1, AddsUpBelow
<1>5. k = [s \in SUBSET R |-> h[s]]
    <2> HIDE DEF R
    <2>. QED
        BY <1>2, <1>3, <1>4, AddsUpOnce
<1>6. k[R] = h[R]
    BY <1>5
<1>7. h[S] = f[One(S)] + h[R]
    <2>1. S \in SUBSET S
        OBVIOUS
    <2>. QED
        BY <1>1, <2>1 DEF AddsUp
<1>. QED
    BY <1>1, <1>3, <1>6, <1>7

\* What is true of the empty set, and of a finite set if it is true of the set without
\* one of its members, is true of all finite sets of G.  Stated of a set of sets, as the provers do
\* not take a property for a parameter.
LEMMA FiniteInduction ==
    ASSUME NEW D, NEW G,
           {} \in G,
           \A S \in FiniteSubsetsOf(D) : S # {} /\ (\A R \in SUBSET S : R # S => R \in G) => S \in G
    PROVE  FiniteSubsetsOf(D) \subseteq G
<1> DEFINE Bad == {S \in FiniteSubsetsOf(D) : S \notin G}
<1>1. SUFFICES ASSUME Bad # {} PROVE FALSE
    OBVIOUS
<1>2. PICK S \in Bad : \A R \in Bad : R \subseteq S => R = S
    <2>1. Bad \in SUBSET FiniteSubsetsOf(D)
        OBVIOUS
    <2> HIDE DEF Bad
    <2>. QED
        BY <1>1, <2>1, LeastSet
<1>3. S \in FiniteSubsetsOf(D) /\ S \notin G
    OBVIOUS
<1>4. \A R \in SUBSET S : R \in FiniteSubsetsOf(D)
    BY <1>3, FS_Subset DEF FiniteSubsetsOf
<1>5. \A R \in SUBSET S : R # S => R \in G
    BY <1>2, <1>4
<1>. QED
    BY <1>3, <1>5

LEMMA SumType ==
    ASSUME NEW D, NEW f, \A x \in D : f[x] \in Int
    PROVE  \A S \in FiniteSubsetsOf(D) : SumFunctionOnSet(f, S) \in Int
<1> DEFINE G == {S \in FiniteSubsetsOf(D) : SumFunctionOnSet(f, S) \in Int}
<1>1. {} \in G
    BY SumEmpty, FS_EmptySet DEF FiniteSubsetsOf
<1>2. ASSUME NEW S \in FiniteSubsetsOf(D), S # {}, \A R \in SUBSET S : R # S => R \in G
      PROVE  S \in G
    <2>1. One(S) \in S /\ IsFiniteSet(S)
        BY <1>2, OneIsIn DEF FiniteSubsetsOf
    <2>2. SumFunctionOnSet(f, S \ {One(S)}) \in Int
        BY <1>2, <2>1
    <2>3. SumFunctionOnSet(f, S) = f[One(S)] + SumFunctionOnSet(f, S \ {One(S)})
        BY <1>2, <2>1, SumStep
    <2>. QED
        BY <2>1, <2>2, <2>3 DEF FiniteSubsetsOf
<1>3. FiniteSubsetsOf(D) \subseteq G
    <2> HIDE DEF G
    <2>. QED
        BY <1>1, <1>2, FiniteInduction
<1>. QED
    BY <1>3

\* A sum over one more element, whichever it is.
THEOREM SumAdd ==
    ASSUME NEW D, NEW f, \A x \in D : f[x] \in Int,
           NEW S \in FiniteSubsetsOf(D), NEW e \in D, e \notin S
    PROVE  SumFunctionOnSet(f, S \cup {e}) = f[e] + SumFunctionOnSet(f, S)
<1> DEFINE Adds(T) == \A x \in D \ T : SumFunctionOnSet(f, T \cup {x}) = f[x] + SumFunctionOnSet(f, T)
           G == {T \in FiniteSubsetsOf(D) : Adds(T)}
<1>1. ASSUME NEW T \in FiniteSubsetsOf(D), NEW x \in D \ T
      PROVE  /\ T \cup {x} \in FiniteSubsetsOf(D) /\ IsFiniteSet(T \cup {x})
             /\ One(T \cup {x}) \in T \cup {x}
    <2>1. IsFiniteSet(T)
        BY DEF FiniteSubsetsOf
    <2>2. IsFiniteSet(T \cup {x})
        BY <2>1, FS_AddElement
    <2>. QED
        BY <2>2, OneIsIn DEF FiniteSubsetsOf
<1>2. {} \in G
    <2>1. ASSUME NEW x \in D
          PROVE  SumFunctionOnSet(f, {x}) = f[x] + 0
        <3>1. One({x}) = x
            BY OneIsIn
        <3>2. SumFunctionOnSet(f, {x}) = f[x] + SumFunctionOnSet(f, {x} \ {x})
            BY <3>1, FS_Singleton, SumStep
        <3>3. {x} \ {x} = {}
            OBVIOUS
        <3>. QED
            BY <3>2, <3>3, SumEmpty
    <2>2. \A x \in D : {} \cup {x} = {x}
        OBVIOUS
    <2>. QED
        BY <2>1, <2>2, SumEmpty, FS_EmptySet DEF FiniteSubsetsOf
<1>3. ASSUME NEW T \in FiniteSubsetsOf(D), T # {}, \A R \in SUBSET T : R # T => R \in G
      PROVE  T \in G
    <2> SUFFICES ASSUME NEW x \in D \ T
                 PROVE  SumFunctionOnSet(f, T \cup {x}) = f[x] + SumFunctionOnSet(f, T)
        OBVIOUS
    <2> DEFINE c == One(T \cup {x})
               R == T \ {c}
    <2>1. SumFunctionOnSet(f, T \cup {x}) = f[c] + SumFunctionOnSet(f, (T \cup {x}) \ {c})
        BY <1>1, SumStep
    <2>2. CASE c = x
        <3>1. (T \cup {x}) \ {c} = T
            BY <2>2
        <3>. QED
            BY <2>1, <2>2, <3>1
    <2>3. CASE c # x
        <3>1. c \in T /\ R \in SUBSET T /\ R # T
            BY <1>1, <2>3
        <3>2. R \in G
            BY <1>3, <3>1
        <3>3. x \in D \ R /\ c \in D \ R /\ R \in FiniteSubsetsOf(D)
            BY <3>1, <3>2 DEF FiniteSubsetsOf
        <3>4. (T \cup {x}) \ {c} = R \cup {x} /\ T = R \cup {c}
            BY <2>3, <3>1
        <3>5. SumFunctionOnSet(f, R \cup {x}) = f[x] + SumFunctionOnSet(f, R)
            BY <3>2, <3>3
        <3>6. SumFunctionOnSet(f, R \cup {c}) = f[c] + SumFunctionOnSet(f, R)
            BY <3>2, <3>3
        <3>7. SumFunctionOnSet(f, R) \in Int /\ f[x] \in Int /\ f[c] \in Int
            <4>1. SumFunctionOnSet(f, R) \in Int
                <5> HIDE DEF R, G
                <5>. QED
                    BY <3>3, SumType
            <4>. QED
                BY <4>1, <3>3
        <3>8. SumFunctionOnSet(f, T \cup {x}) = f[c] + SumFunctionOnSet(f, R \cup {x})
            BY ONLY <2>1, <3>4
        <3>9. SumFunctionOnSet(f, T) = f[c] + SumFunctionOnSet(f, R)
            BY ONLY <3>4, <3>6
        <3> HIDE DEF c, R
        <3>. QED
            BY <3>5, <3>7, <3>8, <3>9
    <2>. QED
        BY <2>2, <2>3
<1>4. FiniteSubsetsOf(D) \subseteq G
    <2> HIDE DEF G
    <2>. QED
        BY <1>2, <1>3, FiniteInduction
<1>. QED
    BY <1>4

\* Sums of what is the same on a set are the same.
LEMMA SumEqual ==
    ASSUME NEW D, NEW f, NEW g, \A x \in D : f[x] = g[x]
    PROVE  \A S \in FiniteSubsetsOf(D) : SumFunctionOnSet(f, S) = SumFunctionOnSet(g, S)
<1> DEFINE G == {S \in FiniteSubsetsOf(D) : SumFunctionOnSet(f, S) = SumFunctionOnSet(g, S)}
<1>1. {} \in G
    BY SumEmpty, FS_EmptySet DEF FiniteSubsetsOf
<1>2. ASSUME NEW S \in FiniteSubsetsOf(D), S # {}, \A R \in SUBSET S : R # S => R \in G
      PROVE  S \in G
    <2>1. One(S) \in S /\ IsFiniteSet(S) /\ One(S) \in D
        BY <1>2, OneIsIn DEF FiniteSubsetsOf
    <2>2. SumFunctionOnSet(f, S \ {One(S)}) = SumFunctionOnSet(g, S \ {One(S)})
        BY <1>2, <2>1
    <2>3. SumFunctionOnSet(f, S) = f[One(S)] + SumFunctionOnSet(f, S \ {One(S)})
        BY <1>2, <2>1, SumStep
    <2>4. SumFunctionOnSet(g, S) = g[One(S)] + SumFunctionOnSet(g, S \ {One(S)})
        BY <1>2, <2>1, SumStep
    <2>. QED
        BY <2>1, <2>2, <2>3, <2>4
<1>3. FiniteSubsetsOf(D) \subseteq G
    <2> HIDE DEF G
    <2>. QED
        BY <1>1, <1>2, FiniteInduction
<1>. QED
    BY <1>3

\* Sums of numbers that are not negative are not.
LEMMA SumNat ==
    ASSUME NEW D, NEW f, \A x \in D : f[x] \in Nat
    PROVE  \A S \in FiniteSubsetsOf(D) : SumFunctionOnSet(f, S) \in Nat
<1> DEFINE G == {S \in FiniteSubsetsOf(D) : SumFunctionOnSet(f, S) \in Nat}
<1>1. {} \in G
    BY SumEmpty, FS_EmptySet DEF FiniteSubsetsOf
<1>2. ASSUME NEW S \in FiniteSubsetsOf(D), S # {}, \A R \in SUBSET S : R # S => R \in G
      PROVE  S \in G
    <2>1. One(S) \in S /\ IsFiniteSet(S)
        BY <1>2, OneIsIn DEF FiniteSubsetsOf
    <2>2. SumFunctionOnSet(f, S \ {One(S)}) \in Nat
        BY <1>2, <2>1
    <2>3. SumFunctionOnSet(f, S) = f[One(S)] + SumFunctionOnSet(f, S \ {One(S)})
        BY <1>2, <2>1, SumStep
    <2>4. f[One(S)] \in Nat
        BY <2>1 DEF FiniteSubsetsOf
    <2>. QED
        BY <2>2, <2>3, <2>4
<1>3. FiniteSubsetsOf(D) \subseteq G
    <2> HIDE DEF G
    <2>. QED
        BY <1>1, <1>2, FiniteInduction
<1>. QED
    BY <1>3

\* A sum of what is nowhere more is not more.
LEMMA SumLess ==
    ASSUME NEW D, NEW f, NEW g, \A x \in D : f[x] \in Int /\ g[x] \in Int /\ f[x] <= g[x]
    PROVE  \A S \in FiniteSubsetsOf(D) : SumFunctionOnSet(f, S) <= SumFunctionOnSet(g, S)
<1> DEFINE G == {S \in FiniteSubsetsOf(D) : SumFunctionOnSet(f, S) <= SumFunctionOnSet(g, S)}
<1>1. {} \in G
    BY SumEmpty, FS_EmptySet DEF FiniteSubsetsOf
<1>2. ASSUME NEW S \in FiniteSubsetsOf(D), S # {}, \A R \in SUBSET S : R # S => R \in G
      PROVE  S \in G
    <2> DEFINE R == S \ {One(S)}
    <2>1. One(S) \in S /\ IsFiniteSet(S) /\ One(S) \in D /\ R \in FiniteSubsetsOf(D)
        BY <1>2, OneIsIn, FS_Subset DEF FiniteSubsetsOf
    <2>2. SumFunctionOnSet(f, R) <= SumFunctionOnSet(g, R)
        BY <1>2, <2>1
    <2>3. SumFunctionOnSet(f, S) = f[One(S)] + SumFunctionOnSet(f, R)
        BY <1>2, <2>1, SumStep
    <2>4. SumFunctionOnSet(g, S) = g[One(S)] + SumFunctionOnSet(g, R)
        BY <1>2, <2>1, SumStep
    <2>5. SumFunctionOnSet(f, R) \in Int /\ SumFunctionOnSet(g, R) \in Int
        <3> HIDE DEF R
        <3>. QED
            BY <2>1, SumType
    <2> HIDE DEF R
    <2>. QED
        BY <2>1, <2>2, <2>3, <2>4, <2>5
<1>3. FiniteSubsetsOf(D) \subseteq G
    <2> HIDE DEF G
    <2>. QED
        BY <1>1, <1>2, FiniteInduction
<1>. QED
    BY <1>3

\* A sum, and one of its terms.
LEMMA SumWithout ==
    ASSUME NEW S, IsFiniteSet(S), NEW f, \A x \in S : f[x] \in Int, NEW e \in S
    PROVE  /\ SumFunctionOnSet(f, S \ {e}) \in Int
           /\ SumFunctionOnSet(f, S) = f[e] + SumFunctionOnSet(f, S \ {e})
<1> DEFINE R == S \ {e}
<1>1. R \in FiniteSubsetsOf(S) /\ e \notin R /\ S = R \cup {e}
    BY FS_Subset DEF FiniteSubsetsOf
<1> HIDE DEF R
<1>2. SumFunctionOnSet(f, R) \in Int
    BY <1>1, SumType
<1>3. SumFunctionOnSet(f, R \cup {e}) = f[e] + SumFunctionOnSet(f, R)
    BY <1>1, SumAdd
<1>. QED
    BY <1>1, <1>2, <1>3 DEF R

\* Where everything counts one, the sum is the number of elements.
LEMMA SumOfOnes ==
    ASSUME NEW S, IsFiniteSet(S), NEW f, \A x \in S : f[x] = 1
    PROVE  SumFunctionOnSet(f, S) = Cardinality(S)
<1> DEFINE G == {T \in FiniteSubsetsOf(S) : SumFunctionOnSet(f, T) = Cardinality(T)}
<1>1. {} \in G
    BY SumEmpty, FS_EmptySet DEF FiniteSubsetsOf
<1>2. ASSUME NEW T \in FiniteSubsetsOf(S), T # {}, \A R \in SUBSET T : R # T => R \in G
      PROVE  T \in G
    <2>1. One(T) \in T /\ IsFiniteSet(T) /\ One(T) \in S
        BY <1>2, OneIsIn DEF FiniteSubsetsOf
    <2>2. SumFunctionOnSet(f, T \ {One(T)}) = Cardinality(T \ {One(T)})
        BY <1>2, <2>1
    <2>3. SumFunctionOnSet(f, T) = f[One(T)] + SumFunctionOnSet(f, T \ {One(T)})
        BY <1>2, <2>1, SumStep
    <2>4. Cardinality(T \ {One(T)}) = Cardinality(T) - 1 /\ Cardinality(T) \in Nat
        BY <2>1, FS_RemoveElement, FS_CardinalityType
    <2>. QED
        BY <2>1, <2>2, <2>3, <2>4
<1>3. FiniteSubsetsOf(S) \subseteq G
    <2> HIDE DEF G
    <2>. QED
        BY <1>1, <1>2, FiniteInduction
<1>4. S \in FiniteSubsetsOf(S)
    BY DEF FiniteSubsetsOf
<1>. QED
    BY <1>3, <1>4

LEMMA SumOfZeros ==
    ASSUME NEW S, IsFiniteSet(S), NEW f, \A x \in S : f[x] = 0
    PROVE  SumFunctionOnSet(f, S) = 0
<1> DEFINE G == {T \in FiniteSubsetsOf(S) : SumFunctionOnSet(f, T) = 0}
<1>1. {} \in G
    BY SumEmpty, FS_EmptySet DEF FiniteSubsetsOf
<1>2. ASSUME NEW T \in FiniteSubsetsOf(S), T # {}, \A R \in SUBSET T : R # T => R \in G
      PROVE  T \in G
    <2>1. One(T) \in T /\ IsFiniteSet(T) /\ One(T) \in S
        BY <1>2, OneIsIn DEF FiniteSubsetsOf
    <2>2. SumFunctionOnSet(f, T \ {One(T)}) = 0
        BY <1>2, <2>1
    <2>3. SumFunctionOnSet(f, T) = f[One(T)] + SumFunctionOnSet(f, T \ {One(T)})
        BY <1>2, <2>1, SumStep
    <2>. QED
        BY <2>1, <2>2, <2>3
<1>3. FiniteSubsetsOf(S) \subseteq G
    <2> HIDE DEF G
    <2>. QED
        BY <1>1, <1>2, FiniteInduction
<1>4. S \in FiniteSubsetsOf(S)
    BY DEF FiniteSubsetsOf
<1>. QED
    BY <1>3, <1>4

\* A part of a sum of numbers that are not negative is not more than the sum.
LEMMA SumPart ==
    ASSUME NEW D, NEW f, \A x \in D : f[x] \in Nat
    PROVE  \A S \in FiniteSubsetsOf(D) :
              \A R \in SUBSET S : SumFunctionOnSet(f, R) <= SumFunctionOnSet(f, S)
<1> DEFINE G == {S \in FiniteSubsetsOf(D) :
                    \A R \in SUBSET S : SumFunctionOnSet(f, R) <= SumFunctionOnSet(f, S)}
<1>1. {} \in G
    <2>1. SumFunctionOnSet(f, {}) = 0 /\ SUBSET {} = {{}}
        BY SumEmpty
    <2>2. QED
        BY <2>1, FS_EmptySet DEF FiniteSubsetsOf
<1>2. ASSUME NEW S \in FiniteSubsetsOf(D), S # {}, \A Q \in SUBSET S : Q # S => Q \in G
      PROVE  S \in G
    <2> DEFINE e == One(S)
    <2>1. e \in S /\ IsFiniteSet(S) /\ f[e] \in Nat /\ S \ {e} \in G /\ S \ {e} \in FiniteSubsetsOf(D)
        BY <1>2, OneIsIn, FS_Subset DEF FiniteSubsetsOf
    <2> HIDE DEF e
    <2>2. /\ SumFunctionOnSet(f, S) = f[e] + SumFunctionOnSet(f, S \ {e})
          /\ SumFunctionOnSet(f, S \ {e}) \in Nat
        <3>1. \A x \in S : f[x] \in Int
            BY <1>2 DEF FiniteSubsetsOf
        <3>2. SumFunctionOnSet(f, S) = f[e] + SumFunctionOnSet(f, S \ {e})
            BY <2>1, <3>1, SumWithout
        <3>3. QED
            BY <2>1, <3>2, SumNat
    <2>3. ASSUME NEW R \in SUBSET S
          PROVE  SumFunctionOnSet(f, R) <= SumFunctionOnSet(f, S)
        <3>1. IsFiniteSet(R) /\ R \in FiniteSubsetsOf(D) /\ SumFunctionOnSet(f, R) \in Nat
            BY <2>1, FS_Subset, SumNat DEF FiniteSubsetsOf
        <3>2. R \ {e} \in SUBSET (S \ {e})
            BY <2>3
        <3>3. SumFunctionOnSet(f, R \ {e}) <= SumFunctionOnSet(f, S \ {e})
            BY <2>1, <3>2
        <3>4. CASE e \in R
            <4>1. /\ SumFunctionOnSet(f, R) = f[e] + SumFunctionOnSet(f, R \ {e})
                  /\ SumFunctionOnSet(f, R \ {e}) \in Int
                BY <3>1, <3>4, SumWithout DEF FiniteSubsetsOf
            <4>2. QED
                BY <2>1, <2>2, <3>3, <4>1
        <3>5. CASE e \notin R
            <4>1. R \ {e} = R
                BY <3>5
            <4>2. QED
                BY <2>1, <2>2, <3>1, <3>3, <4>1
        <3>6. QED
            BY <3>4, <3>5
    <2>4. QED
        BY <2>3
<1>3. FiniteSubsetsOf(D) \subseteq G
    <2> HIDE DEF G
    <2>. QED
        BY <1>1, <1>2, FiniteInduction
<1>. QED
    BY <1>3

\* What is nowhere more, when scaled, is not more in sum.
LEMMA SumScaled ==
    ASSUME NEW D, NEW f, NEW g, NEW a \in Nat, NEW b \in Nat,
           \A x \in D : f[x] \in Nat /\ g[x] \in Nat /\ a * f[x] <= b * g[x]
    PROVE  \A S \in FiniteSubsetsOf(D) : a * SumFunctionOnSet(f, S) <= b * SumFunctionOnSet(g, S)
<1> DEFINE G == {S \in FiniteSubsetsOf(D) : a * SumFunctionOnSet(f, S) <= b * SumFunctionOnSet(g, S)}
<1>1. {} \in G
    <2>1. SumFunctionOnSet(f, {}) = 0 /\ SumFunctionOnSet(g, {}) = 0 /\ a * 0 <= b * 0
        BY SumEmpty
    <2>2. QED
        BY <2>1, FS_EmptySet DEF FiniteSubsetsOf
<1>2. ASSUME NEW S \in FiniteSubsetsOf(D), S # {}, \A R \in SUBSET S : R # S => R \in G
      PROVE  S \in G
    <2> DEFINE e == One(S)
               R == S \ {e}
               F == SumFunctionOnSet(f, R)
               H == SumFunctionOnSet(g, R)
    <2>1. e \in S /\ IsFiniteSet(S) /\ e \in D /\ R \in FiniteSubsetsOf(D) /\ R \in G
        BY <1>2, OneIsIn, FS_Subset DEF FiniteSubsetsOf
    <2>2. SumFunctionOnSet(f, S) = f[e] + F /\ SumFunctionOnSet(g, S) = g[e] + H
        BY <1>2, <2>1, SumStep
    <2>3. F \in Nat /\ H \in Nat
        <3> HIDE DEF R
        <3>1. QED
            BY <2>1, SumNat
    <2>4. a * F <= b * H
        BY <2>1
    <2>5. f[e] \in Nat /\ g[e] \in Nat /\ a * f[e] <= b * g[e]
        BY <2>1
    <2> HIDE DEF e, R, F, H
    <2>6. \A u, v, w, z \in Nat : a * u <= b * w /\ a * v <= b * z => a * (u + v) <= b * (w + z)
        <3>1. ASSUME NEW u \in Nat, NEW v \in Nat, NEW w \in Nat, NEW z \in Nat,
                     a * u <= b * w, a * v <= b * z
              PROVE  a * (u + v) <= b * (w + z)
            <4>1. a * (u + v) = a * u + a * v /\ b * (w + z) = b * w + b * z
                OBVIOUS
            <4>2. a * u \in Nat /\ a * v \in Nat /\ b * w \in Nat /\ b * z \in Nat
                OBVIOUS
            <4>3. QED
                BY <3>1, <4>1, <4>2
        <3>2. QED
            BY <3>1
    <2>7. a * (f[e] + F) <= b * (g[e] + H)
        BY <2>3, <2>4, <2>5, <2>6
    <2>8. QED
        BY <2>2, <2>7
<1>3. FiniteSubsetsOf(D) \subseteq G
    <2> HIDE DEF G
    <2>. QED
        BY <1>1, <1>2, FiniteInduction
<1>. QED
    BY <1>3

\* A sum over a set is the sum over a part of it and over the rest.
LEMMA SumSplit ==
    ASSUME NEW S, IsFiniteSet(S), NEW f, \A x \in S : f[x] \in Int
    PROVE  \A R \in FiniteSubsetsOf(S) :
              SumFunctionOnSet(f, S) = SumFunctionOnSet(f, R) + SumFunctionOnSet(f, S \ R)
<1> DEFINE G == {R \in FiniteSubsetsOf(S) :
                    SumFunctionOnSet(f, S) = SumFunctionOnSet(f, R) + SumFunctionOnSet(f, S \ R)}
<1>1. {} \in G
    <2>1. S \ {} = S /\ SumFunctionOnSet(f, {}) = 0 /\ S \in FiniteSubsetsOf(S)
        BY SumEmpty DEF FiniteSubsetsOf
    <2>2. SumFunctionOnSet(f, S) \in Int
        BY <2>1, SumType
    <2>. QED
        BY <2>1, <2>2, FS_EmptySet DEF FiniteSubsetsOf
<1>2. ASSUME NEW R \in FiniteSubsetsOf(S), R # {}, \A Q \in SUBSET R : Q # R => Q \in G
      PROVE  R \in G
    <2> DEFINE e == One(R)
               A == R \ {e}
               B == S \ R
    <2>1. e \in R /\ e \in S /\ IsFiniteSet(R) /\ R \subseteq S /\ A \in G
        BY <1>2, OneIsIn DEF FiniteSubsetsOf
    <2>2. IsFiniteSet(S \ A) /\ (S \ A) \ {e} = B /\ e \in S \ A /\ IsFiniteSet(B)
        BY <2>1, FS_Subset
    <2> HIDE DEF e, B
    <2>3. SumFunctionOnSet(f, R) = f[e] + SumFunctionOnSet(f, A) /\ SumFunctionOnSet(f, A) \in Int
        BY <2>1, SumWithout
    <2>4. SumFunctionOnSet(f, S \ A) = f[e] + SumFunctionOnSet(f, B) /\ SumFunctionOnSet(f, B) \in Int
        <3> HIDE DEF A
        <3>1. \A x \in S \ A : f[x] \in Int
            OBVIOUS
        <3>. QED
            BY <2>2, <3>1, SumWithout
    <2>5. SumFunctionOnSet(f, S) = SumFunctionOnSet(f, A) + SumFunctionOnSet(f, S \ A) /\ f[e] \in Int
        BY <2>1
    <2>6. SumFunctionOnSet(f, S) = SumFunctionOnSet(f, R) + SumFunctionOnSet(f, B)
        <3> HIDE DEF A
        <3>. QED
            BY <2>3, <2>4, <2>5
    <2>. QED
        BY <2>6 DEF B
<1>3. FiniteSubsetsOf(S) \subseteq G
    <2> HIDE DEF G
    <2>. QED
        BY <1>1, <1>2, FiniteInduction
<1>. QED
    BY <1>3

-----------------------------------------------------------------------------
(* Folds.  h[s] is what is made of s, beginning with base: choose[s] is    *)
(* folded last, and f[s] is what it does.                                  *)
FoldsUp(h, base, f, choose, S) ==
    h = [s \in SUBSET S |-> IF s = {} THEN base ELSE f[s][h[s \ {choose[s]}]]]

LEMMA FoldsUpOnce ==
    ASSUME NEW S, IsFiniteSet(S), NEW base, NEW f, NEW choose, NEW g, NEW h,
           \A s \in SUBSET S : s # {} => choose[s] \in s,
           FoldsUp(g, base, f, choose, S), FoldsUp(h, base, f, choose, S)
    PROVE  g = h
<1> DEFINE Bad == {s \in SUBSET S : g[s] # h[s]}
<1>1. SUFFICES ASSUME Bad # {} PROVE FALSE
    <2>1. g = [s \in SUBSET S |-> g[s]] /\ h = [s \in SUBSET S |-> h[s]]
        BY DEF FoldsUp
    <2>. QED
        BY <2>1
<1>2. Bad \in SUBSET FiniteSubsetsOf(S)
    BY FS_FiniteSubsetsOfFinite
<1>3. PICK s \in Bad : \A r \in Bad : r \subseteq s => r = s
    <2> HIDE DEF Bad
    <2>. QED
        BY <1>1, <1>2, LeastSet
<1>4. s \in SUBSET S /\ g[s] # h[s]
    OBVIOUS
<1>5. s # {}
    BY <1>4 DEF FoldsUp
<1>6. choose[s] \in s
    BY <1>4, <1>5
<1>7. g[s \ {choose[s]}] = h[s \ {choose[s]}]
    <2>1. s \ {choose[s]} \in SUBSET S
        OBVIOUS
    <2>2. s \ {choose[s]} \notin Bad
        BY <1>3, <1>6
    <2>. QED
        BY <2>1, <2>2
<1>8. g[s] = f[s][g[s \ {choose[s]}]] /\ h[s] = f[s][h[s \ {choose[s]}]]
    BY <1>4, <1>5 DEF FoldsUp
<1>. QED
    BY <1>4, <1>7, <1>8

\* What folds over a set does so over its subsets.
LEMMA FoldsUpBelow ==
    ASSUME NEW S, NEW R \in SUBSET S, NEW base, NEW f, NEW choose, NEW h,
           NEW k, k = [s \in SUBSET R |-> h[s]], FoldsUp(h, base, f, choose, S)
    PROVE  FoldsUp(k, base, f, choose, R)
<1>1. ASSUME NEW s \in SUBSET R
      PROVE  k[s] = IF s = {} THEN base ELSE f[s][k[s \ {choose[s]}]]
    <2>1. s \in SUBSET S /\ s \ {choose[s]} \in SUBSET R
        OBVIOUS
    <2>2. h[s] = IF s = {} THEN base ELSE f[s][h[s \ {choose[s]}]]
        BY <2>1 DEF FoldsUp
    <2>. QED
        BY <2>1, <2>2
<1>2. k = [s \in SUBSET R |-> IF s = {} THEN base ELSE f[s][k[s \ {choose[s]}]]]
    BY <1>1
<1>. QED
    BY <1>2 DEF FoldsUp

LEMMA FoldsUpExist ==
    ASSUME NEW S, IsFiniteSet(S), NEW base, NEW f, NEW choose,
           \A s \in SUBSET S : s # {} => choose[s] \in s
    PROVE  \E h : FoldsUp(h, base, f, choose, S)
<1> DEFINE Bad == {s \in SUBSET S : ~\E h : FoldsUp(h, base, f, choose, s)}
           V(s) == (CHOOSE h : FoldsUp(h, base, f, choose, s))[s]
<1>1. SUFFICES ASSUME Bad # {} PROVE FALSE
    OBVIOUS
<1>2. Bad \in SUBSET FiniteSubsetsOf(S)
    BY FS_FiniteSubsetsOfFinite
<1>3. PICK s \in Bad : \A r \in Bad : r \subseteq s => r = s
    <2> HIDE DEF Bad
    <2>. QED
        BY <1>1, <1>2, LeastSet
<1>4. s \in SUBSET S /\ \A r \in SUBSET s : r # s => \E h : FoldsUp(h, base, f, choose, r)
    BY <1>3
<1>5. ASSUME NEW r \in SUBSET s, r # s
      PROVE  V(r) = IF r = {} THEN base ELSE f[r][V(r \ {choose[r]})]
    <2> DEFINE h == CHOOSE k : FoldsUp(k, base, f, choose, r)
               q == r \ {choose[r]}
    <2>1. FoldsUp(h, base, f, choose, r)
        BY <1>4, <1>5
    <2>2. V(r) = IF r = {} THEN base ELSE f[r][h[q]]
        BY <2>1 DEF FoldsUp
    <2>3. CASE r = {}
        BY <2>2, <2>3
    <2>4. CASE r # {}
        <3>1. q \in SUBSET s /\ q # s /\ q \in SUBSET r
            BY <1>5
        <3>2. FoldsUp(CHOOSE k : FoldsUp(k, base, f, choose, q), base, f, choose, q)
            BY <1>4, <3>1
        <3> DEFINE g == [t \in SUBSET q |-> h[t]]
        <3>3. FoldsUp(g, base, f, choose, q)
            <4>1. q \in SUBSET r /\ g = [t \in SUBSET q |-> h[t]]
                BY <3>1
            <4> HIDE DEF g, h, q
            <4>. QED
                BY <2>1, <4>1, FoldsUpBelow
        <3>4. IsFiniteSet(q) /\ \A t \in SUBSET q : t # {} => choose[t] \in t
            BY <1>4, <3>1, FS_Subset
        <3>5. (CHOOSE k : FoldsUp(k, base, f, choose, q)) = g
            <4> HIDE DEF g, q
            <4>. QED
                BY <3>2, <3>3, <3>4, FoldsUpOnce
        <3>6. V(q) = h[q]
            <4>1. q \in SUBSET q
                OBVIOUS
            <4>. QED
                BY <3>5, <4>1
        <3>. QED
            BY <2>2, <2>4, <3>6
    <2>. QED
        BY <2>3, <2>4
<1> DEFINE W == [r \in SUBSET s |-> IF r # s THEN V(r)
                                    ELSE IF s = {} THEN base ELSE f[s][V(s \ {choose[s]})]]
<1>6. ASSUME NEW r \in SUBSET s
      PROVE  W[r] = IF r = {} THEN base ELSE f[r][W[r \ {choose[r]}]]
    <2>1. CASE r = {}
        BY <1>5, <2>1
    <2>2. CASE r # {}
        <3>1. choose[r] \in r
            BY <1>4, <2>2
        <3>2. r \ {choose[r]} \in SUBSET s /\ r \ {choose[r]} # s
            BY <3>1
        <3>3. W[r \ {choose[r]}] = V(r \ {choose[r]})
            BY <3>2
        <3>4. W[r] = f[r][V(r \ {choose[r]})]
            BY <1>5, <2>2
        <3> HIDE DEF V, W
        <3>. QED
            BY <2>2, <3>3, <3>4
    <2>. QED
        BY <2>1, <2>2
<1>7. FoldsUp(W, base, f, choose, s)
    <2>1. W = [r \in SUBSET s |-> W[r]]
        OBVIOUS
    <2> HIDE DEF W
    <2>. QED
        BY <1>6, <2>1 DEF FoldsUp
<1>. QED
    BY <1>3, <1>7

\* From what Q has of a set without the chosen member, f leads to what it has of the set; and
\* as long as it does, h folds with f.
Leads(f, choose, Q, S) ==
    \A s \in SUBSET S : s # {} => choose[s] \in s /\ \A v \in Q[s \ {choose[s]}] : f[s][v] \in Q[s]
KeepsTo(h, f, choose, Q, S) ==
    \A s \in SUBSET S : s # {} /\ h[s \ {choose[s]}] \in Q[s \ {choose[s]}]
                           => h[s] = f[s][h[s \ {choose[s]}]]

\* What is folded over a set is in Q of it, if f leads there.
LEMMA FoldKeeps ==
    ASSUME NEW S, IsFiniteSet(S), NEW base, NEW f, NEW choose, NEW Q, base \in Q[{}],
           Leads(f, choose, Q, S), NEW h, h[{}] = base, KeepsTo(h, f, choose, Q, S)
    PROVE  \A s \in SUBSET S : h[s] \in Q[s]
<1> DEFINE Bad == {s \in SUBSET S : h[s] \notin Q[s]}
<1>1. SUFFICES ASSUME Bad # {} PROVE FALSE
    OBVIOUS
<1>2. Bad \in SUBSET FiniteSubsetsOf(S)
    BY FS_FiniteSubsetsOfFinite
<1>3. PICK s \in Bad : \A r \in Bad : r \subseteq s => r = s
    <2> HIDE DEF Bad
    <2>. QED
        BY <1>1, <1>2, LeastSet
<1>4. s \in SUBSET S /\ h[s] \notin Q[s] /\ s # {}
    OBVIOUS
<1>5. choose[s] \in s /\ s \ {choose[s]} \in SUBSET S
    BY <1>4 DEF Leads
<1>6. h[s \ {choose[s]}] \in Q[s \ {choose[s]}]
    BY <1>3, <1>5
<1>. QED
    BY <1>4, <1>5, <1>6 DEF Leads, KeepsTo

\* Such a fold there is.
LEMMA FoldFits ==
    ASSUME NEW S, IsFiniteSet(S), NEW base, NEW f, NEW choose, NEW Q, base \in Q[{}],
           Leads(f, choose, Q, S)
    PROVE  \E h : FoldsUp(h, base, f, choose, S) /\ \A s \in SUBSET S : h[s] \in Q[s]
<1>1. PICK h : FoldsUp(h, base, f, choose, S)
    BY FoldsUpExist DEF Leads
<1>2. h[{}] = base /\ \A s \in SUBSET S : s # {} => h[s] = f[s][h[s \ {choose[s]}]]
    BY <1>1 DEF FoldsUp
<1>3. KeepsTo(h, f, choose, Q, S)
    BY <1>2 DEF KeepsTo
<1>4. \A s \in SUBSET S : h[s] \in Q[s]
    BY <1>2, <1>3, FoldKeeps
<1>. QED
    BY <1>1, <1>4
=============================================================================
