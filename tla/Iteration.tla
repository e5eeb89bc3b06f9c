----------------------------- MODULE Iteration -----------------------------
(***************************************************************************)
(* Induction on the natural numbers for sets and functions, and what it    *)
(* says of a function applied again and again: that the sequence exists,   *)
(* and that a growing sequence of finite sets comes to rest. The           *)
(* references of the specifications are iterations (SearchedFrom of        *)
(* PointsTo.tla, TracedBack and TracedCalls of CallGraph.tla) or speak of  *)
(* paths (PathsFrom of Liveness.tla).                                      *)
(***************************************************************************)
EXTENDS Integers, FiniteSetTheorems, TLAPS

\* A set of natural numbers that is not empty has a least element.
LEMMA LeastNumber ==
    ASSUME NEW T \in SUBSET Nat, T # {}
    PROVE  \E n \in T : \A k \in T : n <= k
<1>. DEFINE S == {0 .. n : n \in T}
<1>1. S \subseteq FiniteSubsetsOf(Nat)
  <2>1. \A n \in T : 0 .. n \in SUBSET Nat /\ IsFiniteSet(0 .. n)
      BY FS_Interval
  <2>. QED BY <2>1 DEF FiniteSubsetsOf
<1>2. S # {}
    OBVIOUS
<1>3. PICK x \in S : \A y \in S : <<y, x>> \notin StrictSubsetOrdering(Nat)
    BY <1>1, <1>2, FS_StrictSubsetOrderingWellFounded, WFMin, Zenon
<1>4. PICK n \in T : x = 0 .. n
    OBVIOUS
<1>5. ASSUME NEW k \in T, k < n PROVE FALSE
  <2>1. 0 .. k \in S
      OBVIOUS
  <2>2. /\ 0 .. k \subseteq 0 .. n /\ 0 .. k # 0 .. n
        /\ 0 .. k \in SUBSET Nat /\ 0 .. n \in SUBSET Nat
      BY <1>5
  <2>. QED BY <1>3, <1>4, <2>1, <2>2 DEF StrictSubsetOrdering
<1>. QED BY <1>5

\* A set that holds 0 and with n also n + 1 holds every natural number.
LEMMA InductionOnSet ==
    ASSUME NEW T, 0 \in T, \A n \in Nat : n \in T => n + 1 \in T
    PROVE  Nat \subseteq T
<1>. DEFINE Missed == {n \in Nat : n \notin T}
<1>1. CASE Missed = {}
    BY <1>1
<1>2. CASE Missed # {}
  <2>1. PICK n \in Missed : \A k \in Missed : n <= k
      BY <1>2, LeastNumber
  <2>2. n # 0 /\ n - 1 \in Nat /\ n - 1 \notin Missed
      BY <2>1
  <2>. QED BY <2>1, <2>2
<1>. QED BY <1>1, <1>2

\* F maps subsets of V to subsets of V.
StaysIn(F, V) == \A X \in SUBSET V : F[X] \in SUBSET V

\* g is the sequence of subsets of V that starts with x and goes on by F.
Iterates(g, F, x, V) ==
    /\ g \in [Nat -> SUBSET V]
    /\ g[0] = x
    /\ \A n \in Nat : g[n + 1] = F[g[n]]

\* F can be applied again and again to a subset x of V.
LEMMA IterationExists ==
    ASSUME NEW V, NEW F, NEW x \in SUBSET V, StaysIn(F, V)
    PROVE  \E g : Iterates(g, F, x, V)
<1>. USE DEF StaysIn
<1>. DEFINE IsPrefix(h, m) == /\ h \in [0 .. m -> SUBSET V]
                              /\ h[0] = x
                              /\ \A n \in 0 .. m - 1 : h[n + 1] = F[h[n]]
            T == {m \in Nat : \E h : IsPrefix(h, m)}
<1>1. Nat \subseteq T
  <2>1. 0 \in T
    <3>1. IsPrefix([n \in 0 .. 0 |-> x], 0)
        OBVIOUS
    <3>. QED BY <3>1
  <2>2. ASSUME NEW m \in Nat, m \in T PROVE m + 1 \in T
    <3>1. PICK h : IsPrefix(h, m)
        BY <2>2
    <3>. DEFINE k == [n \in 0 .. m + 1 |-> IF n = m + 1 THEN F[h[m]] ELSE h[n]]
    <3>2. IsPrefix(k, m + 1)
      <4>1. k \in [0 .. m + 1 -> SUBSET V] /\ k[0] = x
          BY <3>1
      <4>2. ASSUME NEW n \in 0 .. m PROVE k[n + 1] = F[k[n]]
          BY <3>1, <4>2
      <4>3. 0 .. m + 1 - 1 = 0 .. m
          OBVIOUS
      <4>. HIDE DEF k
      <4>. QED BY <4>1, <4>2, <4>3
    <3>. HIDE DEF k
    <3>. QED BY <3>2
  <2>. HIDE DEF T
  <2>. QED BY <2>1, <2>2, InductionOnSet
<1>2. ASSUME NEW h, NEW k, NEW m \in Nat, NEW l \in Nat, m <= l,
             IsPrefix(h, m), IsPrefix(k, l)
      PROVE  \A n \in 0 .. m : h[n] = k[n]
  <2>. DEFINE U == {n \in Nat : n <= m => h[n] = k[n]}
  <2>1. 0 \in U
      BY <1>2
  <2>2. ASSUME NEW n \in Nat, n \in U PROVE n + 1 \in U
      BY <1>2, <2>2
  <2>3. Nat \subseteq U
    <3>. HIDE DEF U
    <3>. QED BY <2>1, <2>2, InductionOnSet
  <2>. QED BY <2>3
<1>3. PICK s : \A m \in Nat : IsPrefix(s[m], m)
  <2>. DEFINE t == [m \in Nat |-> CHOOSE h : IsPrefix(h, m)]
  <2>. HIDE DEF IsPrefix
  <2>1. \A m \in Nat : IsPrefix(t[m], m)
      BY <1>1
  <2>. QED BY <2>1
<1>. DEFINE g == [n \in Nat |-> s[n][n]]
<1>4. g \in [Nat -> SUBSET V] /\ g[0] = x
    BY <1>3
<1>5. ASSUME NEW n \in Nat PROVE g[n + 1] = F[g[n]]
  <2>1. s[n][n] = s[n + 1][n]
    <3>. HIDE DEF IsPrefix
    <3>1. IsPrefix(s[n], n) /\ IsPrefix(s[n + 1], n + 1)
        BY <1>3
    <3>. QED BY <3>1, <1>2
  <2>2. s[n + 1][n + 1] = F[s[n + 1][n]]
      BY <1>3
  <2>. QED BY <2>1, <2>2
<1>. HIDE DEF g
<1>. QED BY <1>4, <1>5 DEF Iterates

\* A sequence of sets that grows, that stands still once it did, and that gains only
\* elements of a finite set W, stands still after as many steps as W has elements.
LEMMA ComesToRest ==
    ASSUME NEW g, NEW W, IsFiniteSet(W), NEW N \in Nat, Cardinality(W) <= N,
           \A n \in Nat : g[n] \subseteq g[n + 1] /\ g[n] \ g[0] \subseteq W,
           \A n \in Nat : g[n + 1] = g[n] => g[n + 2] = g[n + 1]
    PROVE  g[N + 1] = g[N]
<1>. DEFINE Gain(n) == g[n] \ g[0]
<1>1. SUFFICES ASSUME g[N + 1] # g[N] PROVE FALSE
    OBVIOUS
<1>2. ASSUME NEW n \in 0 .. N PROVE g[n + 1] # g[n]
  <2>. SUFFICES ASSUME g[n + 1] = g[n] PROVE FALSE
      OBVIOUS
  <2>. DEFINE T == {k \in Nat : g[n + k + 1] = g[n + k]}
  <2>1. 0 \in T
      OBVIOUS
  <2>2. ASSUME NEW k \in Nat, k \in T PROVE k + 1 \in T
    <3>1. n + k \in Nat /\ n + (k + 1) = n + k + 1 /\ n + (k + 1) + 1 = n + k + 2
        OBVIOUS
    <3>. QED BY <2>2, <3>1
  <2>3. Nat \subseteq T
    <3>. HIDE DEF T
    <3>. QED BY <2>1, <2>2, InductionOnSet
  <2>4. N - n \in Nat /\ n + (N - n) = N
      OBVIOUS
  <2>. QED BY <2>3, <2>4, <1>1
<1>3. \A n \in Nat : g[0] \subseteq g[n]
  <2>. DEFINE T == {n \in Nat : g[0] \subseteq g[n]}
  <2>1. 0 \in T /\ \A n \in Nat : n \in T => n + 1 \in T
      OBVIOUS
  <2>2. Nat \subseteq T
    <3>. HIDE DEF T
    <3>. QED BY <2>1, InductionOnSet
  <2>. QED BY <2>2
<1>4. \A n \in Nat : /\ Gain(n) \in SUBSET W
                     /\ IsFiniteSet(Gain(n))
                     /\ Cardinality(Gain(n)) \in Nat
                     /\ Cardinality(Gain(n)) <= Cardinality(W)
    BY FS_Subset, FS_CardinalityType
<1>5. ASSUME NEW n \in 0 .. N PROVE Cardinality(Gain(n)) < Cardinality(Gain(n + 1))
  <2>1. n \in Nat /\ n + 1 \in Nat
      OBVIOUS
  <2>2. g[n] \subseteq g[n + 1] /\ g[n] # g[n + 1] /\ g[0] \subseteq g[n] /\ g[0] \subseteq g[n + 1]
      BY <1>2, <1>3, <2>1
  <2>3. PICK y \in g[n + 1] : y \notin g[n]
      BY <2>2
  <2>4. Gain(n) \in SUBSET Gain(n + 1) /\ Gain(n) # Gain(n + 1)
      BY <2>2, <2>3
  <2>. HIDE DEF Gain
  <2>5. /\ Cardinality(Gain(n)) <= Cardinality(Gain(n + 1))
        /\ Cardinality(Gain(n)) # Cardinality(Gain(n + 1))
      BY <2>1, <2>4, <1>4, FS_Subset, Zenon
  <2>6. Cardinality(Gain(n)) \in Nat /\ Cardinality(Gain(n + 1)) \in Nat
      BY <1>4, <2>1, Zenon
  <2>. QED BY <2>5, <2>6
<1>6. \A n \in Nat : n <= N + 1 => Cardinality(Gain(n)) >= n
  <2>. DEFINE T == {n \in Nat : n <= N + 1 => Cardinality(Gain(n)) >= n}
  <2>. HIDE DEF Gain
  <2>1. 0 \in T
      BY <1>4
  <2>2. ASSUME NEW n \in Nat, n \in T PROVE n + 1 \in T
      BY <1>4, <1>5, <2>2
  <2>3. Nat \subseteq T
    <3>. HIDE DEF T
    <3>. QED BY <2>1, <2>2, InductionOnSet
  <2>. QED BY <2>3
<1>7. Cardinality(W) \in Nat
    BY FS_CardinalityType
<1>. HIDE DEF Gain
<1>. QED BY <1>4, <1>6, <1>7

\* A sequence that goes on by F as long as it stays in V is an iteration of F.
LEMMA IteratesByStep ==
    ASSUME NEW V, NEW F, StaysIn(F, V), NEW x \in SUBSET V, NEW g,
           g = [n \in Nat |-> g[n]], g[0] = x,
           \A n \in Nat : g[n] \in SUBSET V => g[n + 1] = F[g[n]]
    PROVE  Iterates(g, F, x, V)
<1>1. \A n \in Nat : g[n] \in SUBSET V
  <2>. DEFINE T == {n \in Nat : g[n] \in SUBSET V}
  <2>1. 0 \in T
      OBVIOUS
  <2>2. ASSUME NEW n \in Nat, n \in T PROVE n + 1 \in T
    <3>1. g[n] \in SUBSET V /\ g[n + 1] = F[g[n]]
        BY <2>2
    <3>2. F[g[n]] \in SUBSET V
        BY <3>1 DEF StaysIn
    <3>. QED BY <3>1, <3>2
  <2>3. Nat \subseteq T
    <3>. HIDE DEF T
    <3>. QED BY <2>1, <2>2, InductionOnSet
  <2>. QED BY <2>3
<1>. QED BY <1>1 DEF Iterates

\* F takes nothing away.
Inflates(F, V) == \A X \in SUBSET V : X \subseteq F[X]

\* R is the least subset of V that holds x and that F leaves alone: it lies within every
\* set that holds x and, with a set, what F makes of it.
LeastFixed(R, F, x, V) ==
    /\ R \in SUBSET V /\ x \subseteq R /\ F[R] = R
    /\ \A Y : x \subseteq Y /\ (\A X \in SUBSET V : X \subseteq Y => F[X] \subseteq Y)
                  => R \subseteq Y

\* A growing step, applied as often as there are elements to gain, reaches its least
\* fixed point above x.
LEMMA LeastFixedPoint ==
    ASSUME NEW V, NEW F, NEW x, NEW g, Iterates(g, F, x, V), Inflates(F, V),
           NEW N \in Nat, IsFiniteSet(V \ x), Cardinality(V \ x) <= N
    PROVE  LeastFixed(g[N], F, x, V)
<1>1. \A n \in Nat : /\ g[n] \in SUBSET V
                     /\ g[n] \subseteq g[n + 1]
                     /\ g[n + 1] = F[g[n]]
    BY DEF Iterates, Inflates
<1>2. g[0] = x
    BY DEF Iterates
<1>3. \A n \in Nat : x \subseteq g[n]
  <2>. DEFINE T == {n \in Nat : x \subseteq g[n]}
  <2>1. 0 \in T /\ \A n \in Nat : n \in T => n + 1 \in T
      BY <1>1, <1>2
  <2>2. Nat \subseteq T
    <3>. HIDE DEF T
    <3>. QED BY <2>1, InductionOnSet
  <2>. QED BY <2>2
<1>4. g[N + 1] = g[N]
  <2>. DEFINE W == V \ x
  <2>1. \A n \in Nat : g[n] \subseteq g[n + 1] /\ g[n] \ g[0] \subseteq W
      BY <1>1, <1>2
  <2>2. \A n \in Nat : n + 1 \in Nat /\ (n + 1) + 1 = n + 2
      OBVIOUS
  <2>3. \A n \in Nat : g[n + 1] = g[n] => g[n + 2] = g[n + 1]
      BY <1>1, <2>2
  <2>4. IsFiniteSet(W) /\ Cardinality(W) <= N
      OBVIOUS
  <2>. HIDE DEF W
  <2>. QED BY <2>1, <2>3, <2>4, ComesToRest
<1>5. ASSUME NEW Y, x \subseteq Y, \A X \in SUBSET V : X \subseteq Y => F[X] \subseteq Y
      PROVE  g[N] \subseteq Y
  <2>. DEFINE T == {n \in Nat : g[n] \subseteq Y}
  <2>1. 0 \in T
      BY <1>2, <1>5
  <2>2. ASSUME NEW n \in Nat, n \in T PROVE n + 1 \in T
      BY <1>1, <1>5, <2>2
  <2>3. Nat \subseteq T
    <3>. HIDE DEF T
    <3>. QED BY <2>1, <2>2, InductionOnSet
  <2>. QED BY <2>3
<1>. QED BY <1>1, <1>3, <1>4, <1>5 DEF LeastFixed

\* A search from v through what values have in S: the members of Fn end it.
Searched(V, S, Fn, v) ==
    LET within[n \in Nat] ==
            IF n = 0 THEN {v}
            ELSE UNION {X \cup UNION {S[u] : u \in X \ Fn} : X \in {within[n - 1]}}
    IN  within[Cardinality(V)]

\* It finds the least set that holds v and what its members that are not in Fn have.
LEMMA SearchedLeast ==
    ASSUME NEW V, IsFiniteSet(V), NEW Fn, NEW S \in [V -> SUBSET V], NEW v \in V
    PROVE  LET R == Searched(V, S, Fn, v)
           IN  /\ R \in SUBSET V /\ v \in R
               /\ \A u \in R \ Fn : S[u] \subseteq R
               /\ \A Y : v \in Y /\ (\A u \in Y \ Fn : S[u] \subseteq Y) => R \subseteq Y
<1>. DEFINE F == [X \in SUBSET V |-> X \cup UNION {S[u] : u \in X \ Fn}]
            Step(g) == [n \in Nat |->
                          IF n = 0 THEN {v}
                          ELSE UNION {X \cup UNION {S[u] : u \in X \ Fn} : X \in {g[n - 1]}}]
            within == CHOOSE g : g = Step(g)
            N == Cardinality(V)
<1>1. /\ N \in Nat
      /\ IsFiniteSet(V \ {v}) /\ Cardinality(V \ {v}) <= N
  <2>1. V \ {v} \in SUBSET V
      OBVIOUS
  <2>. QED BY <2>1, FS_CardinalityType, FS_Subset
<1>2. StaysIn(F, V) /\ Inflates(F, V) /\ {v} \in SUBSET V
    BY DEF StaysIn, Inflates
<1>3. within = Step(within)
  <2>1. PICK g : Iterates(g, F, {v}, V)
    <3>. HIDE DEF F
    <3>. QED BY <1>2, IterationExists
  <2>2. \A n \in Nat : n # 0 => g[n - 1] \in SUBSET V /\ g[n] = F[g[n - 1]]
    <3>1. \A n \in Nat : n # 0 => n - 1 \in Nat /\ n = (n - 1) + 1
        OBVIOUS
    <3>. HIDE DEF F
    <3>. QED BY <2>1, <3>1 DEF Iterates
  <2>3. ASSUME NEW n \in Nat, n # 0
        PROVE  g[n] = UNION {X \cup UNION {S[u] : u \in X \ Fn} : X \in {g[n - 1]}}
    <3>1. g[n - 1] \in SUBSET V /\ g[n] = F[g[n - 1]]
        BY <2>2, <2>3
    <3>. HIDE DEF F
    <3>2. F[g[n - 1]] = g[n - 1] \cup UNION {S[u] : u \in g[n - 1] \ Fn}
        BY <3>1 DEF F
    <3>. QED BY <3>1, <3>2
  <2>4. g = Step(g)
      BY <2>1, <2>3 DEF Iterates
  <2>. HIDE DEF Step
  <2>. QED BY <2>4
<1>4. Searched(V, S, Fn, v) = within[N]
    BY <1>1 DEF Searched
<1>. HIDE DEF within
<1>5. ASSUME NEW n \in Nat, within[n] \in SUBSET V
      PROVE  within[n + 1] = F[within[n]]
  <2>1. n + 1 # 0 /\ (n + 1) - 1 = n /\ n + 1 \in Nat
      OBVIOUS
  <2>2. within[n + 1] = UNION {X \cup UNION {S[u] : u \in X \ Fn} : X \in {within[n]}}
      BY <1>3, <2>1
  <2>. QED BY <1>5, <2>2
<1>6. within = [n \in Nat |-> within[n]] /\ within[0] = {v}
    BY <1>3
<1>7. LeastFixed(within[N], F, {v}, V)
  <2>. HIDE DEF F, Step, N
  <2>1. Iterates(within, F, {v}, V)
      BY <1>2, <1>5, <1>6, IteratesByStep
  <2>. QED BY <1>1, <1>2, <2>1, LeastFixedPoint
<1>8. within[N] \in SUBSET V /\ v \in within[N] /\ F[within[N]] = within[N]
  <2>. HIDE DEF F
  <2>. QED BY <1>7 DEF LeastFixed
<1>9. \A u \in within[N] \ Fn : S[u] \subseteq within[N]
    BY <1>8
<1>10. ASSUME NEW Y, v \in Y, \A u \in Y \ Fn : S[u] \subseteq Y
       PROVE  within[N] \subseteq Y
  <2>1. \A X \in SUBSET V : X \subseteq Y => F[X] \subseteq Y
      BY <1>10
  <2>. HIDE DEF F
  <2>. QED BY <1>7, <1>10, <2>1 DEF LeastFixed
<1>. QED BY <1>4, <1>8, <1>9, <1>10
=============================================================================
