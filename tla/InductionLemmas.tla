--------------------------- MODULE InductionLemmas ---------------------------
(* Induction for the proofs of several modules, over sets instead of        *)
(* predicates: numbers, functions defined by recursion, and sequences.      *)
EXTENDS Naturals, FiniteSets, Sequences, FiniteSetTheorems, SequenceTheorems,
        WellFoundedInduction, TLAPS

(* A set of natural numbers has a least one.  The library has this for a    *)
(* predicate only; here it comes from the order of finite sets.             *)
LEMMA LeastNat ==
  ASSUME NEW T \in SUBSET Nat, T # {}
  PROVE  \E m \in T : \A k \in T : m <= k
<1> DEFINE X == {0 .. k : k \in T}
<1>1. X \subseteq FiniteSubsetsOf(Nat)
  <2> SUFFICES ASSUME NEW k \in T PROVE 0 .. k \in FiniteSubsetsOf(Nat)
    OBVIOUS
  <2> QED BY FS_Interval DEF FiniteSubsetsOf
<1>2. X # {}
  OBVIOUS
<1>3. PICK x \in X : \A y \in X : ~ (<<y, x>> \in StrictSubsetOrdering(Nat))
  <2> HIDE DEF X
  <2> QED BY <1>1, <1>2, FS_StrictSubsetOrderingWellFounded, WFMin
<1>4. PICK m \in T : x = 0 .. m
  OBVIOUS
<1>5. ASSUME NEW k \in T PROVE m <= k
  <2>1. ~(<<0 .. k, 0 .. m>> \in StrictSubsetOrdering(Nat))
    BY <1>3, <1>4
  <2>2. ASSUME k < m PROVE FALSE
    <3>1. (0 .. k) \subseteq (0 .. m) /\ m \notin 0 .. k /\ m \in 0 .. m
      BY <2>2
    <3>2. 0 .. k \in SUBSET Nat /\ 0 .. m \in SUBSET Nat
      OBVIOUS
    <3> QED BY <2>1, <3>1, <3>2 DEF StrictSubsetOrdering
  <2> QED BY <2>2
<1> QED BY <1>5

(* A set that has zero and with each number the next has all.               *)
LEMMA NatInd ==
  ASSUME NEW T, 0 \in T, \A n \in Nat : n \in T => n + 1 \in T
  PROVE  \A n \in Nat : n \in T
<1>1. SUFFICES ASSUME Nat \ T # {} PROVE FALSE
  OBVIOUS
<1>2. PICK m \in Nat \ T : \A k \in Nat \ T : m <= k
  <2>1. Nat \ T \in SUBSET Nat
    OBVIOUS
  <2> QED BY <1>1, <2>1, LeastNat
<1>3. m - 1 \in Nat /\ m - 1 \in T
  BY <1>2
<1> QED BY <1>2, <1>3

(* A function is defined by its first value and a step.                     *)
Recursion(f, S, base, G, n) ==
  f \in [0 .. n -> S] /\ f[0] = base /\ \A i \in 1 .. n : f[i] = G[<<i, f[i - 1]>>]

LEMMA PrefixRec ==
  ASSUME NEW S, NEW base \in S, NEW G \in [Nat \X S -> S], NEW n \in Nat
  PROVE  \E f : Recursion(f, S, base, G, n)
<1> DEFINE Rec(m, f) == f[0] = base /\ \A i \in 1 .. m : f[i] = G[<<i, f[i - 1]>>]
           T == {m \in Nat : \E f \in [0 .. m -> S] : Rec(m, f)}
<1>1. 0 \in T
  <2> DEFINE f == [i \in 0 .. 0 |-> base]
  <2>1. f \in [0 .. 0 -> S] /\ Rec(0, f)
    OBVIOUS
  <2> QED BY <2>1
<1>2. ASSUME NEW m \in Nat, m \in T PROVE m + 1 \in T
  <2>1. PICK g \in [0 .. m -> S] : Rec(m, g)
    BY <1>2
  <2> DEFINE f == [i \in 0 .. m + 1 |-> IF i = m + 1 THEN G[<<m + 1, g[m]>>] ELSE g[i]]
  <2>2. \A i \in 0 .. m : f[i] = g[i]
    OBVIOUS
  <2>3. f[m + 1] = G[<<m + 1, f[m]>>] /\ f \in [0 .. m + 1 -> S]
    <3>1. f[m] = g[m] /\ f[m + 1] = G[<<m + 1, g[m]>>]
      BY <2>2
    <3>2. g[m] \in S /\ G[<<m + 1, g[m]>>] \in S
      OBVIOUS
    <3>3. \A i \in 0 .. m + 1 : (IF i = m + 1 THEN G[<<m + 1, g[m]>>] ELSE g[i]) \in S
      BY <3>2
    <3> QED BY <3>1, <3>3
  <2> HIDE DEF f
  <2>4. ASSUME NEW i \in 1 .. m + 1 PROVE f[i] = G[<<i, f[i - 1]>>]
    <3>1. CASE i = m + 1
      <4>1. i - 1 = m
        BY <3>1
      <4> QED BY <2>3, <3>1, <4>1
    <3>2. CASE i \in 1 .. m
      <4>1. i \in 0 .. m /\ i - 1 \in 0 .. m
        BY <3>2
      <4> QED BY <2>1, <2>2, <3>2, <4>1
    <3> QED BY <3>1, <3>2
  <2>5. f[0] = base
    BY <2>1, <2>2
  <2> QED BY <2>3, <2>4, <2>5
<1>3. n \in T
  <2> HIDE DEF T
  <2> QED BY <1>1, <1>2, NatInd
<1> QED BY <1>3 DEF Recursion

(* A set of sequences that has the empty one and with each those that are   *)
(* longer by one element has all.                                           *)
LEMMA SeqInd ==
  ASSUME NEW X, NEW P, <<>> \in P, \A s \in Seq(X), x \in X : s \in P => Append(s, x) \in P
  PROVE  \A s \in Seq(X) : s \in P
<1> DEFINE T == {n \in Nat : \A s \in Seq(X) : Len(s) = n => s \in P}
<1>1. 0 \in T
  BY EmptySeq
<1>2. ASSUME NEW n \in Nat, n \in T PROVE n + 1 \in T
  <2>1. ASSUME NEW s \in Seq(X), Len(s) = n + 1 PROVE s \in P
    <3>1. s # <<>>
      BY <2>1
    <3>2. PICK t \in Seq(X), x \in X : s = Append(t, x)
      BY <3>1, SequenceEmptyOrAppend
    <3>3. Len(t) = n
      <4>1. Len(Append(t, x)) = Len(t) + 1 /\ Len(t) \in Nat
        BY AppendProperties, LenProperties
      <4> QED BY <2>1, <3>2, <4>1
    <3> QED BY <1>2, <3>2, <3>3
  <2> QED BY <2>1
<1>3. \A n \in Nat : n \in T
  <2> HIDE DEF T
  <2> QED BY <1>1, <1>2, NatInd
<1> QED BY <1>3, LenProperties

(* The function from 0 .. n that starts at base and goes by the steps of G.   *)
Staging(f, n, base, G) == f = [i \in 0 .. n |-> IF i = 0 THEN base ELSE G[i][f[i - 1]]]

(* A recursive function exists if each of its values is in a set of its own *)
(* from which the next step leads to the next set.                          *)
LEMMA StagedRec ==
  ASSUME NEW n \in Nat, NEW Q, NEW base \in Q[0], NEW G,
         \A i \in 1 .. n : \A x \in Q[i - 1] : G[i][x] \in Q[i]
  PROVE  \E f : Staging(f, n, base, G) /\ \A i \in 0 .. n : f[i] \in Q[i]
<1> DEFINE Rec(m, f) == /\ f = [i \in 0 .. m |-> IF i = 0 THEN base ELSE G[i][f[i - 1]]]
                        /\ \A i \in 0 .. m : f[i] \in Q[i]
           T == {m \in Nat : m \in 0 .. n => \E f : Rec(m, f)}
<1>1. 0 \in T
  <2> DEFINE f == [i \in 0 .. 0 |-> base]
  <2>1. f = [i \in 0 .. 0 |-> IF i = 0 THEN base ELSE G[i][f[i - 1]]]
    OBVIOUS
  <2>2. \A i \in 0 .. 0 : f[i] \in Q[i]
    OBVIOUS
  <2> QED BY <2>1, <2>2
<1>2. ASSUME NEW m \in Nat, m \in T, m + 1 \in 0 .. n PROVE \E f : Rec(m + 1, f)
  <2>0. m \in 0 .. n /\ m + 1 \in 1 .. n /\ (m + 1) - 1 = m
    BY <1>2
  <2>1. PICK g : Rec(m, g)
    BY <1>2, <2>0
  <2> DEFINE f == [i \in 0 .. m + 1 |-> IF i = m + 1 THEN G[m + 1][g[m]] ELSE g[i]]
  <2>2. (\A i \in 0 .. m : f[i] = g[i]) /\ f[m + 1] = G[m + 1][g[m]]
    OBVIOUS
  <2>3. \A i \in 0 .. m : g[i] \in Q[i] /\ g[i] = IF i = 0 THEN base ELSE G[i][g[i - 1]]
    BY <2>1
  <2>4. G[m + 1][g[m]] \in Q[m + 1]
    BY <2>0, <2>3
  <2>5. DOMAIN f = 0 .. m + 1
    OBVIOUS
  <2> HIDE DEF f
  <2>6. ASSUME NEW i \in 0 .. m + 1
        PROVE  f[i] \in Q[i] /\ f[i] = IF i = 0 THEN base ELSE G[i][f[i - 1]]
    <3>1. CASE i = m + 1
      <4>1. f[i - 1] = g[m] /\ i # 0
        BY <2>0, <2>2, <3>1
      <4> QED BY <2>2, <2>4, <3>1, <4>1
    <3>2. CASE i \in 0 .. m
      <4>1. i = 0 \/ i - 1 \in 0 .. m
        BY <3>2
      <4> QED BY <2>2, <2>3, <3>2, <4>1
    <3> QED BY <3>1, <3>2
  <2>7. f = [i \in 0 .. m + 1 |-> f[i]]
    <3>1. f = [i \in DOMAIN f |-> f[i]]
      <4>1. \E h : f = [i \in 0 .. m + 1 |-> h[i]]
        BY DEF f
      <4> QED BY <2>5, <4>1
    <3> QED BY <2>5, <3>1
  <2>8. f = [i \in 0 .. m + 1 |-> IF i = 0 THEN base ELSE G[i][f[i - 1]]]
    BY <2>6, <2>7
  <2> QED BY <2>6, <2>8
<1>3. n \in T
  <2>1. \A m \in Nat : m \in T => m + 1 \in T
    BY <1>2
  <2> HIDE DEF T
  <2> QED BY <1>1, <2>1, NatInd
<1> QED BY <1>3 DEF Staging

(* The values of a sequence of steps are in the sets that the steps stay in. *)
LEMMA StagedIn ==
  ASSUME NEW n \in Nat, NEW Q, NEW f, f[0] \in Q[0],
         \A i \in 1 .. n : f[i - 1] \in Q[i - 1] => f[i] \in Q[i]
  PROVE  f[n] \in Q[n]
<1> DEFINE T == {m \in Nat : m \in 0 .. n => f[m] \in Q[m]}
<1>1. 0 \in T
  OBVIOUS
<1>2. ASSUME NEW m \in Nat, m \in T, m + 1 \in 0 .. n PROVE f[m + 1] \in Q[m + 1]
  <2>1. m \in 0 .. n /\ m + 1 \in 1 .. n /\ (m + 1) - 1 = m
    BY <1>2
  <2> QED BY <1>2, <2>1
<1>3. \A m \in Nat : m \in T => m + 1 \in T
  BY <1>2
<1>4. \A m \in Nat : m \in T
  <2> HIDE DEF T
  <2> QED BY <1>1, <1>3, NatInd
<1> QED BY <1>4
=============================================================================
