-------------------------- MODULE Registry_proofs --------------------------
(* Theorems about Registry, for any programs, messages and hooks of other   *)
(* modules, and any number of setups: its type invariant, that the hooks of *)
(* other modules are kept, that vinny's slots are those in the lists, that  *)
(* freed memory is met only by messages a command overlaps, and that a      *)
(* message starts the programs that are configured for it.                  *)
EXTENDS Registry, InductionLemmas, FiniteSetTheorems, SequenceTheorems, TLAPS

(***************************************************************************)
(* Keep takes over, in their order, the elements of a sequence that are in *)
(* a set.                                                                  *)
(***************************************************************************)
KeepStep(s, T, f, i) == IF s[i] \in T THEN Append(f[i - 1], s[i]) ELSE f[i - 1]

Kept(X, s, T, f) == /\ f \in [0 .. Len(s) -> Seq(X)] /\ f[0] = <<>>
                    /\ \A i \in 1 .. Len(s) : f[i] = KeepStep(s, T, f, i)

LEMMA KeepIs ==
  ASSUME NEW X, NEW s \in Seq(X), NEW T
  PROVE  \E f : Kept(X, s, T, f) /\ Keep(s, T) = f[Len(s)]
<1> DEFINE n == Len(s)
           G == [p \in Nat \X Seq(X) |->
                   IF p[1] \in 1 .. n /\ s[p[1]] \in T THEN Append(p[2], s[p[1]]) ELSE p[2]]
           Def(g) == [i \in 0 .. n |-> IF i = 0 THEN <<>>
                                       ELSE IF s[i] \in T THEN Append(g[i - 1], s[i]) ELSE g[i - 1]]
<1>0. n \in Nat /\ \A i \in 1 .. n : s[i] \in X
  BY LenProperties, ElementOfSeq
<1>1. G \in [Nat \X Seq(X) -> Seq(X)]
  <2>1. ASSUME NEW p \in Nat \X Seq(X)
        PROVE  (IF p[1] \in 1 .. n /\ s[p[1]] \in T THEN Append(p[2], s[p[1]]) ELSE p[2]) \in Seq(X)
    BY <1>0, AppendProperties
  <2> QED BY <2>1
<1>2. <<>> \in Seq(X)
  BY EmptySeq
<1>3. PICK f \in [0 .. n -> Seq(X)] : f[0] = <<>> /\ \A i \in 1 .. n : f[i] = G[<<i, f[i - 1]>>]
  <2> DEFINE Q == Seq(X)
  <2>1. G \in [Nat \X Q -> Q] /\ <<>> \in Q /\ n \in Nat
    BY <1>0, <1>1, <1>2
  <2> HIDE DEF G, n, Q
  <2>2. \E f : Recursion(f, Q, <<>>, G, n)
    BY <2>1, PrefixRec
  <2> QED BY <2>2 DEF Q, Recursion
<1>4. ASSUME NEW i \in 1 .. n PROVE f[i] = KeepStep(s, T, f, i)
  <2>1. i - 1 \in 0 .. n /\ i \in Nat
    BY <1>0
  <2>2. f[i - 1] \in Seq(X)
    BY <2>1
  <2>3. G[<<i, f[i - 1]>>] = IF s[i] \in T THEN Append(f[i - 1], s[i]) ELSE f[i - 1]
    BY <2>1, <2>2
  <2> QED BY <1>3, <2>3 DEF KeepStep
<1>5. f = Def(f)
  <2>1. \A i \in 0 .. n : f[i] = Def(f)[i]
    <3>1. ASSUME NEW i \in 0 .. n, i # 0 PROVE f[i] = Def(f)[i]
      <4>1. i \in 1 .. n
        BY <1>0, <3>1
      <4> QED BY <1>4, <3>1, <4>1 DEF KeepStep
    <3> QED BY <1>3, <3>1
  <2> QED BY <2>1
<1> DEFINE h == CHOOSE g : g = Def(g)
<1>6. h = Def(h)
  <2> HIDE DEF Def
  <2> QED BY <1>5
<1>7. Keep(s, T) = h[n]
  BY DEF Keep
<1> HIDE DEF h
<1>8. h[0] = <<>> /\ \A i \in 1 .. n : h[i] = KeepStep(s, T, h, i)
  <2>1. h[0] = <<>>
    BY <1>0, <1>6
  <2>2. ASSUME NEW i \in 1 .. n PROVE h[i] = KeepStep(s, T, h, i)
    <3>1. i \in 0 .. n /\ i # 0
      BY <1>0
    <3> QED BY <1>6, <3>1 DEF KeepStep
  <2> QED BY <2>1, <2>2
<1>9. \A i \in Nat : i \in 0 .. n => h[i] = f[i]
  <2> DEFINE S == {i \in Nat : i \in 0 .. n => h[i] = f[i]}
  <2>1. 0 \in S
    BY <1>3, <1>8
  <2>2. ASSUME NEW i \in Nat, i \in S PROVE i + 1 \in S
    <3>1. CASE i + 1 \in 1 .. n
      <4>1. i \in 0 .. n /\ (i + 1) - 1 = i
        BY <1>0, <3>1
      <4> QED BY <1>4, <1>8, <2>2, <3>1, <4>1 DEF KeepStep
    <3>2. CASE i + 1 \notin 1 .. n
      <4>1. i + 1 \notin 0 .. n
        BY <1>0, <3>2
      <4> QED BY <4>1
    <3> QED BY <3>1, <3>2
  <2>3. \A i \in Nat : i \in S
    <3> HIDE DEF S
    <3> QED BY <2>1, <2>2, NatInd
  <2> QED BY <2>3
<1>10. Keep(s, T) = f[n]
  BY <1>0, <1>7, <1>9
<1> QED BY <1>3, <1>4, <1>10 DEF Kept

LEMMA KeepEmpty == ASSUME NEW T PROVE Keep(<<>>, T) = <<>>
<1>1. PICK f : Kept({}, <<>>, T, f) /\ Keep(<<>>, T) = f[Len(<<>>)]
  BY KeepIs, EmptySeq
<1> QED BY <1>1, EmptySeq DEF Kept

LEMMA KeepType ==
  ASSUME NEW X, NEW s \in Seq(X), NEW T
  PROVE  Keep(s, T) \in Seq(X)
<1>1. PICK f : Kept(X, s, T, f) /\ Keep(s, T) = f[Len(s)]
  BY KeepIs
<1>2. Len(s) \in 0 .. Len(s)
  BY LenProperties
<1> QED BY <1>1, <1>2 DEF Kept

LEMMA KeepAppend ==
  ASSUME NEW X, NEW s \in Seq(X), NEW x \in X, NEW T
  PROVE  Keep(Append(s, x), T) = IF x \in T THEN Append(Keep(s, T), x) ELSE Keep(s, T)
<1> DEFINE t == Append(s, x)
           n == Len(s)
<1>1. t \in Seq(X) /\ Len(t) = n + 1 /\ n \in Nat /\ (\A i \in 1 .. n : t[i] = s[i]) /\ t[n + 1] = x
  BY AppendProperties, LenProperties
<1>2. PICK f : Kept(X, s, T, f) /\ Keep(s, T) = f[n]
  BY KeepIs
<1>3. PICK g : Kept(X, t, T, g) /\ Keep(t, T) = g[Len(t)]
  BY <1>1, KeepIs
<1> HIDE DEF t, n
<1>4. /\ f[0] = <<>> /\ g[0] = <<>>
      /\ \A i \in 1 .. n : f[i] = KeepStep(s, T, f, i)
      /\ \A i \in 1 .. n + 1 : g[i] = KeepStep(t, T, g, i)
  BY <1>1, <1>2, <1>3 DEF Kept, n
<1>5. \A i \in Nat : i \in 0 .. n => g[i] = f[i]
  <2> DEFINE S == {i \in Nat : i \in 0 .. n => g[i] = f[i]}
  <2>1. 0 \in S
    BY <1>4
  <2>2. ASSUME NEW i \in Nat, i \in S PROVE i + 1 \in S
    <3>1. CASE i + 1 \in 1 .. n
      <4>1. i \in 0 .. n /\ (i + 1) - 1 = i /\ i + 1 \in 1 .. n + 1
        BY <1>1, <3>1
      <4> QED BY <1>1, <1>4, <2>2, <3>1, <4>1, SMTT(60) DEF KeepStep
    <3>2. CASE i + 1 \notin 1 .. n
      <4>1. i + 1 \notin 0 .. n
        BY <1>1, <3>2
      <4> QED BY <4>1
    <3> QED BY <3>1, <3>2
  <2>3. \A i \in Nat : i \in S
    <3> HIDE DEF S
    <3> QED BY <2>1, <2>2, NatInd
  <2> QED BY <2>3
<1>6. g[n] = f[n] /\ n + 1 \in 1 .. n + 1 /\ (n + 1) - 1 = n
  BY <1>1, <1>5
<1>7. g[n + 1] = IF x \in T THEN Append(f[n], x) ELSE f[n]
  BY <1>1, <1>4, <1>6 DEF KeepStep
<1> QED BY <1>1, <1>2, <1>3, <1>7 DEF t

LEMMA SetOfAppend ==
  ASSUME NEW X, NEW s \in Seq(X), NEW x \in X
  PROVE  ToSet(Append(s, x)) = ToSet(s) \cup {x}
<1> DEFINE t == Append(s, x)
           n == Len(s)
<1>1. /\ t \in Seq(X) /\ Len(t) = n + 1 /\ n \in Nat /\ (\A i \in 1 .. n : t[i] = s[i]) /\ t[n + 1] = x
      /\ DOMAIN s = 1 .. n /\ DOMAIN t = 1 .. n + 1
  BY AppendProperties, LenProperties
<1> HIDE DEF t, n
<1>2. ToSet(t) = ToSet(s) \cup {x}
  <2>1. \A i \in 1 .. n : i \in 1 .. n + 1
    BY <1>1
  <2>2. \A i \in 1 .. n + 1 : i \in 1 .. n \/ i = n + 1
    BY <1>1
  <2>3. n + 1 \in 1 .. n + 1
    BY <1>1
  <2> QED BY <1>1, <2>1, <2>2, <2>3 DEF ToSet
<1> QED BY <1>2 DEF t

LEMMA SetOfConcat ==
  ASSUME NEW X, NEW s \in Seq(X), NEW t \in Seq(X)
  PROVE  /\ s \o t \in Seq(X)
         /\ ToSet(s \o t) = ToSet(s) \cup ToSet(t)
<1> DEFINE u == s \o t
           n == Len(s)
           k == Len(t)
<1>1. /\ u \in Seq(X) /\ Len(u) = n + k /\ n \in Nat /\ k \in Nat
      /\ DOMAIN s = 1 .. n /\ DOMAIN t = 1 .. k /\ DOMAIN u = 1 .. n + k
      /\ \A i \in 1 .. n + k : u[i] = IF i <= n THEN s[i] ELSE t[i - n]
  BY ConcatProperties, LenProperties
<1> HIDE DEF u, n, k
<1>2. ASSUME NEW i \in 1 .. n + k PROVE u[i] \in ToSet(s) \cup ToSet(t)
  <2>1. CASE i <= n
    <3>1. i \in 1 .. n /\ u[i] = s[i]
      BY <1>1, <2>1
    <3> QED BY <1>1, <3>1 DEF ToSet
  <2>2. CASE ~(i <= n)
    <3>1. i - n \in 1 .. k
      BY <1>1, <2>2
    <3> QED BY <1>1, <2>2, <3>1 DEF ToSet
  <2> QED BY <2>1, <2>2
<1>3. ASSUME NEW i \in 1 .. n PROVE s[i] \in ToSet(u)
  <2>1. i \in 1 .. n + k /\ i <= n
    BY <1>1
  <2> QED BY <1>1, <2>1 DEF ToSet
<1>4. ASSUME NEW i \in 1 .. k PROVE t[i] \in ToSet(u)
  <2>1. i + n \in 1 .. n + k /\ ~(i + n <= n) /\ (i + n) - n = i
    BY <1>1
  <2> QED BY <1>1, <2>1 DEF ToSet
<1>5. ToSet(u) \subseteq ToSet(s) \cup ToSet(t)
  BY <1>1, <1>2 DEF ToSet
<1>6. ToSet(s) \subseteq ToSet(u) /\ ToSet(t) \subseteq ToSet(u)
  BY <1>1, <1>3, <1>4 DEF ToSet
<1> QED BY <1>1, <1>5, <1>6 DEF u

LEMMA SetOfSeq ==
  ASSUME NEW X, NEW s \in Seq(X)
  PROVE  ToSet(s) \subseteq X /\ s \in Seq(ToSet(s)) /\ ToSet(<<>>) = {}
<1>1. DOMAIN s = 1 .. Len(s) /\ Len(s) \in Nat /\ \A i \in 1 .. Len(s) : s[i] \in X
  BY LenProperties, ElementOfSeq
<1>2. s \in [1 .. Len(s) -> ToSet(s)]
  BY <1>1, LenProperties DEF ToSet
<1>3. ToSet(<<>>) = {}
  BY DEF ToSet
<1>4. s \in Seq(ToSet(s))
  <2> DEFINE T == ToSet(s)
  <2> HIDE DEF T
  <2>1. s \in [1 .. Len(s) -> T]
    BY <1>2 DEF T
  <2>2. s \in Seq(T)
    BY <1>1, <2>1, SeqDef
  <2> QED BY <2>2 DEF T
<1>5. ToSet(s) \subseteq X
  BY <1>1 DEF ToSet
<1> QED BY <1>3, <1>4, <1>5

LEMMA SetOfKeep ==
  ASSUME NEW X, NEW T
  PROVE  \A s \in Seq(X) : ToSet(Keep(s, T)) = ToSet(s) \cap T
<1> DEFINE P == {s \in Seq(X) : ToSet(Keep(s, T)) = ToSet(s) \cap T}
<1>1. <<>> \in P
  BY KeepEmpty, SetOfSeq, EmptySeq
<1>2. ASSUME NEW s \in Seq(X), NEW x \in X, s \in P PROVE Append(s, x) \in P
  <2>1. /\ Append(s, x) \in Seq(X) /\ Keep(s, T) \in Seq(X)
        /\ ToSet(Append(s, x)) = ToSet(s) \cup {x}
    BY AppendProperties, KeepType, SetOfAppend
  <2>2. CASE x \in T
    <3>1. ToSet(Keep(Append(s, x), T)) = ToSet(Keep(s, T)) \cup {x}
      <4>1. Keep(Append(s, x), T) = Append(Keep(s, T), x)
        BY <2>2, KeepAppend
      <4> QED BY <2>1, <4>1, SetOfAppend
    <3> QED BY <1>2, <2>1, <2>2, <3>1
  <2>3. CASE x \notin T
    <3>1. ToSet(Keep(Append(s, x), T)) = ToSet(Keep(s, T))
      BY <2>3, KeepAppend
    <3> QED BY <1>2, <2>1, <2>3, <3>1
  <2> QED BY <2>2, <2>3
<1> HIDE DEF P
<1>3. \A s \in Seq(X) : s \in P
  BY <1>1, <1>2, SeqInd
<1> QED BY <1>3 DEF P

LEMMA ConcatAppend ==
  ASSUME NEW X, NEW s \in Seq(X), NEW t \in Seq(X), NEW x \in X
  PROVE  s \o Append(t, x) = Append(s \o t, x)
<1>1. <<x>> \in Seq(X) /\ s \o t \in Seq(X)
  BY ConcatProperties
<1>2. Append(t, x) = t \o <<x>> /\ Append(s \o t, x) = (s \o t) \o <<x>>
  BY <1>1, AppendIsConcat
<1> QED BY <1>1, <1>2, ConcatAssociative

LEMMA KeepConcat ==
  ASSUME NEW X, NEW s \in Seq(X), NEW T
  PROVE  \A t \in Seq(X) : Keep(s \o t, T) = Keep(s, T) \o Keep(t, T)
<1> DEFINE P == {t \in Seq(X) : Keep(s \o t, T) = Keep(s, T) \o Keep(t, T)}
<1>0. Keep(s, T) \in Seq(X)
  BY KeepType
<1>1. <<>> \in P
  <2>1. s \o <<>> = s /\ Keep(s, T) \o <<>> = Keep(s, T)
    BY <1>0, ConcatEmptySeq
  <2> QED BY <2>1, KeepEmpty, EmptySeq
<1>2. ASSUME NEW t \in Seq(X), NEW x \in X, t \in P PROVE Append(t, x) \in P
  <2>1. /\ Append(t, x) \in Seq(X) /\ Keep(t, T) \in Seq(X) /\ s \o t \in Seq(X)
        /\ s \o Append(t, x) = Append(s \o t, x)
    BY AppendProperties, KeepType, ConcatProperties, ConcatAppend
  <2>2. Keep(Append(s \o t, x), T) = IF x \in T THEN Append(Keep(s \o t, T), x) ELSE Keep(s \o t, T)
    BY <2>1, KeepAppend
  <2>3. Keep(Append(t, x), T) = IF x \in T THEN Append(Keep(t, T), x) ELSE Keep(t, T)
    BY KeepAppend
  <2>4. Keep(s, T) \o Append(Keep(t, T), x) = Append(Keep(s, T) \o Keep(t, T), x)
    BY <1>0, <2>1, ConcatAppend
  <2>5. Keep(s \o t, T) = Keep(s, T) \o Keep(t, T)
    BY <1>2
  <2>6. Keep(s \o Append(t, x), T) = Keep(s, T) \o Keep(Append(t, x), T)
    BY <2>1, <2>2, <2>3, <2>4, <2>5
  <2> QED BY <2>1, <2>6
<1> HIDE DEF P
<1>3. \A t \in Seq(X) : t \in P
  BY <1>1, <1>2, SeqInd
<1> QED BY <1>3 DEF P

LEMMA KeepKeep ==
  ASSUME NEW X, NEW A, NEW B
  PROVE  \A s \in Seq(X) : Keep(Keep(s, A), B) = Keep(s, A \cap B)
<1> DEFINE P == {s \in Seq(X) : Keep(Keep(s, A), B) = Keep(s, A \cap B)}
<1>1. <<>> \in P
  BY KeepEmpty, EmptySeq
<1>2. ASSUME NEW s \in Seq(X), NEW x \in X, s \in P PROVE Append(s, x) \in P
  <2>1. /\ Append(s, x) \in Seq(X) /\ Keep(s, A) \in Seq(X)
    BY AppendProperties, KeepType
  <2>2. Keep(Append(s, x), A) = IF x \in A THEN Append(Keep(s, A), x) ELSE Keep(s, A)
    BY KeepAppend
  <2>3. Keep(Append(s, x), A \cap B) = IF x \in A \cap B THEN Append(Keep(s, A \cap B), x) ELSE Keep(s, A \cap B)
    BY KeepAppend
  <2>4. Keep(Append(Keep(s, A), x), B) = IF x \in B THEN Append(Keep(Keep(s, A), B), x) ELSE Keep(Keep(s, A), B)
    BY <2>1, KeepAppend
  <2>5. Keep(Keep(s, A), B) = Keep(s, A \cap B)
    BY <1>2
  <2>6. Keep(Keep(Append(s, x), A), B) = Keep(Append(s, x), A \cap B)
    <3>1. CASE x \in A
      <4>1. Keep(Append(s, x), A) = Append(Keep(s, A), x) /\ (x \in A \cap B <=> x \in B)
        BY <2>2, <3>1
      <4>2. CASE x \in B
        BY <2>3, <2>4, <2>5, <4>1, <4>2, Zenon
      <4>3. CASE x \notin B
        BY <2>3, <2>4, <2>5, <4>1, <4>3, Zenon
      <4> QED BY <4>2, <4>3
    <3>2. CASE x \notin A
      BY <2>2, <2>3, <2>5, <3>2
    <3> QED BY <3>1, <3>2
  <2> QED BY <2>1, <2>6
<1> HIDE DEF P
<1>3. \A s \in Seq(X) : s \in P
  BY <1>1, <1>2, SeqInd
<1> QED BY <1>3 DEF P

LEMMA KeepSame ==
  ASSUME NEW X, NEW A, NEW B
  PROVE  \A s \in Seq(X) : ToSet(s) \cap A = ToSet(s) \cap B => Keep(s, A) = Keep(s, B)
<1> DEFINE P == {s \in Seq(X) : ToSet(s) \cap A = ToSet(s) \cap B => Keep(s, A) = Keep(s, B)}
<1>1. <<>> \in P
  BY KeepEmpty, EmptySeq
<1>2. ASSUME NEW s \in Seq(X), NEW x \in X, s \in P PROVE Append(s, x) \in P
  <2>1. /\ Append(s, x) \in Seq(X) /\ ToSet(Append(s, x)) = ToSet(s) \cup {x}
    BY AppendProperties, SetOfAppend
  <2>2. Keep(Append(s, x), A) = IF x \in A THEN Append(Keep(s, A), x) ELSE Keep(s, A)
    BY KeepAppend
  <2>3. Keep(Append(s, x), B) = IF x \in B THEN Append(Keep(s, B), x) ELSE Keep(s, B)
    BY KeepAppend
  <2>4. ASSUME ToSet(Append(s, x)) \cap A = ToSet(Append(s, x)) \cap B
        PROVE  Keep(Append(s, x), A) = Keep(Append(s, x), B)
    <3>1. (x \in A <=> x \in B) /\ ToSet(s) \cap A = ToSet(s) \cap B
      BY <2>1, <2>4
    <3> QED BY <1>2, <2>2, <2>3, <3>1
  <2> QED BY <2>1, <2>4
<1> HIDE DEF P
<1>3. \A s \in Seq(X) : s \in P
  BY <1>1, <1>2, SeqInd
<1> QED BY <1>3 DEF P

LEMMA KeepAll ==
  ASSUME NEW X, NEW T
  PROVE  \A s \in Seq(X) : ToSet(s) \subseteq T => Keep(s, T) = s
<1> DEFINE P == {s \in Seq(X) : ToSet(s) \subseteq T => Keep(s, T) = s}
<1>1. <<>> \in P
  BY KeepEmpty, EmptySeq
<1>2. ASSUME NEW s \in Seq(X), NEW x \in X, s \in P PROVE Append(s, x) \in P
  <2>1. /\ Append(s, x) \in Seq(X) /\ ToSet(Append(s, x)) = ToSet(s) \cup {x}
    BY AppendProperties, SetOfAppend
  <2>2. Keep(Append(s, x), T) = IF x \in T THEN Append(Keep(s, T), x) ELSE Keep(s, T)
    BY KeepAppend
  <2> QED BY <1>2, <2>1, <2>2
<1> HIDE DEF P
<1>3. \A s \in Seq(X) : s \in P
  BY <1>1, <1>2, SeqInd
<1> QED BY <1>3 DEF P

LEMMA InjectiveAppend ==
  ASSUME NEW X, NEW s \in Seq(X), NEW x \in X
  PROVE  IsInjective(Append(s, x)) <=> IsInjective(s) /\ x \notin ToSet(s)
<1> DEFINE t == Append(s, x)
           n == Len(s)
<1>1. /\ n \in Nat /\ (\A i \in 1 .. n : t[i] = s[i]) /\ t[n + 1] = x
      /\ DOMAIN s = 1 .. n /\ DOMAIN t = 1 .. n + 1
  BY AppendProperties, LenProperties
<1> HIDE DEF t, n
<1>2. /\ \A i \in 1 .. n : i \in 1 .. n + 1 /\ i # n + 1
      /\ \A i \in 1 .. n + 1 : i \in 1 .. n \/ i = n + 1
      /\ n + 1 \in 1 .. n + 1
  BY <1>1
<1>3. IsInjective(t) <=> IsInjective(s) /\ x \notin ToSet(s)
  <2>1. ASSUME IsInjective(t) PROVE IsInjective(s) /\ x \notin ToSet(s)
    BY <1>1, <1>2, <2>1 DEF IsInjective, ToSet
  <2>2. ASSUME IsInjective(s), x \notin ToSet(s) PROVE IsInjective(t)
    BY <1>1, <1>2, <2>2 DEF IsInjective, ToSet
  <2> QED BY <2>1, <2>2
<1> QED BY <1>3 DEF t

LEMMA KeepInjective ==
  ASSUME NEW X, NEW T
  PROVE  \A s \in Seq(X) : IsInjective(s) => IsInjective(Keep(s, T))
<1> DEFINE P == {s \in Seq(X) : IsInjective(s) => IsInjective(Keep(s, T))}
<1>1. <<>> \in P
  BY KeepEmpty, EmptySeq
<1>2. ASSUME NEW s \in Seq(X), NEW x \in X, s \in P PROVE Append(s, x) \in P
  <2>1. /\ Append(s, x) \in Seq(X) /\ Keep(s, T) \in Seq(X)
        /\ ToSet(Keep(s, T)) \subseteq ToSet(s)
    BY AppendProperties, KeepType, SetOfKeep
  <2>2. Keep(Append(s, x), T) = IF x \in T THEN Append(Keep(s, T), x) ELSE Keep(s, T)
    BY KeepAppend
  <2>3. IsInjective(Append(s, x)) => IsInjective(s) /\ x \notin ToSet(s)
    BY InjectiveAppend
  <2>4. IsInjective(Keep(s, T)) /\ x \notin ToSet(Keep(s, T)) => IsInjective(Append(Keep(s, T), x))
    BY <2>1, InjectiveAppend
  <2> QED BY <1>2, <2>1, <2>2, <2>3, <2>4
<1> HIDE DEF P
<1>3. \A s \in Seq(X) : s \in P
  BY <1>1, <1>2, SeqInd
<1> QED BY <1>3 DEF P

(***************************************************************************)
(* FlattenSeq has the elements of its sequences.                           *)
(***************************************************************************)
Flat(X, ss, h) == /\ h \in [1 .. Len(ss) -> Seq(X)] /\ h[1] = ss[1]
                  /\ \A i \in 2 .. Len(ss) : h[i] = h[i - 1] \o ss[i]

LEMMA FlattenIs ==
  ASSUME NEW X, NEW ss \in Seq(Seq(X)), Len(ss) # 0
  PROVE  \E h : Flat(X, ss, h) /\ FlattenSeq(ss) = h[Len(ss)]
<1> DEFINE n == Len(ss)
           Q == Seq(X)
           G == [p \in Nat \X Q |-> IF p[1] + 1 \in 1 .. n THEN p[2] \o ss[p[1] + 1] ELSE p[2]]
           Def(g) == [i \in 1 .. n |-> IF i = 1 THEN ss[i] ELSE g[i - 1] \o ss[i]]
<1>0. n \in Nat /\ n >= 1 /\ \A i \in 1 .. n : ss[i] \in Q
  BY LenProperties, ElementOfSeq
<1>1. G \in [Nat \X Q -> Q]
  <2>1. ASSUME NEW p \in Nat \X Q
        PROVE  (IF p[1] + 1 \in 1 .. n THEN p[2] \o ss[p[1] + 1] ELSE p[2]) \in Q
    BY <1>0, ConcatProperties
  <2> QED BY <2>1
<1>2. ss[1] \in Q /\ n - 1 \in Nat
  BY <1>0
<1>3. PICK f : Recursion(f, Q, ss[1], G, n - 1)
  <2> HIDE DEF G, n, Q
  <2> QED BY <1>1, <1>2, PrefixRec
<1>4. /\ f \in [0 .. n - 1 -> Q] /\ f[0] = ss[1]
      /\ \A i \in 1 .. n - 1 : f[i] = f[i - 1] \o ss[i + 1]
  <2>1. /\ f \in [0 .. n - 1 -> Q] /\ f[0] = ss[1]
        /\ \A i \in 1 .. n - 1 : f[i] = G[<<i, f[i - 1]>>]
    <3> HIDE DEF G, n, Q
    <3> QED BY <1>3 DEF Recursion
  <2>2. ASSUME NEW i \in 1 .. n - 1 PROVE f[i] = f[i - 1] \o ss[i + 1]
    <3>1. i \in Nat /\ i - 1 \in 0 .. n - 1 /\ i + 1 \in 1 .. n
      BY <1>0
    <3>2. f[i - 1] \in Q
      <4> HIDE DEF Q, n
      <4> QED BY <2>1, <3>1, SMTT(60)
    <3>3. G[<<i, f[i - 1]>>] = f[i - 1] \o ss[i + 1]
      BY <3>1, <3>2
    <3> QED BY <2>1, <3>3
  <2> QED BY <2>1, <2>2
<1> HIDE DEF G
<1> DEFINE k == [i \in 1 .. n |-> f[i - 1]]
<1>5. /\ k \in [1 .. n -> Q] /\ k[1] = ss[1]
      /\ \A i \in 2 .. n : k[i] = k[i - 1] \o ss[i]
  <2>1. \A i \in 1 .. n : i - 1 \in 0 .. n - 1
    BY <1>0
  <2>2. k \in [1 .. n -> Q]
    BY <1>4, <2>1
  <2>3. k[1] = ss[1]
    BY <1>0, <1>4
  <2>4. ASSUME NEW i \in 2 .. n PROVE k[i] = k[i - 1] \o ss[i]
    <3>1. /\ i - 1 \in 1 .. n - 1 /\ i \in 1 .. n /\ i - 1 \in 1 .. n
          /\ (i - 1) + 1 = i
      BY <1>0
    <3>2. k[i] = f[i - 1] /\ k[i - 1] = f[(i - 1) - 1]
      BY <3>1
    <3> QED BY <1>4, <3>1, <3>2
  <2> QED BY <2>2, <2>3, <2>4
<1> HIDE DEF k
<1>6. k = Def(k)
  <2>1. \A i \in 1 .. n : k[i] = Def(k)[i]
    <3>1. ASSUME NEW i \in 1 .. n, i # 1 PROVE k[i] = Def(k)[i]
      <4>1. i \in 2 .. n
        BY <1>0, <3>1
      <4> QED BY <1>5, <3>1, <4>1
    <3> QED BY <1>5, <3>1
  <2> QED BY <1>5, <2>1
<1> DEFINE h == CHOOSE g : g = Def(g)
<1>7. h = Def(h)
  <2> HIDE DEF Def
  <2> QED BY <1>6
<1>8. FlattenSeq(ss) = h[n]
  BY DEF FlattenSeq
<1> HIDE DEF h
<1>9. h[1] = ss[1] /\ \A i \in 2 .. n : h[i] = h[i - 1] \o ss[i]
  <2>1. h[1] = ss[1]
    BY <1>0, <1>7
  <2>2. ASSUME NEW i \in 2 .. n PROVE h[i] = h[i - 1] \o ss[i]
    <3>1. i \in 1 .. n /\ i # 1
      BY <1>0
    <3> QED BY <1>7, <3>1
  <2> QED BY <2>1, <2>2
<1>10. \A i \in Nat : i \in 1 .. n => h[i] = k[i]
  <2> DEFINE S == {i \in Nat : i \in 1 .. n => h[i] = k[i]}
  <2>1. 0 \in S
    OBVIOUS
  <2>2. ASSUME NEW i \in Nat, i \in S PROVE i + 1 \in S
    <3>1. CASE i + 1 \in 2 .. n
      <4>1. i \in 1 .. n /\ (i + 1) - 1 = i
        BY <1>0, <3>1
      <4>2. k[i + 1] = k[i] \o ss[i + 1] /\ h[i + 1] = h[i] \o ss[i + 1]
        BY <1>5, <1>9, <3>1, <4>1
      <4>3. h[i] = k[i]
        BY <2>2, <4>1
      <4>4. h[i + 1] = k[i + 1]
        BY <4>2, <4>3, Zenon
      <4> QED BY <4>4
    <3>2. CASE i + 1 = 1
      BY <1>5, <1>9, <3>2
    <3>3. CASE i + 1 \notin 1 .. n
      BY <3>3
    <3> QED BY <1>0, <3>1, <3>2, <3>3
  <2>3. \A i \in Nat : i \in S
    <3> HIDE DEF S
    <3> QED BY <2>1, <2>2, NatInd
  <2> QED BY <2>3
<1>11. h[n] = k[n]
  BY <1>0, <1>10
<1> QED BY <1>5, <1>8, <1>11 DEF Flat

LEMMA SetOfFlatten ==
  ASSUME NEW X, NEW ss \in Seq(Seq(X))
  PROVE  /\ FlattenSeq(ss) \in Seq(X)
         /\ ToSet(FlattenSeq(ss)) = UNION {ToSet(ss[i]) : i \in 1 .. Len(ss)}
<1>1. CASE Len(ss) = 0
  <2>1. ss = <<>> /\ FlattenSeq(ss) = ss
    BY <1>1, EmptySeq DEF FlattenSeq
  <2>2. 1 .. Len(ss) = {}
    BY <1>1
  <2>3. ToSet(<<>>) = {} /\ <<>> \in Seq(X)
    BY EmptySeq, SetOfSeq
  <2>4. UNION {ToSet(ss[i]) : i \in 1 .. Len(ss)} = {}
    BY <2>2
  <2> QED BY <2>1, <2>3, <2>4
<1>2. CASE Len(ss) # 0
  <2>1. PICK h : Flat(X, ss, h) /\ FlattenSeq(ss) = h[Len(ss)]
    BY <1>2, FlattenIs
  <2> DEFINE n == Len(ss)
  <2> DEFINE Of(i) == UNION {ToSet(ss[j]) : j \in 1 .. i}
             S == {i \in Nat : i \in 1 .. n => ToSet(h[i]) = Of(i)}
  <2>2. n \in Nat /\ n >= 1 /\ \A i \in 1 .. n : ss[i] \in Seq(X)
    BY <1>2, LenProperties, ElementOfSeq
  <2>3. /\ h \in [1 .. n -> Seq(X)] /\ h[1] = ss[1]
        /\ \A i \in 2 .. n : h[i] = h[i - 1] \o ss[i]
    BY <2>1 DEF Flat
  <2>4. 0 \in S
    OBVIOUS
  <2>5. ASSUME NEW i \in Nat, i \in S PROVE i + 1 \in S
    <3>1. CASE i + 1 \in 2 .. n
      <4>1. i \in 1 .. n /\ (i + 1) - 1 = i /\ i + 1 \in 1 .. n
        BY <2>2, <3>1
      <4>2. h[i + 1] = h[i] \o ss[i + 1] /\ h[i] \in Seq(X) /\ ss[i + 1] \in Seq(X)
        BY <2>2, <2>3, <3>1, <4>1
      <4>3. ToSet(h[i + 1]) = ToSet(h[i]) \cup ToSet(ss[i + 1])
        BY <4>2, SetOfConcat
      <4>4. ToSet(h[i]) = Of(i)
        BY <2>5, <4>1
      <4>5. \A j : j \in 1 .. i + 1 <=> j \in 1 .. i \/ j = i + 1
        BY <4>1
      <4>6. Of(i + 1) = Of(i) \cup ToSet(ss[i + 1])
        BY <4>5
      <4>7. ToSet(h[i + 1]) = Of(i + 1)
        <5> HIDE DEF Of
        <5> QED BY <4>3, <4>4, <4>6
      <4> QED BY <4>7
    <3>2. CASE i + 1 = 1
      <4>1. 1 .. i + 1 = {1}
        BY <3>2
      <4>2. Of(i + 1) = ToSet(ss[1])
        BY <4>1
      <4> QED BY <2>3, <3>2, <4>2
    <3>3. CASE i + 1 \notin 1 .. n
      BY <3>3
    <3> QED BY <2>2, <3>1, <3>2, <3>3
  <2>6. \A i \in Nat : i \in S
    <3> HIDE DEF S
    <3> QED BY <2>4, <2>5, NatInd
  <2>7. ToSet(h[n]) = Of(n) /\ h[n] \in Seq(X)
    <3>1. n \in 1 .. n
      BY <2>2
    <3>2. h[n] \in Seq(X)
      BY <2>3, <3>1
    <3>3. n \in S
      <4> HIDE DEF S, n
      <4> QED BY <2>2, <2>6
    <3>4. n \in 1 .. n => ToSet(h[n]) = Of(n)
      <4> HIDE DEF Of, n
      <4> QED BY <3>3
    <3> HIDE DEF Of, n, S
    <3> QED BY <3>1, <3>2, <3>4
  <2> QED BY <2>1, <2>7
<1> QED BY <1>1, <1>2

LEMMA InjectiveConcat ==
  ASSUME NEW X, NEW s \in Seq(X)
  PROVE  \A t \in Seq(X) : IsInjective(s \o t) <=> IsInjective(s) /\ IsInjective(t) /\ ToSet(s) \cap ToSet(t) = {}
<1> DEFINE P == {t \in Seq(X) : IsInjective(s \o t) <=>
                                  IsInjective(s) /\ IsInjective(t) /\ ToSet(s) \cap ToSet(t) = {}}
<1>1. <<>> \in P
  <2>1. s \o <<>> = s /\ <<>> \in Seq(X) /\ ToSet(<<>>) = {} /\ IsInjective(<<>>)
    BY ConcatEmptySeq, EmptySeq, SetOfSeq DEF IsInjective
  <2> QED BY <2>1
<1>2. ASSUME NEW t \in Seq(X), NEW x \in X, t \in P PROVE Append(t, x) \in P
  <2>1. /\ s \o t \in Seq(X) /\ ToSet(s \o t) = ToSet(s) \cup ToSet(t) /\ Append(t, x) \in Seq(X)
        /\ s \o Append(t, x) = Append(s \o t, x) /\ ToSet(Append(t, x)) = ToSet(t) \cup {x}
    BY SetOfConcat, AppendProperties, ConcatAppend, SetOfAppend
  <2>2. IsInjective(Append(s \o t, x)) <=> IsInjective(s \o t) /\ x \notin ToSet(s \o t)
    BY <2>1, InjectiveAppend
  <2>3. IsInjective(Append(t, x)) <=> IsInjective(t) /\ x \notin ToSet(t)
    BY InjectiveAppend
  <2> QED BY <1>2, <2>1, <2>2, <2>3
<1> HIDE DEF P
<1>3. \A t \in Seq(X) : t \in P
  BY <1>1, <1>2, SeqInd
<1> QED BY <1>3 DEF P

LEMMA FlattenInjective ==
  ASSUME NEW X, NEW ss \in Seq(Seq(X)), \A i \in 1 .. Len(ss) : IsInjective(ss[i]),
         \A i, j \in 1 .. Len(ss) : ToSet(ss[i]) \cap ToSet(ss[j]) # {} => i = j
  PROVE  IsInjective(FlattenSeq(ss))
<1>1. CASE Len(ss) = 0
  <2>1. ss = <<>> /\ FlattenSeq(ss) = ss
    BY <1>1, EmptySeq DEF FlattenSeq
  <2> QED BY <2>1 DEF IsInjective
<1>2. CASE Len(ss) # 0
  <2>1. PICK h : Flat(X, ss, h) /\ FlattenSeq(ss) = h[Len(ss)]
    BY <1>2, FlattenIs
  <2> DEFINE n == Len(ss)
             Good(i) == IsInjective(h[i]) /\ \A x \in ToSet(h[i]) : \E j \in 1 .. i : x \in ToSet(ss[j])
             S == {i \in Nat : i \in 1 .. n => Good(i)}
  <2>2. n \in Nat /\ n >= 1 /\ \A i \in 1 .. n : ss[i] \in Seq(X)
    BY <1>2, LenProperties, ElementOfSeq
  <2>3. /\ h \in [1 .. n -> Seq(X)] /\ h[1] = ss[1]
        /\ \A i \in 2 .. n : h[i] = h[i - 1] \o ss[i]
    BY <2>1 DEF Flat
  <2>4. 0 \in S
    OBVIOUS
  <2>5. ASSUME NEW i \in Nat, i \in S PROVE i + 1 \in S
    <3>1. CASE i + 1 \in 2 .. n
      <4>1. i \in 1 .. n /\ (i + 1) - 1 = i /\ i + 1 \in 1 .. n
        BY <2>2, <3>1
      <4>2. h[i + 1] = h[i] \o ss[i + 1] /\ h[i] \in Seq(X) /\ ss[i + 1] \in Seq(X)
        BY <2>2, <2>3, <3>1, <4>1
      <4>3. ToSet(h[i + 1]) = ToSet(h[i]) \cup ToSet(ss[i + 1])
        BY <4>2, SetOfConcat
      <4>4. Good(i)
        BY <2>5, <4>1
      <4>5. ToSet(h[i]) \cap ToSet(ss[i + 1]) = {}
        <5>1. ASSUME NEW x \in ToSet(h[i]) \cap ToSet(ss[i + 1]) PROVE FALSE
          <6>1. PICK j \in 1 .. i : x \in ToSet(ss[j])
            BY <4>4
          <6>2. j \in 1 .. n /\ j # i + 1
            BY <2>2, <4>1
          <6> QED BY <4>1, <6>1, <6>2
        <5> QED BY <5>1
      <4>6. IsInjective(h[i + 1])
        BY <4>1, <4>2, <4>4, <4>5, InjectiveConcat
      <4>7. ASSUME NEW x \in ToSet(h[i + 1]) PROVE \E j \in 1 .. i + 1 : x \in ToSet(ss[j])
        <5>1. 1 .. i \subseteq 1 .. i + 1 /\ i + 1 \in 1 .. i + 1
          BY <4>1
        <5> QED BY <4>3, <4>4, <5>1
      <4> QED BY <4>6, <4>7
    <3>2. CASE i + 1 = 1
      <4>1. 1 \in 1 .. i + 1 /\ 1 \in 1 .. n
        BY <2>2, <3>2
      <4> QED BY <2>3, <3>2, <4>1
    <3>3. CASE i + 1 \notin 1 .. n
      BY <3>3
    <3> QED BY <2>2, <3>1, <3>2, <3>3
  <2>6. \A i \in Nat : i \in S
    <3> HIDE DEF S
    <3> QED BY <2>4, <2>5, NatInd
  <2>7. n \in 1 .. n
    BY <2>2
  <2>8. Good(n)
    <3> HIDE DEF Good, n
    <3> QED BY <2>2, <2>6, <2>7
  <2> QED BY <2>1, <2>8
<1> QED BY <1>1, <1>2

(* What is flattened later comes behind.                                    *)
LEMMA FlattenAppend ==
  ASSUME NEW X, NEW ss \in Seq(Seq(X)), NEW s \in Seq(X)
  PROVE  FlattenSeq(Append(ss, s)) = FlattenSeq(ss) \o s
<1> DEFINE tt == Append(ss, s)
           n == Len(ss)
           Q == Seq(X)
<1>1. tt \in Seq(Q) /\ Len(tt) = n + 1 /\ n \in Nat /\ (\A i \in 1 .. n : tt[i] = ss[i]) /\ tt[n + 1] = s
  <2> HIDE DEF Q
  <2>1. ss \in Seq(Q) /\ s \in Q
    BY DEF Q
  <2> QED BY <2>1, AppendProperties, LenProperties
<1> HIDE DEF tt, n, Q
<1>2. PICK g : Flat(X, tt, g) /\ FlattenSeq(tt) = g[n + 1]
  <2>1. Len(tt) # 0
    BY <1>1
  <2> QED BY <1>1, <2>1, FlattenIs DEF Q
<1>3. /\ g \in [1 .. n + 1 -> Q] /\ g[1] = tt[1] /\ \A i \in 2 .. n + 1 : g[i] = g[i - 1] \o tt[i]
  BY <1>1, <1>2 DEF Flat, Q
<1>4. CASE n = 0
  <2>1. ss = <<>> /\ FlattenSeq(ss) = ss
    BY <1>4, EmptySeq DEF FlattenSeq, n
  <2>2. <<>> \o s = s
    BY ConcatEmptySeq
  <2> QED BY <1>1, <1>2, <1>3, <1>4, <2>1, <2>2 DEF tt
<1>5. CASE n # 0
  <2>1. PICK h : Flat(X, ss, h) /\ FlattenSeq(ss) = h[n]
    BY <1>5, FlattenIs DEF n
  <2>2. h[1] = ss[1] /\ \A i \in 2 .. n : h[i] = h[i - 1] \o ss[i]
    BY <2>1 DEF Flat, n
  <2> DEFINE S == {i \in Nat : i \in 1 .. n => h[i] = g[i]}
  <2>3. 0 \in S
    OBVIOUS
  <2>4. ASSUME NEW i \in Nat, i \in S PROVE i + 1 \in S
    <3>1. CASE i + 1 \in 2 .. n
      <4>1. i \in 1 .. n /\ (i + 1) - 1 = i /\ i + 1 \in 2 .. n + 1 /\ i + 1 \in 1 .. n
        BY <1>1, <3>1
      <4>2. h[i + 1] = h[i] \o ss[i + 1] /\ g[i + 1] = g[i] \o tt[i + 1]
        BY <1>3, <2>2, <3>1, <4>1
      <4>3. h[i] = g[i] /\ ss[i + 1] = tt[i + 1]
        BY <1>1, <2>4, <4>1
      <4>4. h[i + 1] = g[i + 1]
        BY <4>2, <4>3, Zenon
      <4> QED BY <4>4
    <3>2. CASE i + 1 = 1
      <4>1. 1 \in 1 .. n
        BY <1>1, <1>5
      <4> QED BY <1>1, <1>3, <2>2, <3>2, <4>1
    <3>3. CASE i + 1 \notin 1 .. n
      BY <3>3
    <3> QED BY <1>1, <3>1, <3>2, <3>3
  <2>5. \A i \in Nat : i \in S
    <3> HIDE DEF S
    <3> QED BY <2>3, <2>4, NatInd
  <2>6. n \in 1 .. n /\ n + 1 \in 2 .. n + 1 /\ (n + 1) - 1 = n
    BY <1>1, <1>5
  <2>7. h[n] = g[n]
    BY <2>5, <2>6
  <2>8. g[n + 1] = g[n] \o s
    BY <1>1, <1>3, <2>6
  <2> QED BY <1>2, <2>1, <2>7, <2>8 DEF tt
<1> QED BY <1>4, <1>5

(***************************************************************************)
(* A list with an entry in front, and a list around one of its entries.    *)
(***************************************************************************)
LEMMA SingleSeq ==
  ASSUME NEW X, NEW x \in X
  PROVE  <<x>> \in Seq(X) /\ Len(<<x>>) = 1 /\ <<x>>[1] = x /\ ToSet(<<x>>) = {x}
<1>1. <<x>> \in Seq(X) /\ Len(<<x>>) = 1 /\ <<x>>[1] = x /\ DOMAIN <<x>> = {1}
  OBVIOUS
<1>2. ToSet(<<x>>) = {<<x>>[i] : i \in {1}}
  BY <1>1 DEF ToSet
<1>3. {<<x>>[i] : i \in {1}} = {x}
  BY <1>1
<1> QED BY <1>1, <1>2, <1>3

LEMMA InFront ==
  ASSUME NEW X, NEW s \in Seq(X), NEW x \in X
  PROVE  /\ <<x>> \in Seq(X) /\ <<x>> \o s \in Seq(X)
         /\ ToSet(<<x>> \o s) = ToSet(s) \cup {x}
         /\ IsInjective(s) /\ x \notin ToSet(s) => IsInjective(<<x>> \o s)
<1>1. <<x>> \in Seq(X) /\ ToSet(<<x>>) = {x}
  BY SingleSeq
<1>2. <<x>> \o s \in Seq(X) /\ ToSet(<<x>> \o s) = ToSet(s) \cup {x}
  <2> DEFINE y == <<x>>
  <2>1. y \in Seq(X) /\ ToSet(y) = {x}
    BY <1>1
  <2> HIDE DEF y
  <2>2. y \o s \in Seq(X) /\ ToSet(y \o s) = ToSet(y) \cup ToSet(s)
    BY <2>1, SetOfConcat
  <2>3. y \o s \in Seq(X) /\ ToSet(y \o s) = ToSet(s) \cup {x}
    BY <2>1, <2>2
  <2> QED BY <2>3 DEF y
<1> DEFINE u == <<x>> \o s
           n == Len(s)
<1>3. /\ n \in Nat /\ DOMAIN s = 1 .. n /\ DOMAIN u = 1 .. n + 1
      /\ u[1] = x /\ \A i \in 2 .. n + 1 : u[i] = s[i - 1]
  <2>1. Len(<<x>>) = 1 /\ <<x>>[1] = x
    BY SingleSeq
  <2>2. /\ Len(u) = 1 + n /\ n \in Nat /\ DOMAIN s = 1 .. n /\ DOMAIN u = 1 .. Len(u)
        /\ \A i \in 1 .. 1 + n : u[i] = IF i <= 1 THEN <<x>>[i] ELSE s[i - 1]
    BY <1>1, <1>2, <2>1, ConcatProperties, LenProperties
  <2> HIDE DEF u, n
  <2>3. 1 \in 1 .. 1 + n /\ \A i \in 2 .. n + 1 : i \in 1 .. 1 + n /\ ~(i <= 1)
    BY <2>2
  <2> QED BY <2>1, <2>2, <2>3
<1>4. ASSUME IsInjective(s), x \notin ToSet(s) PROVE IsInjective(u)
  <2> HIDE DEF u, n
  <2>1. \A i \in 2 .. n + 1 : i - 1 \in 1 .. n
    BY <1>3
  <2>2. \A i, j \in 1 .. n : s[i] = s[j] => i = j
    BY <1>3, <1>4 DEF IsInjective
  <2>3. \A i \in 1 .. n : s[i] # x
    BY <1>3, <1>4 DEF ToSet
  <2>4. ASSUME NEW i \in 1 .. n + 1, NEW j \in 1 .. n + 1, u[i] = u[j] PROVE i = j
    <3>1. i \in 1 .. n + 1 => i = 1 \/ i \in 2 .. n + 1
      BY <1>3
    <3>2. j \in 1 .. n + 1 => j = 1 \/ j \in 2 .. n + 1
      BY <1>3
    <3>3. CASE i = 1 /\ j \in 2 .. n + 1
      BY <1>3, <2>1, <2>3, <2>4, <3>3
    <3>4. CASE j = 1 /\ i \in 2 .. n + 1
      BY <1>3, <2>1, <2>3, <2>4, <3>4
    <3>5. CASE i \in 2 .. n + 1 /\ j \in 2 .. n + 1
      <4>1. s[i - 1] = s[j - 1] /\ i - 1 \in 1 .. n /\ j - 1 \in 1 .. n
        BY <1>3, <2>1, <2>4, <3>5
      <4>2. i - 1 = j - 1
        BY <2>2, <4>1
      <4> QED BY <1>3, <4>2
    <3> QED BY <3>1, <3>2, <3>3, <3>4, <3>5
  <2> QED BY <1>3, <2>4 DEF IsInjective
<1> QED BY <1>1, <1>2, <1>4

LEMMA KeepOne ==
  ASSUME NEW X, NEW x \in X, NEW T
  PROVE  Keep(<<x>>, T) = IF x \in T THEN <<x>> ELSE <<>>
<1>1. Append(<<>>, x) = <<x>> /\ <<>> \in Seq(X)
  BY EmptySeq
<1>2. Keep(Append(<<>>, x), T) = IF x \in T THEN Append(Keep(<<>>, T), x) ELSE Keep(<<>>, T)
  BY <1>1, KeepAppend
<1>3. Keep(<<x>>, T) = IF x \in T THEN Append(<<>>, x) ELSE <<>>
  BY <1>1, <1>2, KeepEmpty
<1> QED BY <1>1, <1>3

Around(A, x, B) == A \o <<x>> \o B

LEMMA AroundIs ==
  ASSUME NEW X, NEW A \in Seq(X), NEW B \in Seq(X), NEW x \in X
  PROVE  /\ Around(A, x, B) \in Seq(X)
         /\ Len(Around(A, x, B)) = Len(A) + 1 + Len(B)
         /\ Around(A, x, B)[Len(A) + 1] = x
         /\ \A i \in 1 .. Len(B) : Around(A, x, B)[Len(A) + 1 + i] = B[i]
         /\ ToSet(Around(A, x, B)) = ToSet(A) \cup {x} \cup ToSet(B)
<1> DEFINE a == Len(A)
           b == Len(B)
           C == A \o <<x>>
           u == C \o B
<1>1. a \in Nat /\ b \in Nat /\ <<x>> \in Seq(X) /\ Len(<<x>>) = 1 /\ <<x>>[1] = x /\ ToSet(<<x>>) = {x}
  BY SingleSeq, LenProperties
<1>2. /\ C \in Seq(X) /\ Len(C) = a + 1 /\ ToSet(C) = ToSet(A) \cup {x}
      /\ \A i \in 1 .. a + 1 : C[i] = IF i <= a THEN A[i] ELSE <<x>>[i - a]
  <2>1. /\ C \in Seq(X) /\ Len(C) = a + Len(<<x>>)
        /\ \A i \in 1 .. a + Len(<<x>>) : C[i] = IF i <= a THEN A[i] ELSE <<x>>[i - a]
    BY <1>1, ConcatProperties
  <2>2. ToSet(C) = ToSet(A) \cup ToSet(<<x>>)
    <3> DEFINE y == <<x>>
    <3>1. y \in Seq(X)
      BY <1>1
    <3> HIDE DEF y
    <3>2. ToSet(A \o y) = ToSet(A) \cup ToSet(y)
      BY <3>1, SetOfConcat
    <3> QED BY <3>2 DEF y
  <2> HIDE DEF C, a
  <2> QED BY <1>1, <2>1, <2>2
<1>3. /\ u \in Seq(X) /\ Len(u) = Len(C) + b /\ ToSet(u) = ToSet(C) \cup ToSet(B)
      /\ \A i \in 1 .. Len(C) + b : u[i] = IF i <= Len(C) THEN C[i] ELSE B[i - Len(C)]
  <2> HIDE DEF C
  <2>1. /\ u \in Seq(X) /\ Len(u) = Len(C) + b
        /\ \A i \in 1 .. Len(C) + b : u[i] = IF i <= Len(C) THEN C[i] ELSE B[i - Len(C)]
    <3>1. C \in Seq(X)
      BY <1>2
    <3> QED BY <3>1, ConcatProperties
  <2>2. ToSet(u) = ToSet(C) \cup ToSet(B)
    BY <1>2, SetOfConcat
  <2> QED BY <2>1, <2>2
<1> HIDE DEF u, C, a, b
<1>4. a + 1 \in 1 .. a + 1 + b /\ a + 1 \in 1 .. a + 1 /\ ~(a + 1 <= a) /\ (a + 1) - a = 1
  BY <1>1
<1>5. u[a + 1] = x
  <2>1. C[a + 1] = <<x>>[(a + 1) - a]
    BY <1>2, <1>4
  <2>2. u[a + 1] = C[a + 1]
    BY <1>2, <1>3, <1>4
  <2> QED BY <1>1, <1>4, <2>1, <2>2
<1>6. ASSUME NEW i \in 1 .. b PROVE u[a + 1 + i] = B[i]
  <2>1. a + 1 + i \in 1 .. a + 1 + b /\ ~(a + 1 + i <= a + 1) /\ (a + 1 + i) - (a + 1) = i
    BY <1>1
  <2> QED BY <1>2, <1>3, <2>1
<1>7. Around(A, x, B) = u
  BY DEF Around, u, C
<1> QED BY <1>2, <1>3, <1>5, <1>6, <1>7 DEF a, b

LEMMA Split ==
  ASSUME NEW X, NEW s \in Seq(X), NEW x, x \in ToSet(s)
  PROVE  \E A, B \in Seq(X) : s = Around(A, x, B)
<1> DEFINE n == Len(s)
<1>1. n \in Nat /\ DOMAIN s = 1 .. n
  BY LenProperties
<1>2. PICK i \in 1 .. n : s[i] = x
  BY <1>1 DEF ToSet
<1>3. x \in X
  BY <1>2, ElementOfSeq
<1> DEFINE A == SubSeq(s, 1, i - 1)
           B == SubSeq(s, i + 1, n)
<1>4. /\ A \in Seq(X) /\ Len(A) = i - 1 /\ (\A j \in 1 .. i - 1 : A[j] = s[j])
      /\ B \in Seq(X) /\ Len(B) = n - i /\ (\A j \in 1 .. n - i : B[j] = s[i + j])
  <2>1. \A j \in 1 .. n : s[j] \in X
    BY ElementOfSeq
  <2>2. \A j \in 1 .. i - 1 : s[j] \in X
    BY <1>1, <2>1
  <2>3. \A j \in i + 1 .. n : s[j] \in X
    BY <1>1, <2>1
  <2>4. 1 \in Int /\ i - 1 \in Int /\ i + 1 \in Int /\ n \in Int /\ i \in 1 .. n
    BY <1>1
  <2>5. /\ A \in Seq(X) /\ Len(A) = (IF 1 <= i - 1 THEN (i - 1) - 1 + 1 ELSE 0)
        /\ \A j \in 1 .. (i - 1) - 1 + 1 : A[j] = s[1 + j - 1]
    BY <2>2, <2>4, SubSeqProperties
  <2>6. /\ B \in Seq(X) /\ Len(B) = (IF i + 1 <= n THEN n - (i + 1) + 1 ELSE 0)
        /\ \A j \in 1 .. n - (i + 1) + 1 : B[j] = s[i + 1 + j - 1]
    <3> HIDE DEF n
    <3> QED BY <2>3, <2>4, SubSeqProperties, SMTT(60)
  <2> HIDE DEF A, B, n
  <2>7. Len(A) = i - 1 /\ Len(B) = n - i
    BY <2>4, <2>5, <2>6
  <2>8. ASSUME NEW j \in 1 .. i - 1 PROVE A[j] = s[j]
    <3>1. 1 + j - 1 = j /\ j \in 1 .. (i - 1) - 1 + 1
      BY <2>4
    <3> QED BY <2>5, <3>1
  <2>9. ASSUME NEW j \in 1 .. n - i PROVE B[j] = s[i + j]
    <3>1. i + 1 + j - 1 = i + j /\ j \in 1 .. n - (i + 1) + 1
      BY <2>4
    <3> QED BY <2>6, <3>1
  <2> QED BY <2>5, <2>6, <2>7, <2>8, <2>9
<1> HIDE DEF A, B, n
<1>5. /\ Around(A, x, B) \in Seq(X) /\ Len(Around(A, x, B)) = n
      /\ \A j \in 1 .. n : Around(A, x, B)[j] = s[j]
  <2> DEFINE C == A \o <<x>>
             u == C \o B
  <2>1. <<x>> \in Seq(X) /\ Len(<<x>>) = 1 /\ <<x>>[1] = x
    BY <1>3
  <2>2. C \in Seq(X) /\ Len(C) = i /\ \A j \in 1 .. i : C[j] = IF j <= i - 1 THEN A[j] ELSE <<x>>[j - (i - 1)]
    <3>1. Len(A) + Len(<<x>>) = i /\ Len(A) = i - 1
      BY <1>1, <1>4, <2>1
    <3> QED BY <1>4, <2>1, <3>1, ConcatProperties
  <2>3. \A j \in 1 .. i : C[j] = s[j]
    <3>1. ASSUME NEW j \in 1 .. i PROVE C[j] = s[j]
      <4>1. CASE j <= i - 1
        <5>1. j \in 1 .. i - 1
          BY <1>1, <4>1
        <5> QED BY <1>4, <2>2, <4>1, <5>1
      <4>2. CASE j = i
        <5>1. ~(i <= i - 1) /\ i - (i - 1) = 1 /\ i \in 1 .. i
          BY <1>1
        <5> QED BY <1>2, <2>1, <2>2, <4>2, <5>1
      <4>3. j <= i - 1 \/ j = i
        BY <1>1
      <4> QED BY <4>1, <4>2, <4>3
    <3> QED BY <3>1
  <2> HIDE DEF C
  <2>4. u \in Seq(X) /\ Len(u) = n /\ \A j \in 1 .. n : u[j] = IF j <= i THEN C[j] ELSE B[j - i]
    <3>1. Len(C) + Len(B) = n
      BY <1>1, <1>4, <2>2
    <3> QED BY <1>4, <2>2, <3>1, ConcatProperties, ZenonT(60)
  <2>5. ASSUME NEW j \in 1 .. n PROVE u[j] = s[j]
    <3>1. CASE j <= i
      <4>1. j \in 1 .. i
        BY <1>1, <3>1
      <4> QED BY <2>3, <2>4, <3>1, <4>1
    <3>2. CASE ~(j <= i)
      <4>1. j - i \in 1 .. n - i /\ i + (j - i) = j
        BY <1>1, <3>2
      <4> QED BY <1>4, <2>4, <3>2, <4>1
    <3> QED BY <3>1, <3>2
  <2>6. Around(A, x, B) = u
    BY DEF Around, C
  <2> HIDE DEF u
  <2> QED BY <2>4, <2>5, <2>6
<1>6. s = Around(A, x, B)
  BY <1>5, SeqEqual DEF n
<1> QED BY <1>4, <1>6

LEMMA NextIs ==
  ASSUME NEW X, NEW A \in Seq(X), NEW B \in Seq(X), NEW x \in X, IsInjective(Around(A, x, B))
  PROVE  NextOf(Around(A, x, B), x) = IF B = <<>> THEN None ELSE Head(B)
<1> DEFINE s == Around(A, x, B)
           a == Len(A)
           b == Len(B)
           I == {i \in 1 .. Len(s) : s[i] = x}
<1>1. a \in Nat /\ b \in Nat /\ s \in Seq(X) /\ Len(s) = a + 1 + b /\ DOMAIN s = 1 .. a + 1 + b
  BY AroundIs, LenProperties
<1>2. s[a + 1] = x /\ \A i \in 1 .. b : s[a + 1 + i] = B[i]
  BY AroundIs
<1>3. I = {a + 1}
  <2>1. a + 1 \in 1 .. a + 1 + b
    BY <1>1
  <2>2. \A i, j \in 1 .. a + 1 + b : s[i] = s[j] => i = j
    BY <1>1 DEF IsInjective
  <2> HIDE DEF s, a, b
  <2> QED BY <1>1, <1>2, <2>1, <2>2
<1>4. Min({a + 1}) = a + 1
  BY <1>1 DEF Min
<1>5. SelectInSeq(s, LAMBDA y : y = x) = a + 1
  <2>1. SelectInSeq(s, LAMBDA y : y = x) = IF I # {} THEN Min(I) ELSE 0
    BY DEF SelectInSeq
  <2> HIDE DEF I, a
  <2> QED BY <1>3, <1>4, <2>1
<1>6. NextOf(s, x) = IF a + 1 = Len(s) THEN None ELSE s[(a + 1) + 1]
  <2> HIDE DEF s, a
  <2> QED BY <1>5 DEF NextOf
<1>7. CASE B = <<>>
  <2>1. b = 0
    BY <1>7
  <2> QED BY <1>1, <1>6, <1>7, <2>1
<1>8. CASE B # <<>>
  <2>1. b >= 1 /\ Head(B) = B[1]
    <3>1. b # 0 /\ Head(B) = B[1]
      BY <1>8, EmptySeq, HeadTailProperties
    <3> QED BY <1>1, <3>1
  <2>2. a + 1 # a + 1 + b /\ 1 \in 1 .. b
    BY <1>1, <2>1
  <2>3. s[(a + 1) + 1] = B[1]
    BY <1>2, <2>2
  <2>4. NextOf(s, x) = Head(B)
    <3> HIDE DEF s, a, b
    <3> QED BY <1>1, <1>6, <2>1, <2>2, <2>3
  <2> QED BY <1>8, <2>4
<1> QED BY <1>7, <1>8

(***************************************************************************)
(* What a setup finds is in the directories, and its rules have the shapes *)
(* that read_configs tells apart.                                          *)
(***************************************************************************)
Op(p, j, k, n) == [name |-> p.name, cid |-> p.cid, word |-> p.rules[j].word, key |-> p.rules[j].keys[k],
                   chans |-> p.rules[j].chans, at |-> <<j, k>>, n |-> n]
IsOpOf(o, t, n) ==
  \E p \in ToSet(t) : \E j \in DOMAIN p.rules : \E k \in DOMAIN p.rules[j].keys : o = Op(p, j, k, n)
Ops(n) == {Op(p, j, k, n) : p \in Programs, j \in Nat, k \in Nat}

LEMMA MapSeq ==
  ASSUME NEW X, NEW s \in Seq(X), NEW Y, NEW f, f = [i \in DOMAIN s |-> f[i]], \A i \in 1 .. Len(s) : f[i] \in Y
  PROVE  f \in Seq(Y) /\ Len(f) = Len(s) /\ DOMAIN f = 1 .. Len(s)
<1> DEFINE n == Len(s)
<1>1. n \in Nat /\ DOMAIN s = 1 .. n
  BY LenProperties
<1>2. f = [i \in 1 .. n |-> f[i]]
  BY <1>1
<1>3. f \in Seq(Y)
  <2> HIDE DEF n
  <2> QED BY <1>1, <1>2, IsASeq DEF n
<1>4. DOMAIN f = 1 .. n
  <2> HIDE DEF n
  <2> QED BY <1>2
<1>5. Len(f) \in Nat /\ DOMAIN f = 1 .. Len(f)
  BY <1>3, LenProperties
<1>6. Len(f) = n
  <2> HIDE DEF n
  <2> QED BY <1>1, <1>4, <1>5
<1> QED BY <1>3, <1>4, <1>6

OpsOfRule(p, j, n) == [k \in DOMAIN p.rules[j].keys |-> Op(p, j, k, n)]
OpsOfProg(p, n) == [j \in DOMAIN p.rules |-> OpsOfRule(p, j, n)]

LEMMA RuleOps ==
  ASSUME NEW p \in Programs, NEW j \in DOMAIN p.rules, NEW n
  PROVE  /\ OpsOfRule(p, j, n) \in Seq(Ops(n)) /\ IsInjective(OpsOfRule(p, j, n))
         /\ \A o : o \in ToSet(OpsOfRule(p, j, n)) <=> \E k \in DOMAIN p.rules[j].keys : o = Op(p, j, k, n)
<1> DEFINE s == p.rules[j].keys
           f == OpsOfRule(p, j, n)
<1>1. j \in Nat /\ s \in Seq(ToSet(s))
  <2>1. p.rules \in Seq(ToSet(p.rules)) /\ \A r \in ToSet(p.rules) : r.keys \in Seq(ToSet(r.keys))
    BY TreesAssumption
  <2>2. DOMAIN p.rules = 1 .. Len(p.rules) /\ Len(p.rules) \in Nat /\ p.rules[j] \in ToSet(p.rules)
    BY <2>1, LenProperties DEF ToSet
  <2> QED BY <2>1, <2>2
<1>2. Len(s) \in Nat /\ DOMAIN s = 1 .. Len(s)
  BY <1>1, LenProperties
<1>3. f = [k \in DOMAIN s |-> f[k]] /\ \A k \in DOMAIN s : f[k] = Op(p, j, k, n)
  BY DEF OpsOfRule
<1>4. \A k \in 1 .. Len(s) : f[k] \in Ops(n)
  <2> HIDE DEF f, s
  <2>1. \A k \in 1 .. Len(s) : k \in Nat
    BY <1>2
  <2> QED BY <1>1, <1>2, <1>3, <2>1 DEF Ops
<1>5. f \in Seq(Ops(n)) /\ DOMAIN f = 1 .. Len(s)
  <2> HIDE DEF f, s
  <2> QED BY <1>1, <1>3, <1>4, MapSeq
<1>6. ASSUME NEW o PROVE o \in ToSet(f) <=> \E k \in DOMAIN s : o = Op(p, j, k, n)
  <2>1. o \in ToSet(f) <=> \E k \in 1 .. Len(s) : o = f[k]
    BY <1>5 DEF ToSet
  <2> HIDE DEF f, s
  <2> QED BY <1>2, <1>3, <2>1
<1>7. IsInjective(f)
  <2>1. ASSUME NEW a \in DOMAIN f, NEW b \in DOMAIN f, f[a] = f[b] PROVE a = b
    <3>1. Op(p, j, a, n) = Op(p, j, b, n)
      BY <1>2, <1>3, <1>5, <2>1
    <3>2. Op(p, j, a, n).at = <<j, a>> /\ Op(p, j, b, n).at = <<j, b>>
      BY DEF Op
    <3>3. <<j, a>> = <<j, b>>
      BY <3>1, <3>2
    <3> QED BY <3>3
  <2> QED BY <2>1 DEF IsInjective
<1> QED BY <1>5, <1>6, <1>7

LEMMA FlattenMap ==
  ASSUME NEW X, NEW s \in Seq(X), NEW Y, NEW f, f = [i \in DOMAIN s |-> f[i]], \A i \in 1 .. Len(s) : f[i] \in Seq(Y)
  PROVE  /\ FlattenSeq(f) \in Seq(Y)
         /\ \A o : o \in ToSet(FlattenSeq(f)) <=> \E i \in 1 .. Len(s) : o \in ToSet(f[i])
         /\ (\A i \in 1 .. Len(s) : IsInjective(f[i]))
            /\ (\A i, j \in 1 .. Len(s) : ToSet(f[i]) \cap ToSet(f[j]) # {} => i = j)
              => IsInjective(FlattenSeq(f))
<1>1. f \in Seq(Seq(Y)) /\ Len(f) = Len(s)
  <2> DEFINE Z == Seq(Y)
  <2>1. \A i \in 1 .. Len(s) : f[i] \in Z
    OBVIOUS
  <2> HIDE DEF Z
  <2>2. f \in Seq(Z) /\ Len(f) = Len(s)
    BY <2>1, MapSeq
  <2> QED BY <2>2 DEF Z
<1>2. FlattenSeq(f) \in Seq(Y) /\ ToSet(FlattenSeq(f)) = UNION {ToSet(f[i]) : i \in 1 .. Len(f)}
  BY <1>1, SetOfFlatten
<1>3. ASSUME \A i \in 1 .. Len(s) : IsInjective(f[i]),
             \A i, j \in 1 .. Len(s) : ToSet(f[i]) \cap ToSet(f[j]) # {} => i = j
      PROVE  IsInjective(FlattenSeq(f))
  BY <1>1, <1>3, FlattenInjective
<1> QED BY <1>1, <1>2, <1>3

LEMMA ProgOps ==
  ASSUME NEW p \in Programs, NEW n
  PROVE  /\ FlattenSeq(OpsOfProg(p, n)) \in Seq(Ops(n)) /\ IsInjective(FlattenSeq(OpsOfProg(p, n)))
         /\ \A o : o \in ToSet(FlattenSeq(OpsOfProg(p, n))) <=>
                      \E j \in DOMAIN p.rules : \E k \in DOMAIN p.rules[j].keys : o = Op(p, j, k, n)
<1> DEFINE s == p.rules
           f == OpsOfProg(p, n)
<1>1. s \in Seq(ToSet(s))
  BY TreesAssumption
<1>2. DOMAIN s = 1 .. Len(s)
  BY <1>1, LenProperties
<1>3. f = [i \in DOMAIN s |-> f[i]] /\ \A i \in DOMAIN s : f[i] = OpsOfRule(p, i, n)
  BY DEF OpsOfProg
<1>4. \A i \in 1 .. Len(s) : /\ f[i] \in Seq(Ops(n)) /\ IsInjective(f[i])
                             /\ \A o : o \in ToSet(f[i]) <=> \E k \in DOMAIN s[i].keys : o = Op(p, i, k, n)
  <2>1. \A i \in DOMAIN s : /\ OpsOfRule(p, i, n) \in Seq(Ops(n)) /\ IsInjective(OpsOfRule(p, i, n))
                            /\ \A o : o \in ToSet(OpsOfRule(p, i, n)) <=> \E k \in DOMAIN s[i].keys : o = Op(p, i, k, n)
    BY RuleOps
  <2> HIDE DEF f, s
  <2> QED BY <1>2, <1>3, <2>1
<1>5. \A i, j \in 1 .. Len(s) : ToSet(f[i]) \cap ToSet(f[j]) # {} => i = j
  <2> SUFFICES ASSUME NEW i \in 1 .. Len(s), NEW j \in 1 .. Len(s), NEW o \in ToSet(f[i]) \cap ToSet(f[j])
               PROVE  i = j
    OBVIOUS
  <2> HIDE DEF f
  <2>1. PICK a : o = Op(p, i, a, n)
    BY <1>4
  <2>2. PICK b : o = Op(p, j, b, n)
    BY <1>4
  <2>3. o.at = <<i, a>> /\ o.at = <<j, b>>
    BY <2>1, <2>2 DEF Op
  <2> QED BY <2>3
<1>6. /\ FlattenSeq(f) \in Seq(Ops(n)) /\ IsInjective(FlattenSeq(f))
      /\ \A o : o \in ToSet(FlattenSeq(f)) <=> \E i \in 1 .. Len(s) : o \in ToSet(f[i])
  <2>1. \A i \in 1 .. Len(s) : f[i] \in Seq(Ops(n)) /\ IsInjective(f[i])
    BY <1>4
  <2> HIDE DEF f, s
  <2> QED BY <1>1, <1>3, <1>5, <2>1, FlattenMap
<1>7. ASSUME NEW o
      PROVE o \in ToSet(FlattenSeq(f)) <=> \E j \in DOMAIN s : \E k \in DOMAIN s[j].keys : o = Op(p, j, k, n)
  <2> DEFINE Has(i) == \E k \in DOMAIN s[i].keys : o = Op(p, i, k, n)
  <2>1. \A i \in 1 .. Len(s) : o \in ToSet(f[i]) <=> Has(i)
    <3> HIDE DEF f
    <3> QED BY <1>4
  <2>2. o \in ToSet(FlattenSeq(f)) <=> \E i \in 1 .. Len(s) : o \in ToSet(f[i])
    BY <1>6
  <2>3. o \in ToSet(FlattenSeq(f)) <=> \E i \in DOMAIN s : Has(i)
    <3> HIDE DEF f, s, Has
    <3> QED BY <1>2, <2>1, <2>2
  <2> QED BY <2>3
<1> QED BY <1>6, <1>7

(* No program is in t twice.                                                *)
Once(t) == \A i, j \in DOMAIN t : t[i].name = t[j].name /\ t[i].cid = t[j].cid => i = j

(* The rules of the programs t are those of its programs, and no others,    *)
(* each once if each program is.                                            *)
LEMMA OpsAre ==
  ASSUME NEW t \in Seq(Programs), NEW n
  PROVE  /\ ModOps(t, n) \in Seq(Ops(n))
         /\ \A o : o \in ToSet(ModOps(t, n)) <=> IsOpOf(o, t, n)
         /\ Once(t) => IsInjective(ModOps(t, n))
<1> DEFINE f == [i \in DOMAIN t |-> FlattenSeq(OpsOfProg(t[i], n))]
<1>1. ModOps(t, n) = FlattenSeq(f)
  BY DEF ModOps, OpsOfProg, OpsOfRule, Op
<1>2. DOMAIN t = 1 .. Len(t) /\ \A i \in 1 .. Len(t) : t[i] \in Programs
  BY LenProperties, ElementOfSeq
<1>3. f = [i \in DOMAIN t |-> f[i]] /\ \A i \in DOMAIN t : f[i] = FlattenSeq(OpsOfProg(t[i], n))
  OBVIOUS
<1> HIDE DEF f
<1>4. \A i \in 1 .. Len(t) : f[i] \in Seq(Ops(n)) /\ IsInjective(f[i])
  BY <1>2, <1>3, ProgOps
<1>5. /\ FlattenSeq(f) \in Seq(Ops(n))
      /\ \A o : o \in ToSet(FlattenSeq(f)) <=> \E i \in 1 .. Len(t) : o \in ToSet(f[i])
  BY <1>3, <1>4, FlattenMap
<1>6. \A i \in 1 .. Len(t) : \A o : o \in ToSet(f[i]) <=>
           \E j \in DOMAIN t[i].rules : \E k \in DOMAIN t[i].rules[j].keys : o = Op(t[i], j, k, n)
  BY <1>2, <1>3, ProgOps
<1>7. ASSUME NEW o PROVE o \in ToSet(FlattenSeq(f)) <=> IsOpOf(o, t, n)
  <2> DEFINE Has(p) == \E j \in DOMAIN p.rules : \E k \in DOMAIN p.rules[j].keys : o = Op(p, j, k, n)
  <2>1. \A p : p \in ToSet(t) <=> \E i \in 1 .. Len(t) : p = t[i]
    BY <1>2 DEF ToSet
  <2>2. \A i \in 1 .. Len(t) : o \in ToSet(f[i]) <=> Has(t[i])
    BY <1>6
  <2>3. o \in ToSet(FlattenSeq(f)) <=> \E i \in 1 .. Len(t) : o \in ToSet(f[i])
    BY <1>5
  <2>4. o \in ToSet(FlattenSeq(f)) <=> \E p \in ToSet(t) : Has(p)
    <3> HIDE DEF Has
    <3> QED BY <2>1, <2>2, <2>3
  <2> QED BY <2>4 DEF IsOpOf
<1>8. ASSUME Once(t) PROVE IsInjective(FlattenSeq(f))
  <2>1. ASSUME NEW i \in 1 .. Len(t), NEW j \in 1 .. Len(t), NEW o \in ToSet(f[i]) \cap ToSet(f[j])
        PROVE  i = j
    <3>1. PICK a, b : o = Op(t[i], a, b, n)
      BY <1>6
    <3>2. PICK c, d : o = Op(t[j], c, d, n)
      BY <1>6
    <3>3. t[i].name = t[j].name /\ t[i].cid = t[j].cid
      BY <3>1, <3>2 DEF Op
    <3> QED BY <1>2, <1>8, <3>3 DEF Once
  <2>2. \A i, j \in 1 .. Len(t) : ToSet(f[i]) \cap ToSet(f[j]) # {} => i = j
    BY <2>1
  <2> QED BY <1>3, <1>4, <2>2, FlattenMap
<1> QED BY <1>1, <1>5, <1>7, <1>8

(* What is found in the directories: the programs that can be run, each     *)
(* once.                                                                    *)
LEMMA SetupFinds ==
  ASSUME NEW t \in Seq(Programs)
  PROVE  /\ setup_modules(t) \in Seq(Programs)
         /\ ToSet(setup_modules(t)) = {p \in ToSet(t) : p.exec}
         /\ Once(t) => Once(setup_modules(t))
<1> DEFINE N == Networks + 1
           Cid(i) == IF i = 1 THEN AnyNetwork ELSE i - 2
           f == [i \in 1 .. N |-> find_modules(t, IF i = 1 THEN AnyNetwork ELSE i - 2)]
<1>1. N \in Nat /\ Networks \in Nat /\ N = Networks + 1
  BY CountsAssumption
<1>2. ASSUME NEW i \in 1 .. N
      PROVE  /\ f[i] \in Seq(Programs) /\ ToSet(f[i]) = {p \in ToSet(t) : p.exec /\ p.cid = Cid(i)}
             /\ IsInjective(t) => IsInjective(f[i])
  <2> DEFINE c == IF i = 1 THEN AnyNetwork ELSE i - 2
             T == {p \in ToSet(t) : p.exec /\ p.cid = c}
  <2>1. f[i] = Keep(t, T)
    BY DEF find_modules
  <2>2. Keep(t, T) \in Seq(Programs) /\ ToSet(Keep(t, T)) = ToSet(t) \cap T
        /\ (IsInjective(t) => IsInjective(Keep(t, T)))
    <3> HIDE DEF T
    <3> QED BY KeepType, SetOfKeep, KeepInjective
  <2>3. ToSet(t) \cap T = {p \in ToSet(t) : p.exec /\ p.cid = Cid(i)}
    OBVIOUS
  <2> HIDE DEF f, T
  <2> QED BY <2>1, <2>2, <2>3
<1>3. f = [i \in 1 .. N |-> f[i]]
  OBVIOUS
<1>4. setup_modules(t) = FlattenSeq(f)
  BY DEF setup_modules
<1> HIDE DEF f, N
<1>5. f \in Seq(Seq(Programs)) /\ Len(f) = N
  <2> DEFINE Z == Seq(Programs)
  <2>1. \A i \in 1 .. N : f[i] \in Z
    BY <1>2
  <2> HIDE DEF Z
  <2>2. f \in Seq(Z)
    BY <1>1, <1>3, <2>1, IsASeq
  <2>3. DOMAIN f = 1 .. N /\ Len(f) \in Nat /\ DOMAIN f = 1 .. Len(f)
    BY <1>3, <2>2, LenProperties
  <2>4. Len(f) = N
    BY <1>1, <2>3
  <2> QED BY <2>2, <2>4 DEF Z
<1>6. FlattenSeq(f) \in Seq(Programs) /\ ToSet(FlattenSeq(f)) = UNION {ToSet(f[i]) : i \in 1 .. Len(f)}
  BY <1>5, SetOfFlatten
<1>7. UNION {ToSet(f[i]) : i \in 1 .. N} = {p \in ToSet(t) : p.exec}
  <2>1. ASSUME NEW p \in ToSet(t), p.exec PROVE \E i \in 1 .. N : p \in ToSet(f[i])
    <3>1. p.cid \in 0 .. Networks
      <4>1. p \in Programs
        BY SetOfSeq
      <4> QED BY <4>1, TreesAssumption
    <3> DEFINE i == IF p.cid = Networks THEN 1 ELSE p.cid + 2
    <3>2. i \in 1 .. N /\ Cid(i) = p.cid
      BY <1>1, <3>1 DEF AnyNetwork
    <3> HIDE DEF i, Cid
    <3>3. p \in ToSet(f[i])
      BY <1>2, <2>1, <3>2
    <3> QED BY <3>2, <3>3
  <2> HIDE DEF Cid
  <2> QED BY <1>2, <2>1
<1>8. ASSUME Once(t) PROVE Once(FlattenSeq(f))
  <2>1. IsInjective(t)
    BY <1>8 DEF Once, IsInjective
  <2>2. ASSUME NEW i \in 1 .. N, NEW j \in 1 .. N, NEW p \in ToSet(f[i]) \cap ToSet(f[j]) PROVE i = j
    <3>1. Cid(i) = Cid(j)
      <4> HIDE DEF Cid
      <4> QED BY <1>2
    <3>2. \A k \in 1 .. N : Cid(k) \in Nat /\ (k # 1 => Cid(k) # Networks /\ k = Cid(k) + 2) /\ (k = 1 => Cid(k) = Networks)
      BY <1>1 DEF AnyNetwork
    <3> HIDE DEF Cid
    <3> QED BY <3>1, <3>2
  <2>3. \A i, j \in 1 .. N : ToSet(f[i]) \cap ToSet(f[j]) # {} => i = j
    BY <2>2
  <2>4. \A i \in 1 .. N : IsInjective(f[i])
    BY <1>2, <2>1
  <2>5. IsInjective(FlattenSeq(f))
    BY <1>5, <2>3, <2>4, FlattenInjective
  <2> DEFINE u == FlattenSeq(f)
  <2>6. \A i \in DOMAIN u : u[i] \in ToSet(t)
    <3>1. \A i \in DOMAIN u : u[i] \in ToSet(u)
      BY DEF ToSet
    <3> HIDE DEF u
    <3> QED BY <1>5, <1>6, <1>7, <3>1 DEF u
  <2>7. \A p, q \in ToSet(t) : p.name = q.name /\ p.cid = q.cid => p = q
    BY <1>8 DEF Once, ToSet
  <2> HIDE DEF u
  <2>8. IsInjective(u)
    BY <2>5 DEF u
  <2>9. \A i, j \in DOMAIN u : u[i].name = u[j].name /\ u[i].cid = u[j].cid => i = j
    BY <2>6, <2>7, <2>8 DEF IsInjective
  <2> QED BY <2>9 DEF Once, u
<1> QED BY <1>4, <1>5, <1>6, <1>7, <1>8

LEMMA RulesToMake ==
  ASSUME NEW t \in Trees, NEW n \in 1 .. MaxSetups
  PROVE  /\ ModOps(setup_modules(t), n) \in Seq(AllOps)
         /\ \A o \in ToSet(ModOps(setup_modules(t), n)) : o.n = n
         /\ IsInjective(ModOps(setup_modules(t), n))
         /\ ToSet(ModOps(Executable(t), n)) = ToSet(ModOps(setup_modules(t), n))
<1> DEFINE u == setup_modules(t)
           s == ModOps(u, n)
           e == Executable(t)
<1>1. t \in Seq(Programs) /\ Once(t)
  BY TreesAssumption DEF Once
<1>2. u \in Seq(Programs) /\ ToSet(u) = {p \in ToSet(t) : p.exec} /\ Once(u)
  BY <1>1, SetupFinds
<1>3. e \in Seq(Programs) /\ ToSet(e) = {p \in ToSet(t) : p.exec}
  <2> DEFINE T == {p \in ToSet(t) : p.exec}
  <2>1. e = Keep(t, T) /\ ToSet(t) \cap T = T
    BY DEF Executable
  <2> HIDE DEF e, T
  <2>2. e \in Seq(Programs) /\ ToSet(e) = T
    BY <1>1, <2>1, KeepType, SetOfKeep
  <2> QED BY <2>2 DEF T
<1> HIDE DEF u, e
<1>4. s \in Seq(Ops(n)) /\ (\A o : o \in ToSet(s) <=> IsOpOf(o, u, n)) /\ IsInjective(s)
  BY <1>2, OpsAre
<1>5. \A o : o \in ToSet(ModOps(t, n)) <=> IsOpOf(o, t, n)
  BY <1>1, OpsAre
<1>6. ToSet(s) \subseteq AllOps
  <2>1. \A o : IsOpOf(o, u, n) => IsOpOf(o, t, n)
    BY <1>2 DEF IsOpOf
  <2>2. ToSet(ModOps(t, n)) \subseteq AllOps
    BY DEF AllOps
  <2> HIDE DEF s
  <2> QED BY <1>4, <1>5, <2>1, <2>2
<1>7. s \in Seq(AllOps)
  <2> HIDE DEF s
  <2>1. s \in Seq(ToSet(s))
    BY <1>4, SetOfSeq
  <2> QED BY <1>6, <2>1, SeqMonotonic
<1>8. \A o \in ToSet(s) : o.n = n
  <2>1. \A o : IsOpOf(o, u, n) => o.n = n
    BY DEF IsOpOf, Op
  <2> HIDE DEF s
  <2> QED BY <1>4, <2>1
<1>9. ToSet(ModOps(e, n)) = ToSet(s)
  <2>1. \A o : o \in ToSet(ModOps(e, n)) <=> IsOpOf(o, e, n)
    BY <1>3, OpsAre
  <2>2. \A o : IsOpOf(o, e, n) <=> IsOpOf(o, u, n)
    BY <1>2, <1>3 DEF IsOpOf
  <2> HIDE DEF s
  <2> QED BY <1>4, <2>1, <2>2
<1> QED BY <1>4, <1>7, <1>8, <1>9 DEF u, e

LEMMA OpShape ==
  ASSUME NEW o \in AllOps
  PROVE  /\ o.n \in 1 .. MaxSetups /\ o.word \in {"DEF", "HOOK", "MATCH"}
         /\ o.word = "HOOK" => o.key \in Keys
<1>1. PICK t \in Trees, n \in 1 .. MaxSetups : o \in ToSet(ModOps(t, n))
  BY DEF AllOps
<1>2. t \in Seq(Programs) /\ ToSet(t) \subseteq Programs
  BY TreesAssumption, SetOfSeq
<1>3. PICK p \in ToSet(t) : \E j \in DOMAIN p.rules : \E k \in DOMAIN p.rules[j].keys : o = Op(p, j, k, n)
  BY <1>1, <1>2, OpsAre DEF IsOpOf
<1>4. PICK j \in DOMAIN p.rules : \E k \in DOMAIN p.rules[j].keys : o = Op(p, j, k, n)
  BY <1>3
<1>5. PICK k \in DOMAIN p.rules[j].keys : o = Op(p, j, k, n)
  BY <1>4
<1> DEFINE r == p.rules[j]
<1>6. o.n = n /\ o.word = r.word /\ o.key = r.keys[k]
  BY <1>5 DEF Op
<1>7. r \in ToSet(p.rules) /\ r.keys[k] \in ToSet(r.keys)
  BY DEF ToSet
<1>8. r.word \in {"DEF", "HOOK", "MATCH"} /\ (r.word = "HOOK" => ToSet(r.keys) \subseteq Keys)
  <2> HIDE DEF r
  <2> QED BY <1>2, <1>7, TreesAssumption
<1> QED BY <1>6, <1>7, <1>8

(***************************************************************************)
(* The inductive invariant.  Fids(k): the numbers of vinny's entries in    *)
(* the list of command k; SetupToCome: seen has yet to grow.               *)
(***************************************************************************)
Hooked == loaded /\ cli.pc \notin {"close", "setup"}
Fids(k) == {i \in 1 .. Slots - 1 : hooks[i] # None /\ hooks[i].cmd = k}
             \cup (IF k = "PRIVMSG" /\ Hooked THEN {0} ELSE {})
Entry(i) == [fn |-> "vinny", fid |-> i, n |-> Len(seen)]
Emptied == ~loaded \/ cli.pc \in {"rgx", "cmds", "privmsg", "close", "setup"}
SetupToCome == cli.pc = "setup" \/ (cli.pc \notin {"idle", "make"} /\ cli.op # "unload")

(* The lists hold the hooks of others as they were, and one entry for each  *)
(* slot in use.                                                             *)
TableInv == \A k \in Keys : /\ IsInjective(table[k]) /\ OfOthers(table[k]) = Others[k]
                            /\ ToSet(table[k]) \cap VinnyHooks = {Entry(i) : i \in Fids(k)}

(* The slots in use are those below ccount that destroy_hooks has not come  *)
(* to.                                                                      *)
SlotInv ==
  /\ \A i \in 1 .. Slots - 1 : hooks[i] # None <=> i < ccount /\ (cli.pc = "hooks" => cli.i <= i)
  /\ Emptied => ccount = 1
  /\ cli.pc = "hooks" => cli.i <= ccount
  /\ Len(seen) <= MaxSetups /\ (SetupToCome => Len(seen) < MaxSetups)
  /\ cli.pc # "idle" => overlap /\ loaded

(* A rule is in the registry of its kind, and is of the last setup; a rule  *)
(* that was freed is of an earlier one once vinny is set up, and never a    *)
(* command.                                                                 *)
RuleInv ==
  /\ \A i \in 1 .. Slots - 1 : hooks[i] # None =>
        hooks[i].mop.n = Len(seen) /\ hooks[i].mop.word = "HOOK" /\ hooks[i].mop.key = hooks[i].cmd
  /\ \A o \in ToSet(rxhead) : o.n = Len(seen) /\ o.word = "MATCH"
  /\ ~loaded \/ cli.pc \in {"cmds", "privmsg", "close", "setup"} => rxhead = <<>>
  /\ cli.pc = "make" => \A o \in ToSet(cli.todo) : o.n = Len(seen)
  /\ \A w \in Words : tab[w] # None => tab[w].word = "DEF"
  /\ \A o \in freed : o.word # "DEF" /\ o.n <= Len(seen)
                        /\ (cli.pc = "make" \/ (cli.pc = "idle" /\ loaded) => o.n < Len(seen))

(* What is left of the list behind the entry the IRC thread is at.          *)
Left(key, at, ran) ==
  \E A, B \in Seq(Hooks) : /\ table[key] = Around(A, at, B)
                           /\ OfOthers(ran) \o OfOthers(<<at>> \o B) = Others[key]

(* The IRC thread has called the hooks of others up to the entry it is at,  *)
(* if that is in the list still; an entry that was removed does not come    *)
(* back.                                                                    *)
ReadInv ==
  /\ reader.pc = "done" /\ reader.msg # None => OfOthers(reader.ran) = Others[reader.msg.key]
  /\ reader.pc # "done" =>
       /\ reader.msg \in Messages /\ reader.at \in Hooks
       /\ reader.at.fn = "vinny" =>
            reader.at.n <= Len(seen) /\ (reader.at.n = Len(seen) /\ cli.pc = "make" => reader.at.fid < ccount)
       /\ reader.at \in ToSet(table[reader.msg.key]) => Left(reader.msg.key, reader.at, reader.ran)
  /\ reader.pc \in {"hook", "cmd", "rgx"} => reader.at.fn = "vinny"
  /\ reader.pc = "hook" => reader.mop # None

(* While no command is in use nothing is freed that the IRC thread holds.   *)
CalmInv ==
  ~overlap => /\ reader.pc # "done" => reader.at \in ToSet(table[reader.msg.key])
              /\ reader.pc \in {"hook", "cmd"} => reader.mop \notin freed
              /\ reader.pc = "rgx" => reader.mop = None \/ reader.mop \in ToSet(rxhead)

RInv == TypeOK /\ TableInv /\ SlotInv /\ RuleInv /\ ReadInv /\ CalmInv

(* Concatenation is associative, by a name that provers do not rewrite.     *)
Assoc(a, b, c) == (a \o b) \o c = a \o (b \o c)

LEMMA Associates ==
  ASSUME NEW X, NEW a \in Seq(X), NEW b \in Seq(X), NEW c \in Seq(X)
  PROVE  Assoc(a, b, c)
BY ConcatAssociative DEF Assoc

Ran == AllOps \cup Hooks

LEMMA HookKinds ==
  /\ \A x \in Hooks : x.fn = "vinny" <=> x \in VinnyHooks
  /\ \A x \in Hooks : x.fn # "vinny" <=> x \in OtherHooks
  /\ AllOps \cap OtherHooks = {}
<1>1. \A x \in VinnyHooks : x.fn = "vinny"
  BY DEF VinnyHooks
<1> QED BY <1>1, OthersAssumption, MessagesAssumption DEF Hooks

(* An entry that is in a list now: if it is vinny's it is of the last       *)
(* setup, and its slot is in use.                                           *)
LEMMA EntryFacts ==
  ASSUME RInv, NEW k \in Keys, NEW x \in ToSet(table[k])
  PROVE  /\ x \in Hooks
         /\ x.fn = "vinny" => /\ x.n = Len(seen) /\ x.fid < ccount
                              /\ x.fid # 0 => x.fid \in 1 .. Slots - 1 /\ hooks[x.fid] # None
<1>1. table[k] \in Seq(Hooks) /\ ccount \in 1 .. Slots /\ Slots \in Nat
  BY CountsAssumption DEF RInv, TypeOK
<1>2. x \in Hooks
  BY <1>1, SetOfSeq
<1>3. ASSUME x.fn = "vinny"
      PROVE  /\ x.n = Len(seen) /\ x.fid < ccount
             /\ x.fid # 0 => x.fid \in 1 .. Slots - 1 /\ hooks[x.fid] # None
  <2>1. x \in ToSet(table[k]) \cap VinnyHooks
    BY <1>2, <1>3, HookKinds
  <2>2. ToSet(table[k]) \cap VinnyHooks = {Entry(i) : i \in Fids(k)}
    BY DEF RInv, TableInv
  <2>3. PICK i \in Fids(k) : x = Entry(i)
    BY <2>1, <2>2
  <2>4. x.fid = i /\ x.n = Len(seen)
    BY <2>3 DEF Entry
  <2>5. i = 0 \/ (i \in 1 .. Slots - 1 /\ hooks[i] # None)
    BY DEF Fids
  <2>6. i \in 1 .. Slots - 1 /\ hooks[i] # None => i < ccount
    BY DEF RInv, SlotInv
  <2>7. 0 < ccount /\ 0 \notin 1 .. Slots - 1
    BY <1>1
  <2> QED BY <2>4, <2>5, <2>6, <2>7
<1> QED BY <1>2, <1>3

(* The entry behind the one the IRC thread is at.                           *)
LEMMA NextEntry ==
  ASSUME RInv, reader.pc # "done", reader.at \in ToSet(table[reader.msg.key]), NEW ran \in Seq(Ran),
         OfOthers(ran) = OfOthers(reader.ran) \o OfOthers(<<reader.at>>)
  PROVE  LET nx == NextOf(table[reader.msg.key], reader.at)
         IN  \/ nx = None /\ OfOthers(ran) = Others[reader.msg.key]
             \/ nx # None /\ nx \in ToSet(table[reader.msg.key]) /\ Left(reader.msg.key, nx, ran)
<1> DEFINE key == reader.msg.key
           at == reader.at
           L == table[key]
           nx == NextOf(L, at)
<1>1. key \in Keys /\ at \in Hooks /\ L \in Seq(Hooks) /\ IsInjective(L) /\ Left(key, at, reader.ran)
  BY MessagesAssumption DEF RInv, TypeOK, TableInv, ReadInv
<1>2. PICK A \in Seq(Hooks), B \in Seq(Hooks) :
        L = Around(A, at, B) /\ OfOthers(reader.ran) \o OfOthers(<<at>> \o B) = Others[key]
  BY <1>1 DEF Left
<1>3. reader.ran \in Seq(Ran) /\ <<at>> \in Seq(Hooks)
  BY <1>1, SingleSeq DEF RInv, TypeOK, Ran
<1>4. /\ OfOthers(reader.ran) \in Seq(Ran) /\ OfOthers(<<at>>) \in Seq(Ran) /\ OfOthers(B) \in Seq(Ran)
      /\ OfOthers(ran) \in Seq(Ran)
  <2>1. <<at>> \in Seq(Ran) /\ B \in Seq(Ran)
    <3>1. Hooks \subseteq Ran
      BY DEF Ran
    <3> QED BY <1>3, <3>1, SeqMonotonic
  <2> QED BY <1>3, <2>1, KeepType DEF OfOthers
<1>5. OfOthers(<<at>> \o B) = OfOthers(<<at>>) \o OfOthers(B)
  <2> DEFINE y == <<at>>
  <2>1. y \in Seq(Hooks)
    BY <1>3
  <2> HIDE DEF y
  <2>2. Keep(y \o B, OtherHooks) = Keep(y, OtherHooks) \o Keep(B, OtherHooks)
    BY <2>1, KeepConcat
  <2> QED BY <2>2 DEF OfOthers, y
<1>6. OfOthers(ran) \o OfOthers(B) = Others[key]
  <2>1. (OfOthers(reader.ran) \o OfOthers(<<at>>)) \o OfOthers(B)
          = OfOthers(reader.ran) \o (OfOthers(<<at>>) \o OfOthers(B))
    <3>1. Assoc(OfOthers(reader.ran), OfOthers(<<at>>), OfOthers(B))
      BY <1>4, Associates
    <3> QED BY <3>1 DEF Assoc
  <2> QED BY <1>2, <1>5, <2>1
<1>7. nx = IF B = <<>> THEN None ELSE Head(B)
  BY <1>1, <1>2, NextIs
<1> HIDE DEF nx, L
<1>8. CASE B = <<>>
  <2>1. OfOthers(B) = <<>>
    BY <1>8, KeepEmpty DEF OfOthers
  <2>2. OfOthers(ran) \o <<>> = OfOthers(ran)
    BY <1>4, ConcatEmptySeq
  <2> QED BY <1>6, <1>7, <1>8, <2>1, <2>2 DEF nx, L
<1>9. CASE B # <<>>
  <2> DEFINE h == Head(B)
             T == Tail(B)
             C == A \o <<at>>
  <2>1. h \in Hooks /\ T \in Seq(Hooks) /\ B = <<h>> \o T
    BY <1>9, HeadTailProperties
  <2>2. C \in Seq(Hooks) /\ <<h>> \in Seq(Hooks)
    BY <1>3, <2>1, ConcatProperties, SingleSeq
  <2>3. L = C \o (<<h>> \o T)
    BY <1>2, <2>1 DEF Around
  <2>4. C \o (<<h>> \o T) = (C \o <<h>>) \o T
    <3> HIDE DEF C, h, T
    <3>1. Assoc(C, <<h>>, T)
      BY <2>1, <2>2, Associates
    <3> QED BY <3>1 DEF Assoc
  <2> HIDE DEF C, h, T
  <2>5. L = Around(C, h, T)
    BY <2>3, <2>4 DEF Around
  <2>6. h \in ToSet(L)
    BY <2>1, <2>2, <2>5, AroundIs
  <2>7. OfOthers(ran) \o OfOthers(<<h>> \o T) = Others[key]
    BY <1>6, <2>1
  <2>8. Left(key, h, ran)
    BY <2>1, <2>2, <2>5, <2>7 DEF Left, L
  <2>9. h # None
    BY <2>1, MessagesAssumption
  <2> QED BY <1>7, <1>9, <2>6, <2>8, <2>9 DEF nx, L, h
<1> QED BY <1>8, <1>9

Readers == [pc : {"done", "at", "hook", "cmd", "rgx"}, msg : Messages \cup {None},
            at : Hooks \cup {None}, mop : AllOps \cup {None}, ran : Seq(Ran)]
Faults == {"none", "double free", "freed hook", "freed rule", "null rule", "unmapped"}

(* A step of the IRC thread leaves the registries alone.                    *)
LEMMA ReaderStep ==
  ASSUME RInv, UNCHANGED <<tree, seen, loaded, lists, cli>>, reader' \in Readers, overlap' \in BOOLEAN,
         fault' \in Faults, cli.pc # "idle" => overlap', ReadInv', CalmInv'
  PROVE  RInv'
<1>1. /\ tree' = tree /\ seen' = seen /\ loaded' = loaded /\ table' = table /\ ccount' = ccount
      /\ hooks' = hooks /\ rxhead' = rxhead /\ cmdl' = cmdl /\ tab' = tab /\ freed' = freed /\ cli' = cli
  BY DEF lists
<1>2. TypeOK'
  <2>1. TypeOK
    BY DEF RInv
  <2> QED BY <1>1, <2>1 DEF TypeOK, Readers, Faults, Ran
<1>3. TableInv'
  <2>1. TableInv
    BY DEF RInv
  <2> QED BY <1>1, <2>1 DEF TableInv, Fids, Hooked, Entry
<1>4. SlotInv'
  <2>1. SlotInv
    BY DEF RInv
  <2> QED BY <1>1, <2>1 DEF SlotInv, Emptied, SetupToCome
<1>5. RuleInv'
  <2>1. RuleInv
    BY DEF RInv
  <2> QED BY <1>1, <2>1 DEF RuleInv
<1> QED BY <1>2, <1>3, <1>4, <1>5 DEF RInv

LEMMA ReaderFacts ==
  ASSUME RInv
  PROVE  /\ reader \in Readers /\ fault \in Faults /\ overlap \in BOOLEAN /\ (cli.pc # "idle" => overlap)
         /\ \A k \in Keys : table[k] \in Seq(Hooks) /\ OfOthers(table[k]) = Others[k]
         /\ ReadInv /\ CalmInv
BY DEF RInv, TypeOK, Readers, Faults, Ran, SlotInv, TableInv

(* A message comes: the IRC thread goes to the head of its list.            *)
LEMMA AtHead ==
  ASSUME RInv, NEW k \in Keys, table[k] # <<>>
  PROVE  Head(table[k]) \in ToSet(table[k]) /\ Left(k, Head(table[k]), <<>>)
<1> DEFINE h == Head(table[k])
           T == Tail(table[k])
<1>1. table[k] \in Seq(Hooks) /\ OfOthers(table[k]) = Others[k]
  BY ReaderFacts
<1>2. h \in Hooks /\ T \in Seq(Hooks) /\ table[k] = <<h>> \o T
  BY <1>1, HeadTailProperties
<1>3. <<>> \in Seq(Hooks) /\ <<h>> \in Seq(Hooks)
  BY <1>2, SingleSeq, EmptySeq
<1>4. <<>> \o <<h>> = <<h>>
  BY <1>3, ConcatEmptySeq
<1> HIDE DEF h, T
<1>5. table[k] = Around(<<>>, h, T)
  BY <1>2, <1>4 DEF Around
<1>6. OfOthers(<<>>) \o OfOthers(<<h>> \o T) = Others[k]
  <2>1. OfOthers(<<>>) = <<>>
    BY KeepEmpty DEF OfOthers
  <2>2. OfOthers(table[k]) \in Seq(Hooks)
    BY <1>1, KeepType DEF OfOthers
  <2>3. <<>> \o OfOthers(table[k]) = OfOthers(table[k])
    BY <2>2, ConcatEmptySeq
  <2> QED BY <1>1, <1>2, <2>1, <2>3
<1>7. Left(k, h, <<>>)
  BY <1>2, <1>3, <1>5, <1>6 DEF Left
<1>8. h \in ToSet(table[k])
  <2>1. ToSet(Around(<<>>, h, T)) = ToSet(<<>>) \cup {h} \cup ToSet(T)
    <3> DEFINE e == <<>>
    <3>1. e \in Seq(Hooks)
      BY <1>3
    <3> HIDE DEF e
    <3>2. ToSet(Around(e, h, T)) = ToSet(e) \cup {h} \cup ToSet(T)
      BY <1>2, <3>1, AroundIs
    <3> QED BY <3>2 DEF e
  <2> QED BY <1>5, <2>1
<1> QED BY <1>7, <1>8 DEF h

LEMMA ReceiveKeeps ==
  ASSUME RInv, NEW m \in Messages, Receive(m)
  PROVE  RInv'
<1>1. /\ reader.pc = "done" /\ overlap' = (cli.pc # "idle") /\ fault' = fault
      /\ UNCHANGED <<tree, seen, loaded, lists, cli>>
      /\ reader' = IF table[m.key] = <<>> THEN [reader EXCEPT !.msg = m, !.ran = <<>>]
                   ELSE [reader EXCEPT !.pc = "at", !.msg = m, !.at = Head(table[m.key]), !.ran = <<>>]
  BY DEF Receive
<1>2. reader \in Readers /\ fault \in Faults /\ m.key \in Keys /\ m # None /\ <<>> \in Seq(Ran)
  BY ReaderFacts, MessagesAssumption, EmptySeq
<1>3. table' = table /\ seen' = seen /\ cli' = cli /\ ccount' = ccount /\ rxhead' = rxhead /\ freed' = freed
  BY <1>1 DEF lists
<1>4. CASE table[m.key] = <<>>
  <2>1. reader' = [reader EXCEPT !.msg = m, !.ran = <<>>]
    BY <1>1, <1>4
  <2>2. reader' \in Readers /\ reader'.pc = "done" /\ reader'.msg = m /\ reader'.ran = <<>>
    BY <1>1, <1>2, <2>1 DEF Readers
  <2>3. OfOthers(<<>>) = Others[m.key]
    BY <1>2, <1>4, ReaderFacts
  <2>4. ReadInv' /\ CalmInv'
    BY <2>2, <2>3 DEF ReadInv, CalmInv
  <2> QED BY <1>1, <1>2, <2>2, <2>4, ReaderStep
<1>5. CASE table[m.key] # <<>>
  <2> DEFINE h == Head(table[m.key])
  <2>1. h \in ToSet(table[m.key]) /\ Left(m.key, h, <<>>)
    BY <1>2, <1>5, AtHead
  <2>2. h \in Hooks /\ (h.fn = "vinny" => h.n = Len(seen) /\ h.fid < ccount)
    BY <1>2, <2>1, EntryFacts
  <2>3. reader' = [reader EXCEPT !.pc = "at", !.msg = m, !.at = h, !.ran = <<>>]
    BY <1>1, <1>5
  <2> HIDE DEF h
  <2>4. reader' \in Readers /\ reader'.pc = "at" /\ reader'.msg = m /\ reader'.at = h /\ reader'.ran = <<>>
    BY <1>2, <2>2, <2>3 DEF Readers
  <2>5. Left(reader.msg.key, reader.at, reader.ran)'
    BY <1>3, <2>1, <2>4 DEF Left
  <2>6. h.fn = "vinny" => h.n <= Len(seen)
    <3>1. Len(seen) \in Nat
      BY LenProperties DEF RInv, TypeOK
    <3> QED BY <2>2, <3>1
  <2>7. ReadInv'
    BY <1>3, <2>2, <2>4, <2>5, <2>6 DEF ReadInv
  <2>8. CalmInv'
    BY <1>3, <2>1, <2>4 DEF CalmInv
  <2> QED BY <1>1, <1>2, <2>4, <2>7, <2>8, ReaderStep
<1> QED BY <1>4, <1>5

(* What the IRC thread ran, seen by the hooks of others.                    *)
LEMMA RanOps ==
  ASSUME NEW r \in Seq(Ran), NEW o \in AllOps
  PROVE  Append(r, o) \in Seq(Ran) /\ OfOthers(Append(r, o)) = OfOthers(r)
<1>1. o \in Ran /\ o \notin OtherHooks
  BY HookKinds DEF Ran
<1> QED BY <1>1, KeepAppend, AppendProperties DEF OfOthers

LEMMA RanVinny ==
  ASSUME NEW r \in Seq(Ran), NEW x \in Hooks, x.fn = "vinny"
  PROVE  OfOthers(r) = OfOthers(r) \o OfOthers(<<x>>)
<1>1. x \notin OtherHooks
  BY HookKinds
<1>2. OfOthers(<<x>>) = <<>>
  BY <1>1, KeepOne DEF OfOthers
<1>3. OfOthers(r) \in Seq(Ran)
  BY KeepType DEF OfOthers
<1> QED BY <1>2, <1>3, ConcatEmptySeq

LEMMA RanOther ==
  ASSUME NEW r \in Seq(Ran), NEW x \in Hooks, x.fn # "vinny"
  PROVE  Append(r, x) \in Seq(Ran) /\ OfOthers(Append(r, x)) = OfOthers(r) \o OfOthers(<<x>>)
<1>1. x \in OtherHooks /\ x \in Ran
  BY HookKinds DEF Ran
<1>2. OfOthers(<<x>>) = <<x>>
  BY <1>1, KeepOne DEF OfOthers
<1>3. OfOthers(r) \in Seq(Ran) /\ OfOthers(Append(r, x)) = Append(OfOthers(r), x)
  BY <1>1, KeepType, KeepAppend DEF OfOthers
<1>4. Append(OfOthers(r), x) = OfOthers(r) \o <<x>>
  BY <1>1, <1>3, AppendIsConcat
<1> QED BY <1>1, <1>2, <1>3, <1>4, AppendProperties

Still == UNCHANGED <<tree, seen, loaded, lists, cli, overlap>>

LEMMA StillIs ==
  ASSUME Still
  PROVE  /\ table' = table /\ seen' = seen /\ cli' = cli /\ ccount' = ccount /\ rxhead' = rxhead
         /\ freed' = freed /\ overlap' = overlap /\ hooks' = hooks
         /\ UNCHANGED <<tree, seen, loaded, lists, cli>>
BY DEF Still, lists

LEMMA StopKeeps ==
  ASSUME RInv, Still, NEW cause \in Faults, Stop(cause)
  PROVE  RInv'
<1>1. reader' = reader /\ fault' \in Faults
  BY DEF Stop
<1>2. ReadInv'
  BY <1>1, StillIs, ReaderFacts DEF ReadInv, Left
<1>3. CalmInv'
  BY <1>1, StillIs, ReaderFacts DEF CalmInv
<1> QED BY <1>1, <1>2, <1>3, StillIs, ReaderFacts, ReaderStep

LEMMA ReturnKeeps ==
  ASSUME RInv, Still, reader.pc # "done", NEW ran \in Seq(Ran),
         OfOthers(ran) = OfOthers(reader.ran) \o OfOthers(<<reader.at>>), Return(ran)
  PROVE  RInv'
<1> DEFINE k == reader.msg.key
           nx == NextOf(table[k], reader.at)
<1>1. CASE reader.at \notin ToSet(table[k])
  <2>1. Stop("freed hook")
    BY <1>1 DEF Return
  <2>2. "freed hook" \in Faults
    BY DEF Faults
  <2> QED BY <2>1, <2>2, StopKeeps
<1>2. CASE reader.at \in ToSet(table[k])
  <2>1. /\ reader' = [reader EXCEPT !.pc = IF nx = None THEN "done" ELSE "at",
                                    !.at = nx, !.mop = None, !.ran = ran]
        /\ fault' = fault
    BY <1>2 DEF Return
  <2>2. \/ nx = None /\ OfOthers(ran) = Others[k]
        \/ nx # None /\ nx \in ToSet(table[k]) /\ Left(k, nx, ran)
    BY <1>2, NextEntry
  <2>3. reader.msg \in Messages /\ k \in Keys /\ reader \in Readers
    BY ReaderFacts, MessagesAssumption DEF ReadInv
  <2>4. nx # None => /\ nx \in Hooks
                     /\ nx.fn = "vinny" => nx.n = Len(seen) /\ nx.fid < ccount
    BY <2>2, <2>3, EntryFacts
  <2>5. Len(seen) \in Nat
    BY LenProperties DEF RInv, TypeOK
  <2> HIDE DEF nx, k
  <2>6. CASE nx = None
    <3>1. reader' = [reader EXCEPT !.pc = "done", !.at = None, !.mop = None, !.ran = ran]
      BY <2>1, <2>6
    <3>2. reader' \in Readers /\ reader'.pc = "done" /\ reader'.msg = reader.msg /\ reader'.ran = ran
      BY <2>3, <3>1 DEF Readers
    <3>3. ReadInv' /\ CalmInv'
      BY <2>2, <2>6, <3>2 DEF ReadInv, CalmInv, k
    <3> QED BY <2>1, <3>2, <3>3, StillIs, ReaderFacts, ReaderStep
  <2>7. CASE nx # None
    <3>1. reader' = [reader EXCEPT !.pc = "at", !.at = nx, !.mop = None, !.ran = ran]
      BY <2>1, <2>7
    <3>2. /\ reader' \in Readers /\ reader'.pc = "at" /\ reader'.msg = reader.msg
          /\ reader'.at = nx /\ reader'.ran = ran
      BY <2>3, <2>4, <2>7, <3>1 DEF Readers
    <3>3. Left(reader.msg.key, reader.at, reader.ran)'
      BY <2>2, <2>7, <3>2, StillIs DEF Left, k
    <3>4. nx.fn = "vinny" => nx.n <= Len(seen)
      BY <2>4, <2>5, <2>7
    <3>5. ReadInv'
      BY <2>3, <2>4, <2>7, <3>2, <3>3, <3>4, StillIs DEF ReadInv
    <3>6. CalmInv'
      BY <2>2, <2>7, <3>2, StillIs DEF CalmInv, k
    <3> QED BY <2>1, <3>2, <3>5, <3>6, StillIs, ReaderFacts, ReaderStep
  <2> QED BY <2>6, <2>7
<1> QED BY <1>1, <1>2

(* Into a hook, a command or a regex: the IRC thread keeps its place.       *)
LEMMA IntoKeeps ==
  ASSUME RInv, Still, reader.pc # "done", reader.at.fn = "vinny", fault' = fault,
         NEW pc \in {"hook", "cmd", "rgx"}, NEW mop \in AllOps \cup {None}, NEW ran \in Seq(Ran),
         OfOthers(ran) = OfOthers(reader.ran),
         reader' = [reader EXCEPT !.pc = pc, !.mop = mop, !.ran = ran],
         pc = "hook" => mop # None,
         ~overlap => (pc \in {"hook", "cmd"} => mop \notin freed) /\ (pc = "rgx" => mop = None \/ mop \in ToSet(rxhead))
  PROVE  RInv'
<1>1. reader \in Readers
  BY ReaderFacts
<1>2. /\ reader' \in Readers /\ reader'.pc = pc /\ reader'.msg = reader.msg
      /\ reader'.at = reader.at /\ reader'.mop = mop /\ reader'.ran = ran
  BY <1>1 DEF Readers
<1>3. Left(reader.msg.key, reader.at, reader.ran) => Left(reader.msg.key, reader.at, reader.ran)'
  BY <1>2, StillIs DEF Left
<1>4. ReadInv
  BY ReaderFacts
<1>5. pc # "done"
  OBVIOUS
<1>6. ReadInv'
  BY <1>2, <1>3, <1>4, <1>5, StillIs DEF ReadInv
<1>7. CalmInv
  BY ReaderFacts
<1>8. CalmInv'
  BY <1>2, <1>5, <1>7, StillIs DEF CalmInv
<1> QED BY <1>2, <1>6, <1>8, StillIs, ReaderFacts, ReaderStep

(* The rule of a slot in use, while no command is: it was not freed.        *)
LEMMA SlotRule ==
  ASSUME RInv, NEW i \in 1 .. Slots - 1, hooks[i] # None
  PROVE  hooks[i].mop \in AllOps /\ hooks[i].mop # None /\ (cli.pc = "idle" => hooks[i].mop \notin freed)
<1>1. hooks[i] \in [cmd : Keys, mop : AllOps]
  BY DEF RInv, TypeOK
<1>2. hooks[i].mop \in AllOps /\ hooks[i].mop # None
  BY <1>1, MessagesAssumption
<1>3. ASSUME cli.pc = "idle" PROVE hooks[i].mop \notin freed
  <2>1. cli.pc = "idle"
    BY <1>3
  <2>2. i < ccount /\ i \in Nat /\ 1 <= i /\ ccount \in Nat
    <3>1. i < ccount
      BY DEF RInv, SlotInv
    <3>2. ccount \in 1 .. Slots /\ Slots \in Nat
      BY CountsAssumption DEF RInv, TypeOK
    <3> QED BY <3>1, <3>2
  <2>3. loaded
    BY <2>1, <2>2 DEF RInv, SlotInv, Emptied
  <2>4. \A o \in freed : o.n < Len(seen)
    BY <2>1, <2>3 DEF RInv, RuleInv
  <2>5. hooks[i].mop.n = Len(seen) /\ Len(seen) \in Nat
    BY LenProperties DEF RInv, RuleInv, TypeOK
  <2> QED BY <2>4, <2>5
<1> QED BY <1>2, <1>3

LEMMA CallKeeps ==
  ASSUME RInv, Call
  PROVE  RInv'
<1> DEFINE at == reader.at
           L == table[reader.msg.key]
           Into(pc, mop) == reader' = [reader EXCEPT !.pc = pc, !.mop = mop] /\ UNCHANGED fault
<1>1. reader.pc = "at" /\ Still
  BY DEF Call, Still
<1>2. reader \in Readers /\ reader.msg.key \in Keys /\ at \in Hooks /\ reader.ran \in Seq(Ran)
  BY <1>1, ReaderFacts, MessagesAssumption DEF ReadInv, Readers
<1>3. IF at \notin ToSet(L) THEN Stop("freed hook")
      ELSE IF at.fn # "vinny" THEN Return(Append(reader.ran, at))
      ELSE IF at.fid = 0 THEN Into("cmd", get_mop(reader.msg.word))
      ELSE IF hooks[at.fid] = None THEN Stop("null rule")
      ELSE Into("hook", hooks[at.fid].mop)
  BY DEF Call
<1>4. ASSUME NEW pc \in {"hook", "cmd"}, NEW mop \in AllOps \cup {None}, Into(pc, mop), at.fn = "vinny",
             pc = "hook" => mop # None, ~overlap => mop \notin freed
      PROVE  RInv'
  <2>1. reader' = [reader EXCEPT !.pc = pc, !.mop = mop, !.ran = reader.ran]
    BY <1>2, <1>4 DEF Readers
  <2>2. pc # "rgx" /\ pc \in {"hook", "cmd", "rgx"} /\ fault' = fault /\ reader.pc # "done"
    BY <1>1, <1>4
  <2> QED BY <1>1, <1>2, <1>4, <2>1, <2>2, IntoKeeps
<1>5. "freed hook" \in Faults /\ "null rule" \in Faults
  BY DEF Faults
<1>6. CASE at \notin ToSet(L)
  BY <1>1, <1>3, <1>5, <1>6, StopKeeps
<1>7. CASE at \in ToSet(L) /\ at.fn # "vinny"
  <2>1. Return(Append(reader.ran, at))
    BY <1>3, <1>7
  <2>2. /\ Append(reader.ran, at) \in Seq(Ran)
        /\ OfOthers(Append(reader.ran, at)) = OfOthers(reader.ran) \o OfOthers(<<at>>)
    BY <1>2, <1>7, RanOther
  <2> QED BY <1>1, <2>1, <2>2, ReturnKeeps
<1>8. CASE at \in ToSet(L) /\ at.fn = "vinny" /\ at.fid = 0
  <2>1. get_mop(reader.msg.word) \in AllOps \cup {None}
    BY DEF get_mop, RInv, TypeOK
  <2>2. Into("cmd", get_mop(reader.msg.word))
    BY <1>3, <1>8
  <2>3. get_mop(reader.msg.word) \notin freed
    <3>1. get_mop(reader.msg.word) # None => get_mop(reader.msg.word).word = "DEF"
      BY DEF get_mop, RInv, RuleInv
    <3>2. None \notin freed /\ \A o \in freed : o.word # "DEF"
      BY MessagesAssumption DEF RInv, TypeOK, RuleInv
    <3> QED BY <3>1, <3>2
  <2> HIDE DEF Into
  <2> QED BY <1>4, <1>8, <2>1, <2>2, <2>3
<1>9. CASE at \in ToSet(L) /\ at.fn = "vinny" /\ at.fid # 0 /\ hooks[at.fid] = None
  BY <1>1, <1>3, <1>5, <1>9, StopKeeps
<1>10. CASE at \in ToSet(L) /\ at.fn = "vinny" /\ at.fid # 0 /\ hooks[at.fid] # None
  <2>1. at.fid \in 1 .. Slots - 1
    BY <1>2, <1>10, EntryFacts
  <2>2. Into("hook", hooks[at.fid].mop)
    BY <1>3, <1>10
  <2>3. /\ hooks[at.fid].mop \in AllOps /\ hooks[at.fid].mop # None
        /\ ~overlap => hooks[at.fid].mop \notin freed
    BY <1>10, <2>1, SlotRule, ReaderFacts
  <2> HIDE DEF Into
  <2> QED BY <1>4, <1>10, <2>2, <2>3
<1> QED BY <1>6, <1>7, <1>8, <1>9, <1>10

LEMMA HookKeeps ==
  ASSUME RInv, spawn_hook
  PROVE  RInv'
<1>1. reader.pc = "hook" /\ Still
  BY DEF spawn_hook, Still
<1>2. /\ reader.at \in Hooks /\ reader.at.fn = "vinny" /\ reader.ran \in Seq(Ran) /\ reader.mop \in AllOps
  BY <1>1, ReaderFacts DEF ReadInv, Readers
<1>3. "freed rule" \in Faults
  BY DEF Faults
<1>4. CASE reader.mop \in freed
  <2>1. Stop("freed rule")
    BY <1>4 DEF spawn_hook
  <2> QED BY <1>1, <1>3, <2>1, StopKeeps
<1>5. CASE reader.mop \notin freed
  <2>1. PICK r \in {reader.ran, Append(reader.ran, reader.mop)} : Return(r)
    BY <1>5 DEF spawn_hook
  <2>2. r \in Seq(Ran) /\ OfOthers(r) = OfOthers(reader.ran)
    BY <1>2, RanOps
  <2>3. OfOthers(r) = OfOthers(reader.ran) \o OfOthers(<<reader.at>>)
    BY <1>2, <2>2, RanVinny
  <2>4. reader.pc # "done"
    BY <1>1
  <2> QED BY <1>1, <2>1, <2>2, <2>3, <2>4, ReturnKeeps
<1> QED BY <1>4, <1>5

LEMMA CmdKeeps ==
  ASSUME RInv, spawn_cmd
  PROVE  RInv'
<1>1. reader.pc = "cmd" /\ Still
  BY DEF spawn_cmd, Still
<1>2. /\ reader.at.fn = "vinny" /\ reader.ran \in Seq(Ran) /\ reader.mop \in AllOps \cup {None}
      /\ reader \in Readers
  BY <1>1, ReaderFacts DEF ReadInv, Readers
<1>3. "freed rule" \in Faults
  BY DEF Faults
<1>4. CASE reader.mop \in freed
  <2>1. Stop("freed rule")
    BY <1>4 DEF spawn_cmd
  <2> QED BY <1>1, <1>3, <2>1, StopKeeps
<1>5. CASE reader.mop \notin freed
  <2> DEFINE nx == IF rxhead = <<>> THEN None ELSE rxhead[1]
             runs == reader.mop # None /\ OnNetwork(reader.mop, reader.msg)
                       /\ chan_allowed(reader.mop, reader.msg.chan)
             r == IF runs THEN Append(reader.ran, reader.mop) ELSE reader.ran
  <2>1. reader' = [reader EXCEPT !.pc = "rgx", !.mop = nx, !.ran = r] /\ fault' = fault
    BY <1>5 DEF spawn_cmd
  <2>2. nx = None \/ (nx \in AllOps /\ nx \in ToSet(rxhead))
    <3>1. rxhead \in Seq(AllOps)
      BY DEF RInv, TypeOK
    <3>2. rxhead # <<>> => rxhead[1] = Head(rxhead) /\ 1 \in DOMAIN rxhead /\ rxhead[1] \in AllOps
      BY <3>1, HeadTailProperties, LenProperties
    <3> QED BY <3>2 DEF ToSet
  <2>3. r \in Seq(Ran) /\ OfOthers(r) = OfOthers(reader.ran)
    BY <1>2, RanOps
  <2>4. reader.pc # "done"
    BY <1>1
  <2> HIDE DEF nx, r, runs
  <2> QED BY <1>1, <1>2, <2>1, <2>2, <2>3, <2>4, IntoKeeps
<1> QED BY <1>4, <1>5

LEMMA NextInList ==
  ASSUME NEW X, NEW s \in Seq(X), NEW x, x \in ToSet(s)
  PROVE  NextOf(s, x) = None \/ (NextOf(s, x) \in X /\ NextOf(s, x) \in ToSet(s))
<1> DEFINE n == Len(s)
           I == {i \in 1 .. Len(s) : s[i] = x}
           i == SelectInSeq(s, LAMBDA y : y = x)
<1>1. n \in Nat /\ DOMAIN s = 1 .. n /\ \A j \in 1 .. n : s[j] \in X
  BY LenProperties, ElementOfSeq
<1>2. I # {} /\ I \subseteq Nat
  BY <1>1 DEF ToSet
<1>3. i = Min(I)
  <2>1. i = IF I # {} THEN Min(I) ELSE 0
    BY DEF SelectInSeq
  <2> HIDE DEF I, i
  <2> QED BY <1>2, <2>1
<1>4. i \in I
  <2>1. \E m \in I : \A k \in I : m <= k
    <3> HIDE DEF I
    <3> QED BY <1>2, LeastNat
  <2>2. Min(I) = CHOOSE m \in I : \A k \in I : m <= k
    BY DEF Min
  <2> HIDE DEF I, i
  <2> QED BY <1>3, <2>1, <2>2
<1>5. i \in 1 .. n
  BY <1>4
<1>6. NextOf(s, x) = IF i = n THEN None ELSE s[i + 1]
  BY DEF NextOf
<1> HIDE DEF i, n, I
<1>7. i # n => i + 1 \in 1 .. n
  BY <1>1, <1>5
<1>8. i # n => s[i + 1] \in X /\ s[i + 1] \in ToSet(s)
  BY <1>1, <1>7 DEF ToSet
<1> QED BY <1>6, <1>8

LEMMA RgxKeeps ==
  ASSUME RInv, spawn_rgx
  PROVE  RInv'
<1>1. reader.pc = "rgx" /\ Still
  BY DEF spawn_rgx, Still
<1>2. /\ reader.at \in Hooks /\ reader.at.fn = "vinny" /\ reader.ran \in Seq(Ran)
      /\ reader \in Readers
  BY <1>1, ReaderFacts DEF ReadInv, Readers
<1>3. "freed rule" \in Faults
  BY DEF Faults
<1>4. CASE reader.mop = None
  <2>1. Return(reader.ran)
    BY <1>4 DEF spawn_rgx
  <2>2. OfOthers(reader.ran) = OfOthers(reader.ran) \o OfOthers(<<reader.at>>)
    BY <1>2, RanVinny
  <2> QED BY <1>1, <1>2, <2>1, <2>2, ReturnKeeps
<1>5. CASE reader.mop # None /\ reader.mop \notin ToSet(rxhead)
  <2>1. Stop("freed rule")
    BY <1>5 DEF spawn_rgx
  <2> QED BY <1>1, <1>3, <2>1, StopKeeps
<1>6. CASE reader.mop # None /\ reader.mop \in ToSet(rxhead)
  <2> DEFINE nx == NextOf(rxhead, reader.mop)
             runs == reader.mop.key \in reader.msg.rx /\ OnNetwork(reader.mop, reader.msg)
                       /\ chan_allowed(reader.mop, reader.msg.chan)
             r == IF runs THEN Append(reader.ran, reader.mop) ELSE reader.ran
  <2>1. reader' = [reader EXCEPT !.mop = nx, !.ran = r] /\ fault' = fault
    BY <1>6 DEF spawn_rgx
  <2>2. rxhead \in Seq(AllOps) /\ reader.mop \in AllOps
    <3>1. rxhead \in Seq(AllOps)
      BY DEF RInv, TypeOK
    <3> QED BY <1>6, <3>1, SetOfSeq
  <2>3. nx = None \/ (nx \in AllOps /\ nx \in ToSet(rxhead))
    BY <1>6, <2>2, NextInList
  <2>4. r \in Seq(Ran) /\ OfOthers(r) = OfOthers(reader.ran)
    BY <1>2, <2>2, RanOps
  <2> HIDE DEF nx, r, runs
  <2>5. reader' = [reader EXCEPT !.pc = "rgx", !.mop = nx, !.ran = r]
    BY <1>1, <1>2, <2>1 DEF Readers
  <2>6. reader.pc # "done"
    BY <1>1
  <2> QED BY <1>1, <1>2, <2>1, <2>3, <2>4, <2>5, <2>6, IntoKeeps
<1> QED BY <1>4, <1>5, <1>6

(***************************************************************************)
(* The steps of the main thread: first those that leave the lists alone.   *)
(***************************************************************************)
LEMMA SameTable ==
  ASSUME RInv, table' = table, hooks' = hooks, seen' = seen, Hooked' = Hooked
  PROVE  TableInv'
<1>1. TableInv
  BY DEF RInv
<1>2. \A k : Fids(k)' = Fids(k)
  BY DEF Fids
<1>3. \A i : Entry(i)' = Entry(i)
  BY DEF Entry
<1> QED BY <1>1, <1>2, <1>3 DEF TableInv

LEMMA SameReader ==
  ASSUME RInv, reader' = reader, table' = table, seen' = seen,
         cli'.pc = "make" => cli.pc = "make" /\ (\A i : i < ccount => i < ccount')
  PROVE  ReadInv'
<1>1. ReadInv
  BY DEF RInv
<1>2. Left(reader.msg.key, reader.at, reader.ran) => Left(reader.msg.key, reader.at, reader.ran)'
  BY DEF Left
<1> QED BY <1>1, <1>2 DEF ReadInv

LEMMA Busy ==
  ASSUME RInv, cli.pc # "idle"
  PROVE  overlap /\ loaded /\ (overlap' = overlap => CalmInv')
BY DEF RInv, SlotInv, CalmInv

LEMMA Types ==
  ASSUME RInv
  PROVE  /\ tree \in Trees /\ seen \in Seq(Trees) /\ Len(seen) \in Nat
         /\ ccount \in 1 .. Slots /\ Slots \in Nat /\ ccount \in Nat /\ MaxSetups \in Nat
         /\ cli.i \in 1 .. Slots /\ cli.todo \in Seq(AllOps) /\ rxhead \in Seq(AllOps)
<1>1. TypeOK
  BY DEF RInv
<1>2. seen \in Seq(Trees) /\ ccount \in 1 .. Slots /\ cli.i \in 1 .. Slots
  BY <1>1 DEF TypeOK
<1>3. tree \in Trees /\ cli.todo \in Seq(AllOps) /\ rxhead \in Seq(AllOps)
  BY <1>1 DEF TypeOK
<1>4. Len(seen) \in Nat /\ Slots \in Nat /\ MaxSetups \in Nat
  BY <1>2, CountsAssumption, LenProperties
<1>5. ccount \in Nat
  BY <1>2, <1>4
<1> QED BY <1>2, <1>3, <1>4, <1>5

LEMMA CommandKeeps ==
  ASSUME RInv, NEW op \in {"load", "unload", "reload", "reloadlib"}, Command(op)
  PROVE  RInv'
<1>1. /\ cli.pc = "idle" /\ loaded = (op # "load") /\ (op # "unload" => Len(seen) < MaxSetups)
      /\ cli' = [cli EXCEPT !.op = op, !.i = 1, !.pc = IF op = "load" THEN "setup" ELSE "hooks"]
      /\ loaded' = TRUE /\ overlap' = TRUE
      /\ tree' = tree /\ seen' = seen /\ reader' = reader /\ fault' = fault /\ table' = table
      /\ ccount' = ccount /\ hooks' = hooks /\ rxhead' = rxhead /\ cmdl' = cmdl /\ tab' = tab /\ freed' = freed
  BY DEF Command, lists
<1>2. TypeOK /\ TableInv /\ SlotInv /\ RuleInv
  BY DEF RInv
<1>3. /\ cli'.op = op /\ cli'.i = 1 /\ cli'.pc = (IF op = "load" THEN "setup" ELSE "hooks")
      /\ cli'.todo = cli.todo
  BY <1>1, <1>2 DEF TypeOK
<1>4. TypeOK'
  <2>1. 1 \in 1 .. Slots
    BY CountsAssumption
  <2> QED BY <1>1, <1>2, <2>1, ZenonT(60) DEF TypeOK
<1>5. TableInv'
  <2>1. CASE op = "load"
    <3>1. ~loaded /\ cli'.pc = "setup"
      BY <1>1, <1>3, <2>1
    <3>2. Hooked' = Hooked
      BY <3>1 DEF Hooked
    <3> QED BY <1>1, <3>2, SameTable
  <2>2. CASE op # "load"
    <3>1. loaded /\ loaded' /\ cli'.pc = "hooks"
      BY <1>1, <1>3, <2>2
    <3>2. Hooked' = Hooked
      BY <1>1, <3>1 DEF Hooked
    <3> QED BY <1>1, <3>2, SameTable
  <2> QED BY <2>1, <2>2
<1>6. SlotInv'
  <2>1. \A i \in 1 .. Slots - 1 : 1 <= i
    BY Types
  <2>2. 1 <= ccount
    BY Types
  <2>3. op = "load" => ccount = 1
    BY <1>1, <1>2 DEF SlotInv, Emptied
  <2>4. Len(seen) <= MaxSetups
    BY <1>2 DEF SlotInv
  <2>5. \A i \in 1 .. Slots - 1 : hooks[i] # None <=> i < ccount
    BY <1>1, <1>2 DEF SlotInv
  <2> QED BY <1>1, <1>3, <2>1, <2>2, <2>3, <2>4, <2>5 DEF SlotInv, Emptied, SetupToCome
<1>7. RuleInv'
  <2>1. cli'.pc \in {"setup", "hooks"} /\ (cli'.pc = "setup" => ~loaded) /\ loaded'
    <3>1. CASE op = "load"
      BY <1>1, <1>3, <3>1
    <3>2. CASE op # "load"
      BY <1>1, <1>3, <3>2
    <3> QED BY <3>1, <3>2
  <2>2. cli'.pc \notin {"make", "idle", "cmds", "privmsg", "close"}
    BY <2>1
  <2> QED BY <1>1, <1>2, <2>1, <2>2 DEF RuleInv
<1>8. ReadInv'
  BY <1>1, <1>3, SameReader
<1>9. CalmInv'
  BY <1>1 DEF CalmInv
<1> QED BY <1>4, <1>5, <1>6, <1>7, <1>8, <1>9 DEF RInv

LEMMA DestroyedHooksKeeps ==
  ASSUME RInv, DestroyedHooks
  PROVE  RInv'
<1>1. /\ cli.pc = "hooks" /\ ~(cli.i < ccount) /\ ccount' = 1 /\ cli' = [cli EXCEPT !.pc = "rgx"]
      /\ tree' = tree /\ seen' = seen /\ reader' = reader /\ fault' = fault /\ table' = table
      /\ hooks' = hooks /\ rxhead' = rxhead /\ cmdl' = cmdl /\ tab' = tab /\ freed' = freed
      /\ loaded' = loaded /\ overlap' = overlap
  BY DEF DestroyedHooks, MoreSlots, Goto
<1>2. TypeOK /\ TableInv /\ SlotInv /\ RuleInv
  BY DEF RInv
<1>3. cli'.op = cli.op /\ cli'.i = cli.i /\ cli'.pc = "rgx" /\ cli'.todo = cli.todo
  BY <1>1, <1>2 DEF TypeOK
<1>4. TypeOK'
  <2>1. 1 \in 1 .. Slots
    BY CountsAssumption
  <2> QED BY <1>1, <1>2, <2>1, ZenonT(60) DEF TypeOK
<1>5. TableInv'
  BY <1>1, <1>3, SameTable DEF Hooked
<1>6. SlotInv'
  <2>1. ASSUME NEW i \in 1 .. Slots - 1 PROVE hooks[i] = None /\ ~(i < 1)
    <3>1. hooks[i] # None <=> i < ccount /\ cli.i <= i
      BY <1>1, <1>2 DEF SlotInv
    <3> QED BY <1>1, <3>1, Types
  <2>2. Len(seen) <= MaxSetups /\ (cli.op # "unload" => Len(seen) < MaxSetups) /\ overlap /\ loaded
    BY <1>1, <1>2 DEF SlotInv, SetupToCome
  <2> QED BY <1>1, <1>3, <2>1, <2>2 DEF SlotInv, Emptied, SetupToCome
<1>7. RuleInv'
  BY <1>1, <1>2, <1>3, Busy DEF RuleInv
<1>8. ReadInv'
  BY <1>1, <1>3, SameReader
<1>9. CalmInv'
  BY <1>1, Busy
<1> QED BY <1>4, <1>5, <1>6, <1>7, <1>8, <1>9 DEF RInv

LEMMA DestroyRgxKeeps ==
  ASSUME RInv, DestroyRgx
  PROVE  RInv'
<1>1. /\ cli.pc = "rgx"
      /\ tree' = tree /\ seen' = seen /\ reader' = reader /\ table' = table /\ ccount' = ccount
      /\ hooks' = hooks /\ cmdl' = cmdl /\ tab' = tab
      /\ loaded' = loaded /\ overlap' = overlap
  BY DEF DestroyRgx
<1>2. TypeOK /\ TableInv /\ SlotInv /\ RuleInv
  BY DEF RInv
<1>3. CASE rxhead = <<>>
  <2>1. cli' = [cli EXCEPT !.pc = "cmds"] /\ rxhead' = rxhead /\ freed' = freed /\ fault' = fault
    BY <1>3 DEF DestroyRgx, Goto
  <2>2. cli'.op = cli.op /\ cli'.i = cli.i /\ cli'.pc = "cmds" /\ cli'.todo = cli.todo
    BY <1>2, <2>1 DEF TypeOK
  <2>3. TypeOK'
    BY <1>1, <1>2, <2>1, ZenonT(60) DEF TypeOK
  <2>4. TableInv'
    BY <1>1, <2>2, SameTable DEF Hooked
  <2>5. SlotInv'
    BY <1>1, <1>2, <2>2 DEF SlotInv, Emptied, SetupToCome
  <2>6. RuleInv'
    BY <1>1, <1>2, <1>3, <2>1, <2>2 DEF RuleInv
  <2>7. ReadInv'
    BY <1>1, <2>2, SameReader
  <2>8. CalmInv'
    BY <1>1, Busy
  <2> QED BY <2>3, <2>4, <2>5, <2>6, <2>7, <2>8 DEF RInv
<1>4. CASE rxhead # <<>>
  <2> DEFINE h == Head(rxhead)
  <2>1. /\ rxhead' = Tail(rxhead) /\ freed' = freed \cup {h} /\ fault' \in {fault, "double free"} /\ cli' = cli
    BY <1>4 DEF DestroyRgx, free_mop
  <2>2. h \in AllOps /\ h \in ToSet(rxhead) /\ rxhead' \in Seq(AllOps) /\ ToSet(rxhead') \subseteq ToSet(rxhead)
    <3>1. rxhead \in Seq(AllOps)
      BY <1>2 DEF TypeOK
    <3>4. h \in AllOps /\ Tail(rxhead) \in Seq(AllOps) /\ rxhead = <<h>> \o Tail(rxhead)
      BY <1>4, <3>1, HeadTailProperties
    <3>2. h \in AllOps /\ rxhead' \in Seq(AllOps) /\ rxhead = <<h>> \o rxhead'
      BY <2>1, <3>4
    <3>3. ToSet(<<h>> \o rxhead') = ToSet(rxhead') \cup {h}
      BY <3>2, InFront
    <3> QED BY <3>2, <3>3
  <2>3. h.n = Len(seen) /\ h.word = "MATCH"
    BY <1>2, <2>2 DEF RuleInv
  <2>4. TypeOK'
    <3>1. fault' \in Faults /\ freed' \subseteq AllOps
      BY <1>2, <2>1, <2>2 DEF TypeOK, Faults
    <3> QED BY <1>1, <1>2, <2>1, <2>2, <3>1, ZenonT(60) DEF TypeOK, Faults
  <2>5. TableInv'
    BY <1>1, <2>1, SameTable DEF Hooked
  <2>6. SlotInv'
    BY <1>1, <1>2, <2>1 DEF SlotInv, Emptied, SetupToCome
  <2>7. RuleInv'
    <3>1. h.n <= Len(seen) /\ h.word # "DEF"
      BY <2>3, Types
    <3>2. loaded
      BY <1>1, Busy
    <3> HIDE DEF h
    <3> QED BY <1>1, <1>2, <2>1, <2>2, <3>1, <3>2 DEF RuleInv
  <2>8. ReadInv'
    BY <1>1, <2>1, SameReader
  <2>9. CalmInv'
    BY <1>1, Busy
  <2> QED BY <2>4, <2>5, <2>6, <2>7, <2>8, <2>9 DEF RInv
<1> QED BY <1>3, <1>4

(* free_cmd finds no command: the prefixes are not empty.                   *)
LEMMA DestroyCmdsKeeps ==
  ASSUME RInv, DestroyCmds
  PROVE  RInv'
<1>1. FreedCmds = {}
  <2>1. \A c : <<"", c>> \notin Words
    BY PrefixAssumption DEF Words
  <2> QED BY <2>1 DEF FreedCmds
<1>2. /\ cli.pc = "cmds" /\ cli' = [cli EXCEPT !.pc = "privmsg"]
      /\ cmdl' = cmdl \ FreedCmds /\ freed' = freed \cup FreedCmds
      /\ tab' = [w \in Words |-> IF w[1] = cmd_prefix[1] /\ tab[w] \in FreedCmds THEN None ELSE tab[w]]
      /\ tree' = tree /\ seen' = seen /\ reader' = reader /\ fault' = fault /\ table' = table /\ ccount' = ccount
      /\ hooks' = hooks /\ rxhead' = rxhead /\ loaded' = loaded /\ overlap' = overlap
  BY DEF DestroyCmds, Goto
<1>3. TypeOK /\ TableInv /\ SlotInv /\ RuleInv
  BY DEF RInv
<1>4. cmdl' = cmdl /\ freed' = freed /\ tab' = tab
  <2>1. tab = [w \in Words |-> tab[w]]
    BY <1>3 DEF TypeOK
  <2>2. tab' = [w \in Words |-> tab[w]]
    BY <1>1, <1>2
  <2> QED BY <1>1, <1>2, <2>1, <2>2
<1>5. cli'.op = cli.op /\ cli'.i = cli.i /\ cli'.pc = "privmsg" /\ cli'.todo = cli.todo
  BY <1>2, <1>3 DEF TypeOK
<1>6. cli' \in [pc : {"idle", "hooks", "rgx", "cmds", "privmsg", "close", "setup", "make"},
                op : {"load", "unload", "reload", "reloadlib"}, i : 1..Slots, todo : Seq(AllOps)]
  BY <1>2, <1>3 DEF TypeOK
<1>7. TypeOK'
  BY <1>2, <1>3, <1>4, <1>6, ZenonT(60) DEF TypeOK
<1>8. TableInv'
  BY <1>2, <1>5, SameTable DEF Hooked
<1>9. SlotInv'
  BY <1>2, <1>3, <1>5 DEF SlotInv, Emptied, SetupToCome
<1>10. RuleInv'
  BY <1>2, <1>3, <1>4, <1>5 DEF RuleInv
<1>11. ReadInv'
  BY <1>2, <1>5, SameReader
<1>12. CalmInv'
  BY <1>2, Busy
<1> QED BY <1>7, <1>8, <1>9, <1>10, <1>11, <1>12 DEF RInv

LEMMA CloseKeeps ==
  ASSUME RInv, Close
  PROVE  RInv'
<1>1. /\ cli.pc = "close" /\ cli' = [cli EXCEPT !.pc = IF cli.op = "unload" THEN "idle" ELSE "setup"]
      /\ loaded' = (cli.op # "unload")
      /\ cmdl' \in {cmdl, {}} /\ fault' \in {fault, "unmapped"}
      /\ tree' = tree /\ seen' = seen /\ reader' = reader /\ freed' = freed /\ tab' = tab /\ table' = table
      /\ ccount' = ccount /\ hooks' = hooks /\ rxhead' = rxhead /\ overlap' = overlap
  BY DEF Close, Goto
<1>2. TypeOK /\ TableInv /\ SlotInv /\ RuleInv
  BY DEF RInv
<1>3. cli'.op = cli.op /\ cli'.i = cli.i /\ cli'.pc = (IF cli.op = "unload" THEN "idle" ELSE "setup")
  BY <1>1, <1>2 DEF TypeOK
<1>4. \/ cli.op = "unload" /\ cli'.pc = "idle" /\ ~loaded'
      \/ cli.op # "unload" /\ cli'.pc = "setup" /\ loaded'
  <2>1. CASE cli.op = "unload"
    BY <1>1, <1>3, <2>1
  <2>2. CASE cli.op # "unload"
    BY <1>1, <1>3, <2>2
  <2> QED BY <2>1, <2>2
<1>5. TypeOK'
  <2>1. cli' \in [pc : {"idle", "hooks", "rgx", "cmds", "privmsg", "close", "setup", "make"},
                  op : {"load", "unload", "reload", "reloadlib"}, i : 1..Slots, todo : Seq(AllOps)]
    BY <1>1, <1>2 DEF TypeOK
  <2>2. fault' \in Faults /\ cmdl' \subseteq AllOps /\ loaded' \in BOOLEAN
    BY <1>1, <1>2 DEF TypeOK, Faults
  <2> QED BY <1>1, <1>2, <2>1, <2>2 DEF TypeOK, Faults
<1>6. TableInv'
  <2>1. ~Hooked /\ ~Hooked'
    BY <1>1, <1>4 DEF Hooked
  <2>2. Hooked' = Hooked
    BY <2>1 DEF Hooked
  <2> QED BY <1>1, <2>2, SameTable
<1>7. SlotInv'
  <2>1. ccount = 1 /\ overlap /\ (cli.op # "unload" => Len(seen) < MaxSetups) /\ Len(seen) <= MaxSetups
    BY <1>1, <1>2 DEF SlotInv, Emptied, SetupToCome
  <2>2. \A i \in 1 .. Slots - 1 : hooks[i] # None <=> i < ccount
    BY <1>1, <1>2 DEF SlotInv
  <2> QED BY <1>1, <1>3, <1>4, <2>1, <2>2 DEF SlotInv, Emptied, SetupToCome
<1>8. RuleInv'
  <2>1. rxhead = <<>>
    BY <1>1, <1>2 DEF RuleInv
  <2>2. cli'.pc # "make" /\ ~(cli'.pc = "idle" /\ loaded')
    BY <1>4
  <2> QED BY <1>1, <1>2, <2>1, <2>2 DEF RuleInv
<1>9. ReadInv'
  <2>1. cli'.pc # "make"
    BY <1>4
  <2> QED BY <1>1, <2>1, SameReader
<1>10. CalmInv'
  BY <1>1, Busy
<1> QED BY <1>5, <1>6, <1>7, <1>8, <1>9, <1>10 DEF RInv

LEMMA SetUpKeeps ==
  ASSUME RInv, SetUp
  PROVE  RInv'
<1>1. /\ cli.pc = "make" /\ cli' = [cli EXCEPT !.pc = "idle"]
      /\ tree' = tree /\ seen' = seen /\ reader' = reader /\ fault' = fault /\ table' = table /\ ccount' = ccount
      /\ hooks' = hooks /\ rxhead' = rxhead /\ loaded' = loaded /\ overlap' = overlap
      /\ cmdl' = cmdl /\ freed' = freed /\ tab' = tab
  BY DEF SetUp, Goto, lists
<1>2. TypeOK /\ TableInv /\ SlotInv /\ RuleInv
  BY DEF RInv
<1>3. cli'.op = cli.op /\ cli'.i = cli.i /\ cli'.pc = "idle" /\ cli'.todo = cli.todo
  BY <1>1, <1>2 DEF TypeOK
<1>4. TypeOK'
  BY <1>1, <1>2, ZenonT(60) DEF TypeOK
<1>5. TableInv'
  BY <1>1, <1>3, SameTable DEF Hooked
<1>6. SlotInv'
  BY <1>1, <1>2, <1>3 DEF SlotInv, Emptied, SetupToCome
<1>7. RuleInv'
  BY <1>1, <1>2, <1>3, Busy DEF RuleInv
<1>8. ReadInv'
  BY <1>1, <1>3, SameReader
<1>9. CalmInv'
  BY <1>1, Busy
<1> QED BY <1>4, <1>5, <1>6, <1>7, <1>8, <1>9 DEF RInv

(* A step that only the directories or nothing take part in.                *)
LEMMA EditKeeps ==
  ASSUME RInv, tree' \in Trees, UNCHANGED <<seen, loaded, lists, cli, reader, overlap, fault>>
  PROVE  RInv'
<1>1. /\ seen' = seen /\ reader' = reader /\ fault' = fault /\ table' = table /\ ccount' = ccount
      /\ hooks' = hooks /\ rxhead' = rxhead /\ loaded' = loaded /\ overlap' = overlap
      /\ cmdl' = cmdl /\ freed' = freed /\ tab' = tab /\ cli' = cli
  BY DEF lists
<1>2. TypeOK /\ TableInv /\ SlotInv /\ RuleInv /\ CalmInv
  BY DEF RInv
<1>3. TypeOK'
  BY <1>1, <1>2 DEF TypeOK
<1>4. TableInv'
  BY <1>1, SameTable DEF Hooked
<1>5. SlotInv'
  BY <1>1, <1>2 DEF SlotInv, Emptied, SetupToCome
<1>6. RuleInv'
  BY <1>1, <1>2 DEF RuleInv
<1>7. ReadInv'
  BY <1>1, SameReader
<1>8. CalmInv'
  BY <1>1, <1>2 DEF CalmInv
<1> QED BY <1>3, <1>4, <1>5, <1>6, <1>7, <1>8 DEF RInv

KeepJoin(s, t, T) == Keep(s \o t, T) = Keep(s, T) \o Keep(t, T)

LEMMA KeepJoins ==
  ASSUME NEW X, NEW s \in Seq(X), NEW t \in Seq(X), NEW T
  PROVE  KeepJoin(s, t, T)
BY KeepConcat DEF KeepJoin

(***************************************************************************)
(* An entry of vinny's is put in front of a list, or some are taken out:   *)
(* what the hooks of others make of the list, and what is left of it for   *)
(* the IRC thread, is the same.                                            *)
(***************************************************************************)
LeftOf(L, at, ran, o) ==
  \E A, B \in Seq(Hooks) : L = Around(A, at, B) /\ OfOthers(ran) \o OfOthers(<<at>> \o B) = o

LEMMA FrontOfList ==
  ASSUME NEW L \in Seq(Hooks), NEW e \in VinnyHooks, e \notin ToSet(L), IsInjective(L)
  PROVE  /\ <<e>> \o L \in Seq(Hooks) /\ IsInjective(<<e>> \o L) /\ ToSet(<<e>> \o L) = ToSet(L) \cup {e}
         /\ OfOthers(<<e>> \o L) = OfOthers(L)
         /\ \A at \in Hooks : \A r, o : LeftOf(L, at, r, o) => LeftOf(<<e>> \o L, at, r, o)
<1>1. e \in Hooks /\ e \notin OtherHooks
  BY HookKinds DEF Hooks
<1>2. <<e>> \in Seq(Hooks)
  BY <1>1, SingleSeq
<1>3. <<e>> \o L \in Seq(Hooks) /\ IsInjective(<<e>> \o L) /\ ToSet(<<e>> \o L) = ToSet(L) \cup {e}
  BY <1>1, InFront
<1>4. OfOthers(<<e>> \o L) = OfOthers(L)
  <2>1. Keep(<<e>>, OtherHooks) = <<>>
    BY <1>1, KeepOne
  <2>2. Keep(<<e>> \o L, OtherHooks) = Keep(<<e>>, OtherHooks) \o Keep(L, OtherHooks)
    <3> DEFINE y == <<e>>
    <3>1. y \in Seq(Hooks)
      BY <1>2
    <3> HIDE DEF y
    <3>2. Keep(y \o L, OtherHooks) = Keep(y, OtherHooks) \o Keep(L, OtherHooks)
      BY <3>1, KeepConcat
    <3> QED BY <3>2 DEF y
  <2>3. Keep(L, OtherHooks) \in Seq(Hooks)
    BY KeepType
  <2>4. <<>> \o Keep(L, OtherHooks) = Keep(L, OtherHooks)
    BY <2>3, ConcatEmptySeq
  <2> QED BY <2>1, <2>2, <2>4 DEF OfOthers
<1>5. ASSUME NEW at \in Hooks, NEW r, NEW o, LeftOf(L, at, r, o) PROVE LeftOf(<<e>> \o L, at, r, o)
  <2>1. PICK A \in Seq(Hooks), B \in Seq(Hooks) : L = Around(A, at, B) /\ OfOthers(r) \o OfOthers(<<at>> \o B) = o
    BY <1>5 DEF LeftOf
  <2> DEFINE C == <<e>> \o A
             D == A \o <<at>>
  <2>2. <<at>> \in Seq(Hooks)
    BY SingleSeq
  <2>3. C \in Seq(Hooks) /\ D \in Seq(Hooks)
    BY <1>2, <2>2, ConcatProperties
  <2>4. L = D \o B
    BY <2>1 DEF Around
  <2> HIDE DEF D
  <2>5. Assoc(<<e>>, D, B)
    BY <1>2, <2>3, Associates
  <2>6. Assoc(<<e>>, A, <<at>>)
    BY <1>2, <2>2, Associates
  <2>7. <<e>> \o L = (<<e>> \o D) \o B
    BY <2>4, <2>5 DEF Assoc
  <2>8. <<e>> \o D = C \o <<at>>
    BY <2>6 DEF Assoc, D
  <2> HIDE DEF C
  <2>9. <<e>> \o L = Around(C, at, B)
    BY <2>7, <2>8 DEF Around
  <2> QED BY <2>1, <2>3, <2>9 DEF LeftOf
<1> QED BY <1>3, <1>4, <1>5

LEMMA OthersOfKeep ==
  ASSUME NEW L \in Seq(Hooks), NEW T, ToSet(L) \cap OtherHooks \subseteq T
  PROVE  OfOthers(Keep(L, T)) = OfOthers(L)
<1>1. Keep(Keep(L, T), OtherHooks) = Keep(L, T \cap OtherHooks)
  BY KeepKeep
<1>2. ToSet(L) \cap (T \cap OtherHooks) = ToSet(L) \cap OtherHooks
  OBVIOUS
<1>3. Keep(L, T \cap OtherHooks) = Keep(L, OtherHooks)
  BY <1>2, KeepSame
<1> QED BY <1>1, <1>3 DEF OfOthers

LEMMA RestOfList ==
  ASSUME NEW L \in Seq(Hooks), NEW T, ToSet(L) \cap OtherHooks \subseteq T, IsInjective(L)
  PROVE  /\ Keep(L, T) \in Seq(Hooks) /\ IsInjective(Keep(L, T)) /\ ToSet(Keep(L, T)) = ToSet(L) \cap T
         /\ OfOthers(Keep(L, T)) = OfOthers(L)
         /\ \A at \in Hooks : \A r, o : at \in T /\ LeftOf(L, at, r, o) => LeftOf(Keep(L, T), at, r, o)
<1>1. Keep(L, T) \in Seq(Hooks) /\ IsInjective(Keep(L, T)) /\ ToSet(Keep(L, T)) = ToSet(L) \cap T
  BY KeepType, KeepInjective, SetOfKeep
<1>2. OfOthers(Keep(L, T)) = OfOthers(L)
  BY OthersOfKeep
<1>3. ASSUME NEW at \in Hooks, NEW r, NEW o, at \in T, LeftOf(L, at, r, o) PROVE LeftOf(Keep(L, T), at, r, o)
  <2>1. PICK A \in Seq(Hooks), B \in Seq(Hooks) : L = Around(A, at, B) /\ OfOthers(r) \o OfOthers(<<at>> \o B) = o
    BY <1>3 DEF LeftOf
  <2> DEFINE C == Keep(A, T)
             D == Keep(B, T)
             y == <<at>>
  <2>2. y \in Seq(Hooks) /\ Keep(y, T) = y
    BY <1>3, SingleSeq, KeepOne
  <2>3. C \in Seq(Hooks) /\ D \in Seq(Hooks)
    BY KeepType
  <2>4. L = (A \o y) \o B
    BY <2>1 DEF Around
  <2> HIDE DEF y
  <2>5. A \o y \in Seq(Hooks)
    BY <2>2, ConcatProperties
  <2>6. Keep(A \o y, T) = C \o y
    <3>9. KeepJoin(A, y, T)
      BY <2>2, KeepJoins
    <3>1. Keep(A \o y, T) = Keep(A, T) \o Keep(y, T)
      BY <3>9 DEF KeepJoin
    <3> QED BY <2>2, <3>1
  <2>7. Keep(L, T) = (C \o y) \o D
    <3> DEFINE u == A \o y
    <3>1. u \in Seq(Hooks)
      BY <2>5
    <3> HIDE DEF u
    <3>2. Keep(u \o B, T) = Keep(u, T) \o Keep(B, T)
      BY <3>1, KeepConcat, SMTT(60)
    <3> QED BY <2>4, <2>6, <3>2 DEF u
  <2>8. OfOthers(D) = OfOthers(B)
    <3>1. ToSet(B) \subseteq ToSet(L)
      BY <2>1, AroundIs
    <3>2. ToSet(B) \cap OtherHooks \subseteq T
      BY <3>1
    <3> QED BY <3>2, OthersOfKeep
  <2>9. OfOthers(y \o D) = OfOthers(y \o B)
    <3> HIDE DEF D
    <3>9. KeepJoin(y, D, OtherHooks)
      BY <2>2, <2>3, KeepJoins
    <3>1. Keep(y \o D, OtherHooks) = Keep(y, OtherHooks) \o Keep(D, OtherHooks)
      BY <3>9 DEF KeepJoin
    <3>8. KeepJoin(y, B, OtherHooks)
      BY <2>2, KeepJoins
    <3>2. Keep(y \o B, OtherHooks) = Keep(y, OtherHooks) \o Keep(B, OtherHooks)
      BY <3>8 DEF KeepJoin
    <3> QED BY <2>8, <3>1, <3>2 DEF OfOthers
  <2> HIDE DEF C, D
  <2>10. Keep(L, T) = Around(C, at, D)
    BY <2>7 DEF Around, y
  <2>11. OfOthers(r) \o OfOthers(<<at>> \o D) = o
    BY <2>1, <2>9 DEF y
  <2> QED BY <2>3, <2>10, <2>11 DEF LeftOf
<1> QED BY <1>1, <1>2, <1>3

LEMMA ListsChange ==
  ASSUME RInv, reader' = reader, Len(seen) <= Len(seen'), Len(seen') \in Nat,
         \A k \in Keys : reader.at \in ToSet(table'[k]) /\ reader.at \in Hooks
                            /\ (reader.at.fn = "vinny" => reader.at.n <= Len(seen)
                                   /\ (reader.at.n = Len(seen) /\ cli.pc = "make" => reader.at.fid < ccount)) =>
           /\ reader.at \in ToSet(table[k])
           /\ \A r, o : LeftOf(table[k], reader.at, r, o) => LeftOf(table'[k], reader.at, r, o),
         cli'.pc = "make" => \/ Len(seen) < Len(seen')
                             \/ cli.pc = "make" /\ Len(seen') = Len(seen) /\ \A i \in Nat : i < ccount => i < ccount'
  PROVE  ReadInv'
<1> DEFINE k == reader.msg.key
           at == reader.at
<1>2. ReadInv
  BY DEF RInv
<1>3. CASE reader.pc = "done"
  BY <1>2, <1>3 DEF ReadInv
<1>4. CASE reader.pc # "done"
  <2>1. /\ reader.msg \in Messages /\ at \in Hooks /\ k \in Keys
        /\ at.fn = "vinny" => at.n <= Len(seen) /\ (at.n = Len(seen) /\ cli.pc = "make" => at.fid < ccount)
        /\ at \in ToSet(table[k]) => Left(k, at, reader.ran)
    BY <1>2, <1>4, MessagesAssumption DEF ReadInv
  <2>2. at \in ToSet(table'[k]) => LeftOf(table'[k], at, reader.ran, Others[k])
    <3>1. Left(k, at, reader.ran) => LeftOf(table[k], at, reader.ran, Others[k])
      BY DEF Left, LeftOf
    <3> QED BY <2>1, <3>1
  <2>3. at \in ToSet(table'[k]) => Left(reader.msg.key, reader.at, reader.ran)'
    BY <2>2 DEF Left, LeftOf
  <2>4. ASSUME at.fn = "vinny"
        PROVE  at.n <= Len(seen') /\ (at.n = Len(seen') /\ cli'.pc = "make" => at.fid < ccount')
    <3>1. at.n \in Nat /\ at.fid \in Nat /\ Len(seen) \in Nat /\ Len(seen') \in Nat
      <4>1. at \in VinnyHooks
        BY <2>1, <2>4, HookKinds
      <4>2. at.n \in 1 .. MaxSetups /\ at.fid \in 0 .. Slots - 1
        BY <4>1 DEF VinnyHooks
      <4> QED BY <4>2, Types
    <3>2. at.n <= Len(seen')
      BY <2>1, <2>4, <3>1
    <3>3. ASSUME at.n = Len(seen'), cli'.pc = "make" PROVE at.fid < ccount'
      <4>1. ~(Len(seen) < Len(seen'))
        BY <2>1, <2>4, <3>1, <3>3
      <4> QED BY <2>1, <2>4, <3>1, <3>3, <4>1
    <3> QED BY <3>2, <3>3
  <2> QED BY <1>2, <1>4, <2>1, <2>3, <2>4 DEF ReadInv
<1> QED BY <1>3, <1>4

LEMMA ListFacts ==
  ASSUME RInv, NEW k \in Keys
  PROVE  /\ table \in [Keys -> Seq(Hooks)] /\ table[k] \in Seq(Hooks) /\ IsInjective(table[k])
         /\ OfOthers(table[k]) = Others[k] /\ ToSet(table[k]) \cap VinnyHooks = {Entry(i) : i \in Fids(k)}
         /\ ToSet(table[k]) \subseteq Hooks
<1>1. /\ table \in [Keys -> Seq(Hooks)] /\ table[k] \in Seq(Hooks) /\ IsInjective(table[k])
      /\ OfOthers(table[k]) = Others[k] /\ ToSet(table[k]) \cap VinnyHooks = {Entry(i) : i \in Fids(k)}
  BY DEF RInv, TypeOK, TableInv
<1>2. ToSet(table[k]) \subseteq Hooks
  BY <1>1, SetOfSeq
<1> QED BY <1>1, <1>2

LEMMA DestroyHookKeeps ==
  ASSUME RInv, DestroyHook
  PROVE  RInv'
<1> DEFINE i == cli.i
           k == hooks[i].cmd
           o == hooks[i].mop
           T == {e \in ToSet(table[k]) : ~(e.fid = i /\ e.fn = "vinny")}
<1>1. /\ cli.pc = "hooks" /\ i < ccount /\ table' = [table EXCEPT ![k] = Keep(table[k], T)]
      /\ freed' = freed \cup {o} /\ fault' \in {fault, "double free"}
      /\ hooks' = [hooks EXCEPT ![i] = None] /\ cli' = [cli EXCEPT !.i = i + 1]
      /\ tree' = tree /\ seen' = seen /\ loaded' = loaded /\ ccount' = ccount /\ rxhead' = rxhead
      /\ cmdl' = cmdl /\ tab' = tab /\ reader' = reader /\ overlap' = overlap
  BY DEF DestroyHook, MoreSlots, rm_irc_hook, free_mop
<1>2. TypeOK /\ SlotInv /\ RuleInv
  BY DEF RInv
<1>3. i \in 1 .. Slots - 1 /\ i \in Nat /\ i # 0 /\ i + 1 \in 1 .. Slots /\ i + 1 <= ccount
  <2>1. i \in 1 .. Slots /\ ccount \in 1 .. Slots /\ Slots \in Nat /\ i < ccount
    BY <1>1, Types
  <2> HIDE DEF i
  <2> QED BY <2>1
<1>4. hooks[i] # None
  <2>1. hooks[i] # None <=> i < ccount /\ (cli.pc = "hooks" => i <= i)
    BY <1>2, <1>3 DEF SlotInv
  <2>2. i <= i
    BY <1>3
  <2> QED BY <1>1, <2>1, <2>2
<1>5. hooks[i] \in [cmd : Keys, mop : AllOps]
  BY <1>2, <1>3, <1>4 DEF TypeOK
<1>6. k \in Keys /\ o \in AllOps /\ o.n = Len(seen) /\ o.word = "HOOK"
  BY <1>2, <1>3, <1>4, <1>5 DEF RuleInv
<1>7. cli'.op = cli.op /\ cli'.i = i + 1 /\ cli'.pc = "hooks" /\ cli'.todo = cli.todo
  BY <1>1, <1>2 DEF TypeOK
<1>8. \A j \in 1 .. Slots - 1 : hooks'[j] = IF j = i THEN None ELSE hooks[j]
  BY <1>1, <1>2 DEF TypeOK
<1>9. ToSet(table[k]) \cap OtherHooks \subseteq T
  BY OthersAssumption
<1>10. /\ Keep(table[k], T) \in Seq(Hooks) /\ IsInjective(Keep(table[k], T))
       /\ ToSet(Keep(table[k], T)) = T
       /\ OfOthers(Keep(table[k], T)) = OfOthers(table[k])
       /\ \A at \in Hooks : \A r, x : at \in T /\ LeftOf(table[k], at, r, x) => LeftOf(Keep(table[k], T), at, r, x)
  <2>1. table[k] \in Seq(Hooks) /\ IsInjective(table[k])
    BY <1>6, ListFacts
  <2>2. ToSet(table[k]) \cap T = T
    OBVIOUS
  <2> HIDE DEF T, k
  <2> QED BY <1>9, <2>1, <2>2, RestOfList
<1> HIDE DEF T
<1>11. table' \in [Keys -> Seq(Hooks)] /\ table'[k] = Keep(table[k], T) /\ \A j \in Keys : j # k => table'[j] = table[j]
  BY <1>1, <1>6, <1>10, ListFacts
<1>12. TypeOK'
  <2>1. cli' \in [pc : {"idle", "hooks", "rgx", "cmds", "privmsg", "close", "setup", "make"},
                  op : {"load", "unload", "reload", "reloadlib"}, i : 1..Slots, todo : Seq(AllOps)]
    BY <1>1, <1>2, <1>3 DEF TypeOK
  <2>2. fault' \in Faults /\ freed' \subseteq AllOps
    BY <1>1, <1>2, <1>6 DEF TypeOK, Faults
  <2>3. hooks' \in [1..(Slots - 1) -> [cmd : Keys, mop : AllOps] \cup {None}]
    BY <1>1, <1>2 DEF TypeOK
  <2> QED BY <1>1, <1>2, <1>11, <2>1, <2>2, <2>3 DEF TypeOK, Faults
<1>13. TableInv'
  <2>1. \A j : Entry(j)' = Entry(j) /\ Entry(j).fid = j /\ Entry(j).fn = "vinny"
    BY <1>1 DEF Entry
  <2>2. Hooked' = Hooked
    BY <1>1, <1>7 DEF Hooked
  <2>3. ASSUME NEW j \in Keys, j # k PROVE Fids(j)' = Fids(j)
    <3>1. ASSUME NEW x PROVE x \in Fids(j)' <=> x \in Fids(j)
      <4>1. CASE x = i
        BY <1>3, <1>8, <2>2, <2>3, <4>1 DEF Fids
      <4>2. CASE x # i
        BY <1>8, <2>2, <4>2 DEF Fids
      <4> QED BY <4>1, <4>2
    <3> QED BY <3>1
  <2>4. ASSUME NEW j \in Keys, j = k PROVE Fids(j)' = Fids(j) \ {i}
    <3>1. ASSUME NEW x PROVE x \in Fids(j)' <=> x \in Fids(j) /\ x # i
      BY <1>3, <1>8, <2>2 DEF Fids
    <3> QED BY <3>1
  <2>5. ASSUME NEW j \in Keys
        PROVE  /\ IsInjective(table'[j]) /\ OfOthers(table'[j]) = Others[j]
               /\ ToSet(table'[j]) \cap VinnyHooks = {Entry(x)' : x \in Fids(j)'}
    <3>1. CASE j # k
      <4>1. {Entry(x)' : x \in Fids(j)'} = {Entry(x) : x \in Fids(j)}
        BY <2>1, <2>3, <3>1
      <4> QED BY <1>11, <3>1, <4>1, ListFacts
    <3>2. CASE j = k
      <4>1. ToSet(table[k]) \cap VinnyHooks = {Entry(x) : x \in Fids(k)}
        BY <1>6, ListFacts
      <4>2. T \cap VinnyHooks = {Entry(x) : x \in Fids(k) \ {i}}
        BY <2>1, <4>1 DEF T
      <4>3. {Entry(x)' : x \in Fids(j)'} = {Entry(x) : x \in Fids(k) \ {i}}
        BY <2>1, <2>4, <3>2
      <4>4. IsInjective(table'[k]) /\ OfOthers(table'[k]) = Others[k] /\ ToSet(table'[k]) = T
        BY <1>6, <1>10, <1>11, ListFacts
      <4> QED BY <3>2, <4>2, <4>3, <4>4
    <3> QED BY <3>1, <3>2
  <2> QED BY <2>5 DEF TableInv
<1>14. SlotInv'
  <2>1. ASSUME NEW j \in 1 .. Slots - 1 PROVE hooks'[j] # None <=> j < ccount /\ i + 1 <= j
    <3>1. hooks[j] # None <=> j < ccount /\ i <= j
      BY <1>1, <1>2 DEF SlotInv
    <3>2. j \in Nat
      BY Types
    <3>3. i + 1 <= j <=> i <= j /\ j # i
      BY <1>3, <3>2
    <3>4. hooks'[j] # None <=> hooks[j] # None /\ j # i
      BY <1>8
    <3> QED BY <3>1, <3>3, <3>4
  <2>2. Len(seen) <= MaxSetups /\ (cli.op # "unload" => Len(seen) < MaxSetups) /\ overlap /\ loaded
    BY <1>1, <1>2 DEF SlotInv, SetupToCome
  <2> QED BY <1>1, <1>3, <1>7, <2>1, <2>2 DEF SlotInv, Emptied, SetupToCome
<1>15. RuleInv'
  <2>1. o.n <= Len(seen) /\ o.word # "DEF"
    BY <1>6, Types
  <2>2. \A j \in 1 .. Slots - 1 : hooks'[j] # None => hooks'[j] = hooks[j]
    BY <1>8
  <2>3. loaded
    BY <1>1, Busy
  <2>4. \A x \in freed' : x \in freed \/ x = o
    BY <1>1
  <2>5. cli.pc = "hooks" /\ cli'.pc = "hooks" /\ loaded'
    BY <1>1, <1>7, <2>3
  <2> HIDE DEF o, k, i
  <2>6. \A j \in 1 .. Slots - 1 : hooks'[j] # None =>
           hooks'[j].mop.n = Len(seen) /\ hooks'[j].mop.word = "HOOK" /\ hooks'[j].mop.key = hooks'[j].cmd
    BY <1>2, <2>2 DEF RuleInv
  <2>7. \A x \in freed' : x.word # "DEF" /\ x.n <= Len(seen)
    BY <1>2, <2>1, <2>4 DEF RuleInv
  <2>8. seen' = seen /\ rxhead' = rxhead /\ tab' = tab
    BY <1>1
  <2>9. /\ \A x \in ToSet(rxhead) : x.n = Len(seen) /\ x.word = "MATCH"
        /\ \A w \in Words : tab[w] # None => tab[w].word = "DEF"
    BY <1>2 DEF RuleInv
  <2> QED BY <2>5, <2>6, <2>7, <2>8, <2>9 DEF RuleInv
<1>16. ReadInv'
  <2>1. ASSUME NEW j \in Keys, reader.at \in ToSet(table'[j]), reader.at \in Hooks
        PROVE  /\ reader.at \in ToSet(table[j])
               /\ \A r, x : LeftOf(table[j], reader.at, r, x) => LeftOf(table'[j], reader.at, r, x)
    <3>1. CASE j # k
      BY <1>11, <2>1, <3>1
    <3>2. CASE j = k
      <4>1. reader.at \in T /\ T \subseteq ToSet(table[k])
        BY <1>10, <1>11, <2>1, <3>2 DEF T
      <4> QED BY <1>10, <1>11, <2>1, <3>2, <4>1
    <3> QED BY <3>1, <3>2
  <2>2. Len(seen') \in Nat /\ Len(seen) <= Len(seen') /\ cli'.pc # "make"
    <3>1. seen' = seen /\ cli'.pc = "hooks" /\ Len(seen) \in Nat
      BY <1>1, <1>7, Types
    <3> QED BY <3>1
  <2> QED BY <1>1, <2>1, <2>2, ListsChange
<1>17. CalmInv'
  BY <1>1, Busy
<1> QED BY <1>12, <1>13, <1>14, <1>15, <1>16, <1>17 DEF RInv

LEMMA RmPrivmsgKeeps ==
  ASSUME RInv, RmPrivmsg
  PROVE  RInv'
<1> DEFINE k == "PRIVMSG"
           T == {e \in ToSet(table[k]) : e.fn # "vinny"}
<1>1. /\ cli.pc = "privmsg" /\ table' = [table EXCEPT ![k] = Keep(table[k], T)]
      /\ cli' = [cli EXCEPT !.pc = "close"]
      /\ tree' = tree /\ seen' = seen /\ loaded' = loaded /\ ccount' = ccount /\ rxhead' = rxhead
      /\ cmdl' = cmdl /\ tab' = tab /\ reader' = reader /\ overlap' = overlap /\ hooks' = hooks
      /\ freed' = freed /\ fault' = fault
  BY DEF RmPrivmsg, rm_irc_hooks, Goto
<1>2. TypeOK /\ SlotInv /\ RuleInv
  BY DEF RInv
<1>3. k \in Keys
  BY OthersAssumption
<1>4. cli'.op = cli.op /\ cli'.i = cli.i /\ cli'.pc = "close" /\ cli'.todo = cli.todo
  BY <1>1, <1>2 DEF TypeOK
<1>5. ToSet(table[k]) \cap OtherHooks \subseteq T /\ T \cap VinnyHooks = {}
  BY OthersAssumption DEF VinnyHooks
<1>6. /\ Keep(table[k], T) \in Seq(Hooks) /\ IsInjective(Keep(table[k], T))
      /\ ToSet(Keep(table[k], T)) = T
      /\ OfOthers(Keep(table[k], T)) = OfOthers(table[k])
      /\ \A at \in Hooks : \A r, x : at \in T /\ LeftOf(table[k], at, r, x) => LeftOf(Keep(table[k], T), at, r, x)
  <2>1. table[k] \in Seq(Hooks) /\ IsInjective(table[k])
    BY <1>3, ListFacts
  <2>2. ToSet(table[k]) \cap T = T
    OBVIOUS
  <2> HIDE DEF T, k
  <2> QED BY <1>5, <2>1, <2>2, RestOfList
<1>7. T \subseteq ToSet(table[k])
  OBVIOUS
<1> HIDE DEF T
<1>8. table' \in [Keys -> Seq(Hooks)] /\ table'[k] = Keep(table[k], T) /\ \A j \in Keys : j # k => table'[j] = table[j]
  BY <1>1, <1>3, <1>6, ListFacts
<1>9. TypeOK'
  BY <1>1, <1>2, <1>8, ZenonT(60) DEF TypeOK
<1>10. ccount = 1 /\ \A j \in 1 .. Slots - 1 : hooks[j] = None
  <2>1. ccount = 1
    BY <1>1, <1>2 DEF SlotInv, Emptied
  <2>2. ASSUME NEW j \in 1 .. Slots - 1 PROVE hooks[j] = None
    <3>1. hooks[j] # None <=> j < ccount
      BY <1>1, <1>2 DEF SlotInv
    <3>2. ~(j < 1)
      BY Types
    <3> QED BY <2>1, <3>1, <3>2
  <2> QED BY <2>1, <2>2
<1>11. TableInv'
  <2>1. ASSUME NEW j \in Keys PROVE Fids(j)' = {} /\ (j # k => Fids(j) = {})
    BY <1>1, <1>4, <1>10 DEF Fids, Hooked
  <2>2. ASSUME NEW j \in Keys
        PROVE  /\ IsInjective(table'[j]) /\ OfOthers(table'[j]) = Others[j]
               /\ ToSet(table'[j]) \cap VinnyHooks = {Entry(x)' : x \in Fids(j)'}
    <3>1. CASE j # k
      <4>1. ToSet(table[j]) \cap VinnyHooks = {}
        BY <2>1, <3>1, ListFacts
      <4> QED BY <1>8, <2>1, <3>1, <4>1, ListFacts
    <3>2. CASE j = k
      BY <1>3, <1>5, <1>6, <1>8, <2>1, <3>2, ListFacts
    <3> QED BY <3>1, <3>2
  <2> QED BY <2>2 DEF TableInv
<1>12. SlotInv'
  BY <1>1, <1>2, <1>4 DEF SlotInv, Emptied, SetupToCome
<1>13. RuleInv'
  BY <1>1, <1>2, <1>4 DEF RuleInv
<1>14. ReadInv'
  <2>1. ASSUME NEW j \in Keys, reader.at \in ToSet(table'[j]), reader.at \in Hooks
        PROVE  /\ reader.at \in ToSet(table[j])
               /\ \A r, x : LeftOf(table[j], reader.at, r, x) => LeftOf(table'[j], reader.at, r, x)
    <3>1. CASE j # k
      BY <1>8, <2>1, <3>1
    <3>2. CASE j = k
      BY <1>6, <1>7, <1>8, <2>1, <3>2
    <3> QED BY <3>1, <3>2
  <2>2. Len(seen') \in Nat /\ Len(seen) <= Len(seen') /\ cli'.pc # "make"
    <3>1. seen' = seen /\ cli'.pc = "close" /\ Len(seen) \in Nat
      BY <1>1, <1>4, Types
    <3> QED BY <3>1
  <2> QED BY <1>1, <2>1, <2>2, ListsChange
<1>15. CalmInv'
  BY <1>1, Busy
<1> QED BY <1>9, <1>11, <1>12, <1>13, <1>14, <1>15 DEF RInv

LEMMA SetupKeeps ==
  ASSUME RInv, setup_vinny
  PROVE  RInv'
<1> DEFINE k == "PRIVMSG"
           n == Len(seen')
           e == [fn |-> "vinny", fid |-> 0, n |-> n]
           todo == ModOps(setup_modules(tree), n)
<1>1. /\ cli.pc = "setup" /\ seen' = Append(seen, tree)
      /\ table' = [table EXCEPT ![k] = <<e>> \o table[k]]
      /\ cli' = [cli EXCEPT !.pc = "make", !.todo = todo]
      /\ tree' = tree /\ loaded' = loaded /\ ccount' = ccount /\ rxhead' = rxhead
      /\ cmdl' = cmdl /\ tab' = tab /\ reader' = reader /\ overlap' = overlap /\ hooks' = hooks
      /\ freed' = freed /\ fault' = fault
  BY DEF setup_vinny, add_irc_hook
<1>2. TypeOK /\ SlotInv /\ RuleInv
  BY DEF RInv
<1>3. seen' \in Seq(Trees) /\ n = Len(seen) + 1 /\ n \in Nat /\ n \in 1 .. MaxSetups /\ Len(seen) < n
  <2>1. seen \in Seq(Trees) /\ tree \in Trees /\ Len(seen) \in Nat /\ MaxSetups \in Nat
    BY Types
  <2>2. seen' \in Seq(Trees) /\ n = Len(seen) + 1
    BY <1>1, <2>1, AppendProperties
  <2>3. Len(seen) < MaxSetups
    BY <1>1, <1>2 DEF SlotInv, SetupToCome
  <2> HIDE DEF n
  <2> QED BY <2>1, <2>2, <2>3
<1>4. tree \in Trees /\ todo \in Seq(AllOps) /\ \A o \in ToSet(todo) : o.n = n
  BY <1>2, <1>3, RulesToMake DEF TypeOK
<1>5. k \in Keys
  BY OthersAssumption
<1>6. e \in VinnyHooks /\ e.n = n /\ e.fn = "vinny" /\ e \in Hooks
  <2>1. 0 \in 0 .. Slots - 1
    BY CountsAssumption
  <2> QED BY <1>3, <2>1 DEF VinnyHooks, Hooks
<1>7. cli'.op = cli.op /\ cli'.i = cli.i /\ cli'.pc = "make" /\ cli'.todo = todo
  BY <1>1, <1>2 DEF TypeOK
<1>8. ccount = 1 /\ \A j \in 1 .. Slots - 1 : hooks[j] = None
  <2>1. ccount = 1
    BY <1>1, <1>2 DEF SlotInv, Emptied
  <2>2. ASSUME NEW j \in 1 .. Slots - 1 PROVE hooks[j] = None
    <3>1. hooks[j] # None <=> j < ccount
      BY <1>1, <1>2 DEF SlotInv
    <3>2. ~(j < 1)
      BY Types
    <3> QED BY <2>1, <3>1, <3>2
  <2> QED BY <2>1, <2>2
<1>9. \A j \in Keys : ToSet(table[j]) \cap VinnyHooks = {}
  <2>1. ASSUME NEW j \in Keys PROVE ToSet(table[j]) \cap VinnyHooks = {}
    <3>1. Fids(j) = {}
      BY <1>1, <1>8 DEF Fids, Hooked
    <3> QED BY <3>1, ListFacts
  <2> QED BY <2>1
<1> HIDE DEF e, todo, n
<1>10. /\ <<e>> \o table[k] \in Seq(Hooks) /\ IsInjective(<<e>> \o table[k])
       /\ ToSet(<<e>> \o table[k]) = ToSet(table[k]) \cup {e}
       /\ OfOthers(<<e>> \o table[k]) = OfOthers(table[k])
       /\ \A at \in Hooks : \A r, x : LeftOf(table[k], at, r, x) => LeftOf(<<e>> \o table[k], at, r, x)
  <2>1. table[k] \in Seq(Hooks) /\ IsInjective(table[k]) /\ e \notin ToSet(table[k])
    BY <1>5, <1>6, <1>9, ListFacts
  <2> HIDE DEF k
  <2> QED BY <1>6, <2>1, FrontOfList
<1>11. table' \in [Keys -> Seq(Hooks)] /\ table'[k] = <<e>> \o table[k] /\ \A j \in Keys : j # k => table'[j] = table[j]
  BY <1>1, <1>5, <1>10, ListFacts
<1>12. TypeOK'
  <2>1. cli' \in [pc : {"idle", "hooks", "rgx", "cmds", "privmsg", "close", "setup", "make"},
                  op : {"load", "unload", "reload", "reloadlib"}, i : 1..Slots, todo : Seq(AllOps)]
    BY <1>1, <1>2, <1>4 DEF TypeOK
  <2> QED BY <1>1, <1>2, <1>3, <1>11, <2>1, ZenonT(60) DEF TypeOK
<1>13. loaded /\ overlap
  BY <1>1, Busy
<1>14. TableInv'
  <2>1. e = Entry(0)'
    BY DEF e, n, Entry
  <2>2. ASSUME NEW j \in Keys PROVE Fids(j)' = IF j = k THEN {0} ELSE {}
    BY <1>1, <1>7, <1>8, <1>13, <2>2 DEF Fids, Hooked
  <2>3. ASSUME NEW j \in Keys
        PROVE  /\ IsInjective(table'[j]) /\ OfOthers(table'[j]) = Others[j]
               /\ ToSet(table'[j]) \cap VinnyHooks = {Entry(x)' : x \in Fids(j)'}
    <3>1. CASE j # k
      BY <1>9, <1>11, <2>2, <3>1, ListFacts
    <3>2. CASE j = k
      <4>1. {Entry(x)' : x \in Fids(j)'} = {e}
        BY <2>1, <2>2, <3>2
      <4>2. ToSet(table'[k]) \cap VinnyHooks = {e}
        BY <1>5, <1>6, <1>9, <1>10, <1>11
      <4> QED BY <1>5, <1>10, <1>11, <3>2, <4>1, <4>2, ListFacts
    <3> QED BY <3>1, <3>2
  <2> QED BY <2>3 DEF TableInv
<1>15. SlotInv'
  <2>1. \A i \in 1 .. Slots - 1 : hooks[i] # None <=> i < ccount
    BY <1>1, <1>2 DEF SlotInv
  <2>2. Len(seen') <= MaxSetups
    BY <1>3 DEF n
  <2> QED BY <1>1, <1>7, <1>8, <1>13, <2>1, <2>2 DEF SlotInv, Emptied, SetupToCome
<1>16. RuleInv'
  <2>1. rxhead = <<>> /\ ToSet(rxhead) = {}
    BY <1>1, <1>2, SetOfSeq, EmptySeq DEF RuleInv
  <2>2. \A o \in freed : o.n < n /\ o.n <= n /\ o.word # "DEF"
    <3>1. ASSUME NEW o \in freed PROVE o.n < n /\ o.n <= n /\ o.word # "DEF"
      <4>1. o \in AllOps
        BY <1>2 DEF TypeOK
      <4>2. o.n \in 1 .. MaxSetups
        BY <4>1, OpShape
      <4>3. o.n <= Len(seen) /\ o.word # "DEF"
        BY <1>2 DEF RuleInv
      <4> QED BY <1>3, <4>2, <4>3, Types
    <3> QED BY <3>1
  <2> QED BY <1>1, <1>2, <1>4, <1>7, <1>8, <2>1, <2>2 DEF RuleInv, n
<1>17. ReadInv'
  <2>1. ASSUME NEW j \in Keys, reader.at \in ToSet(table'[j]), reader.at \in Hooks,
               reader.at.fn = "vinny" => reader.at.n <= Len(seen)
        PROVE  /\ reader.at \in ToSet(table[j])
               /\ \A r, x : LeftOf(table[j], reader.at, r, x) => LeftOf(table'[j], reader.at, r, x)
    <3>1. CASE j # k
      BY <1>11, <2>1, <3>1
    <3>2. CASE j = k
      <4>1. reader.at # e
        BY <1>3, <1>6, <2>1, Types
      <4> QED BY <1>10, <1>11, <2>1, <3>2, <4>1
    <3> QED BY <3>1, <3>2
  <2>2. Len(seen') \in Nat /\ Len(seen) <= Len(seen') /\ Len(seen) < Len(seen')
    BY <1>3, Types DEF n
  <2> QED BY <1>1, <2>1, <2>2, ListsChange
<1>18. CalmInv'
  BY <1>1, Busy
<1> QED BY <1>12, <1>14, <1>15, <1>16, <1>17, <1>18 DEF RInv

(* The rule at the head of the list is made.                                *)
mop0 == Head(cli.todo)
Making == /\ cli.pc = "make" /\ cli.todo # <<>> /\ cli' = [cli EXCEPT !.todo = Tail(cli.todo)]
          /\ tree' = tree /\ seen' = seen /\ loaded' = loaded /\ freed' = freed /\ reader' = reader
          /\ overlap' = overlap /\ fault' = fault

LEMMA MakeFacts ==
  ASSUME RInv, Making
  PROVE  /\ mop0 \in AllOps /\ mop0.n = Len(seen) /\ mop0.word \in {"DEF", "HOOK", "MATCH"}
         /\ mop0.word = "HOOK" => mop0.key \in Keys
         /\ cli'.op = cli.op /\ cli'.i = cli.i /\ cli'.pc = "make"
         /\ \A o \in ToSet(cli'.todo) : o.n = Len(seen)
         /\ cli' \in [pc : {"idle", "hooks", "rgx", "cmds", "privmsg", "close", "setup", "make"},
                      op : {"load", "unload", "reload", "reloadlib"}, i : 1..Slots, todo : Seq(AllOps)]
         /\ loaded /\ overlap
<1> DEFINE s == cli.todo
           T == Tail(s)
<1>1. s \in Seq(AllOps) /\ s # <<>> /\ cli.pc = "make"
  BY Types DEF Making
<1>2. mop0 \in AllOps /\ T \in Seq(AllOps) /\ s = <<mop0>> \o T
  BY <1>1, HeadTailProperties DEF mop0
<1> HIDE DEF T, s
<1>3. ToSet(s) = ToSet(T) \cup {mop0}
  BY <1>2, InFront
<1>4. \A o \in ToSet(s) : o.n = Len(seen)
  BY <1>1 DEF RInv, RuleInv, s
<1>5. cli' = [cli EXCEPT !.todo = T]
  BY DEF Making, T, s
<1>6. /\ cli' \in [pc : {"idle", "hooks", "rgx", "cmds", "privmsg", "close", "setup", "make"},
                   op : {"load", "unload", "reload", "reloadlib"}, i : 1..Slots, todo : Seq(AllOps)]
      /\ cli'.op = cli.op /\ cli'.i = cli.i /\ cli'.pc = "make" /\ cli'.todo = T
  BY <1>1, <1>2, <1>5 DEF RInv, TypeOK
<1> QED BY <1>1, <1>2, <1>3, <1>4, <1>6, OpShape, Busy

(* The lists and slots as they were: a command, a regex, or no room.        *)
LEMMA MakeNoHook ==
  ASSUME RInv, Making, table' = table, ccount' = ccount, hooks' = hooks,
         cmdl' \subseteq AllOps, tab' \in [Words -> AllOps \cup {None}],
         \A w \in Words : tab'[w] # None => tab'[w].word = "DEF",
         rxhead' \in Seq(AllOps), \A o \in ToSet(rxhead') : o.n = Len(seen) /\ o.word = "MATCH"
  PROVE  RInv'
<1>1. /\ cli.pc = "make" /\ tree' = tree /\ seen' = seen /\ loaded' = loaded /\ freed' = freed
      /\ reader' = reader /\ overlap' = overlap /\ fault' = fault
  BY DEF Making
<1>2. TypeOK /\ SlotInv /\ RuleInv
  BY DEF RInv
<1>3. TypeOK'
  BY <1>1, <1>2, MakeFacts, ZenonT(60) DEF TypeOK
<1>4. TableInv'
  BY <1>1, MakeFacts, SameTable DEF Hooked
<1>5. SlotInv'
  BY <1>1, <1>2, MakeFacts DEF SlotInv, Emptied, SetupToCome
<1>6. RuleInv'
  BY <1>1, <1>2, MakeFacts DEF RuleInv
<1>7. ReadInv'
  BY <1>1, MakeFacts, SameReader
<1>8. CalmInv'
  BY <1>1, Busy
<1> QED BY <1>3, <1>4, <1>5, <1>6, <1>7, <1>8 DEF RInv

LEMMA MakeHook ==
  ASSUME RInv, Making, mop0.word = "HOOK", ccount < Slots, ccount' = ccount + 1,
         hooks' = [hooks EXCEPT ![ccount] = [cmd |-> mop0.key, mop |-> mop0]],
         add_irc_hook(mop0.key, "vinny", ccount, mop0.n),
         rxhead' = rxhead, cmdl' = cmdl, tab' = tab
  PROVE  RInv'
<1> DEFINE k == mop0.key
           c == ccount
           e == [fn |-> "vinny", fid |-> ccount, n |-> mop0.n]
<1>1. /\ cli.pc = "make" /\ tree' = tree /\ seen' = seen /\ loaded' = loaded /\ freed' = freed
      /\ reader' = reader /\ overlap' = overlap /\ fault' = fault
  BY DEF Making
<1>2. TypeOK /\ SlotInv /\ RuleInv
  BY DEF RInv
<1>3. k \in Keys /\ mop0 \in AllOps /\ mop0.n = Len(seen) /\ mop0.n \in 1 .. MaxSetups
  BY MakeFacts, OpShape
<1>4. c \in 1 .. Slots - 1 /\ c \in 0 .. Slots - 1 /\ c \in Nat /\ c # 0 /\ c + 1 \in 1 .. Slots
  <2>1. c \in 1 .. Slots /\ Slots \in Nat
    BY Types
  <2> HIDE DEF c
  <2> QED BY <2>1 DEF c
<1>5. e = Entry(c) /\ e \in VinnyHooks /\ e \in Hooks /\ e.fid = c
  BY <1>3, <1>4 DEF Entry, VinnyHooks, Hooks
<1>6. hooks[c] = None
  <2>1. hooks[c] # None => c < c
    BY <1>2, <1>4 DEF SlotInv
  <2> QED BY <1>4, <2>1
<1>7. \A x : Entry(x).fid = x
  BY DEF Entry
<1>8. e \notin ToSet(table[k])
  <2>1. c \notin Fids(k)
    BY <1>4, <1>6 DEF Fids
  <2> QED BY <1>3, <1>5, <1>7, <2>1, ListFacts
<1>9. table' = [table EXCEPT ![k] = <<e>> \o table[k]]
  BY DEF add_irc_hook
<1>10. \A j \in 1 .. Slots - 1 : hooks'[j] = IF j = c THEN [cmd |-> k, mop |-> mop0] ELSE hooks[j]
  BY <1>2 DEF TypeOK
<1>11. [cmd |-> k, mop |-> mop0] # None
  BY <1>3, MessagesAssumption
<1>20. hooks' \in [1..(Slots - 1) -> [cmd : Keys, mop : AllOps] \cup {None}]
  BY <1>2, <1>3 DEF TypeOK
<1> HIDE DEF e, k, c
<1>12. /\ <<e>> \o table[k] \in Seq(Hooks) /\ IsInjective(<<e>> \o table[k])
       /\ ToSet(<<e>> \o table[k]) = ToSet(table[k]) \cup {e}
       /\ OfOthers(<<e>> \o table[k]) = OfOthers(table[k])
       /\ \A at \in Hooks : \A r, x : LeftOf(table[k], at, r, x) => LeftOf(<<e>> \o table[k], at, r, x)
  <2>1. table[k] \in Seq(Hooks) /\ IsInjective(table[k])
    BY <1>3, ListFacts
  <2> QED BY <1>5, <1>8, <2>1, FrontOfList
<1>13. table' \in [Keys -> Seq(Hooks)] /\ table'[k] = <<e>> \o table[k] /\ \A j \in Keys : j # k => table'[j] = table[j]
  BY <1>3, <1>9, <1>12, ListFacts
<1>14. TypeOK'
  <2>1. ccount' \in 1 .. Slots
    BY <1>4 DEF c
  <2> QED BY <1>1, <1>2, <1>13, <1>20, <2>1, MakeFacts, ZenonT(60) DEF TypeOK
<1>15. TableInv'
  <2>1. \A x : Entry(x)' = Entry(x)
    BY <1>1 DEF Entry
  <2>2. Hooked' = Hooked
    BY <1>1, MakeFacts DEF Hooked
  <2>3. ASSUME NEW j \in Keys PROVE Fids(j)' = IF j = k THEN Fids(j) \cup {c} ELSE Fids(j)
    <3>1. ASSUME NEW x PROVE x \in Fids(j)' <=> x \in Fids(j) \/ (j = k /\ x = c)
      <4>1. x \in Fids(j)' <=> \/ x \in 1 .. Slots - 1 /\ hooks'[x] # None /\ hooks'[x].cmd = j
                               \/ j = "PRIVMSG" /\ Hooked /\ x = 0
        BY <2>2 DEF Fids
      <4>2. x \in Fids(j) <=> \/ x \in 1 .. Slots - 1 /\ hooks[x] # None /\ hooks[x].cmd = j
                              \/ j = "PRIVMSG" /\ Hooked /\ x = 0
        BY DEF Fids
      <4>3. CASE x = c
        BY <1>4, <1>6, <1>10, <1>11, <4>1, <4>2, <4>3
      <4>4. CASE x # c
        BY <1>10, <4>1, <4>2, <4>4
      <4> QED BY <4>3, <4>4
    <3> QED BY <3>1
  <2>4. ASSUME NEW j \in Keys
        PROVE  /\ IsInjective(table'[j]) /\ OfOthers(table'[j]) = Others[j]
               /\ ToSet(table'[j]) \cap VinnyHooks = {Entry(x)' : x \in Fids(j)'}
    <3>1. CASE j # k
      <4>1. {Entry(x)' : x \in Fids(j)'} = {Entry(x) : x \in Fids(j)}
        BY <2>1, <2>3, <3>1
      <4> QED BY <1>13, <3>1, <4>1, ListFacts
    <3>2. CASE j = k
      <4>1. {Entry(x)' : x \in Fids(j)'} = {Entry(x) : x \in Fids(k)} \cup {Entry(c)}
        BY <2>1, <2>3, <3>2
      <4>2. ToSet(table'[k]) \cap VinnyHooks = (ToSet(table[k]) \cap VinnyHooks) \cup {e}
        BY <1>5, <1>12, <1>13
      <4> QED BY <1>3, <1>5, <1>12, <1>13, <3>2, <4>1, <4>2, ListFacts
    <3> QED BY <3>1, <3>2
  <2> QED BY <2>4 DEF TableInv
<1>16. SlotInv'
  <2>1. ASSUME NEW j \in 1 .. Slots - 1 PROVE hooks'[j] # None <=> j < c + 1
    <3>1. hooks[j] # None <=> j < c
      BY <1>1, <1>2 DEF SlotInv, c
    <3>2. j \in Nat
      BY Types
    <3>3. j < c + 1 <=> j < c \/ j = c
      BY <1>4, <3>2
    <3>4. hooks'[j] # None <=> hooks[j] # None \/ j = c
      BY <1>10, <1>11
    <3> QED BY <3>1, <3>3, <3>4
  <2>2. Len(seen) <= MaxSetups
    BY <1>2 DEF SlotInv
  <2>3. ccount' = c + 1
    BY DEF c
  <2> QED BY <1>1, <2>1, <2>2, <2>3, MakeFacts DEF SlotInv, Emptied, SetupToCome
<1>17. RuleInv'
  <2>1. ASSUME NEW j \in 1 .. Slots - 1, hooks'[j] # None
        PROVE  hooks'[j].mop.n = Len(seen) /\ hooks'[j].mop.word = "HOOK" /\ hooks'[j].mop.key = hooks'[j].cmd
    <3>1. CASE j = c
      BY <1>3, <1>10, <3>1 DEF k
    <3>2. CASE j # c
      BY <1>2, <1>10, <2>1, <3>2 DEF RuleInv
    <3> QED BY <3>1, <3>2
  <2> QED BY <1>1, <1>2, <2>1, MakeFacts DEF RuleInv
<1>18. ReadInv'
  <2>1. ASSUME NEW j \in Keys, reader.at \in ToSet(table'[j]), reader.at \in Hooks,
               reader.at.fn = "vinny" => (reader.at.n = Len(seen) /\ cli.pc = "make" => reader.at.fid < ccount)
        PROVE  /\ reader.at \in ToSet(table[j])
               /\ \A r, x : LeftOf(table[j], reader.at, r, x) => LeftOf(table'[j], reader.at, r, x)
    <3>1. CASE j # k
      BY <1>13, <2>1, <3>1
    <3>2. CASE j = k
      <4>1. reader.at # e
        <5>1. e.fn = "vinny" /\ e.n = Len(seen) /\ e.fid = c /\ ~(c < c)
          BY <1>3, <1>4 DEF e, c
        <5> QED BY <1>1, <2>1, <5>1 DEF c
      <4> QED BY <1>12, <1>13, <2>1, <3>2, <4>1
    <3> QED BY <3>1, <3>2
  <2>2. Len(seen') \in Nat /\ Len(seen') = Len(seen) /\ Len(seen) <= Len(seen')
    BY <1>1, Types
  <2>3. ASSUME NEW j \in Nat, j < ccount PROVE j < ccount'
    <3>1. ccount' = ccount + 1 /\ ccount \in Nat
      BY Types
    <3> QED BY <2>3, <3>1
  <2> QED BY <1>1, <2>1, <2>2, <2>3, ListsChange
<1>19. CalmInv'
  BY <1>1, Busy
<1> QED BY <1>14, <1>15, <1>16, <1>17, <1>18, <1>19 DEF RInv

LEMMA MakeKeeps ==
  ASSUME RInv, Make
  PROVE  RInv'
<1>1. Making /\ cli.todo # <<>>
  BY DEF Make, Making
<1>2. /\ mop0.word = "DEF" => mk_cmd(mop0)
      /\ mop0.word = "HOOK" => mk_hook(mop0)
      /\ mop0.word = "MATCH" => mk_rgx(mop0)
  BY DEF Make, mop0
<1>3. /\ mop0 \in AllOps /\ mop0.n = Len(seen) /\ mop0.word \in {"DEF", "HOOK", "MATCH"} /\ mop0 # None
  BY <1>1, MakeFacts, MessagesAssumption
<1>4. /\ cmdl \subseteq AllOps /\ tab \in [Words -> AllOps \cup {None}] /\ rxhead \in Seq(AllOps)
      /\ \A w \in Words : tab[w] # None => tab[w].word = "DEF"
      /\ \A o \in ToSet(rxhead) : o.n = Len(seen) /\ o.word = "MATCH"
  BY DEF RInv, TypeOK, RuleInv
<1>5. CASE mop0.word = "DEF"
  <2> DEFINE New(i) == \A j \in 1..i : tab[<<cmd_prefix[j], mop0.key>>] = None
             Takes(w) == w[2] = mop0.key /\ New(SelectInSeq(cmd_prefix, LAMBDA p : p = w[1]))
  <2>1. /\ cmdl' = cmdl \cup {mop0} /\ tab' = [w \in Words |-> IF Takes(w) THEN mop0 ELSE tab[w]]
        /\ table' = table /\ ccount' = ccount /\ hooks' = hooks /\ rxhead' = rxhead
    BY <1>2, <1>5 DEF mk_cmd
  <2> HIDE DEF Takes
  <2>2. \A w \in Words : tab'[w] = mop0 \/ tab'[w] = tab[w]
    BY <2>1
  <2>3. tab' \in [Words -> AllOps \cup {None}]
    BY <1>3, <1>4, <2>1
  <2>4. \A w \in Words : tab'[w] # None => tab'[w].word = "DEF"
    BY <1>4, <1>5, <2>2
  <2> QED BY <1>1, <1>3, <1>4, <2>1, <2>3, <2>4, MakeNoHook
<1>6. CASE mop0.word = "HOOK" /\ ccount >= Slots
  <2>1. table' = table /\ ccount' = ccount /\ hooks' = hooks /\ rxhead' = rxhead /\ cmdl' = cmdl /\ tab' = tab
    BY <1>2, <1>6 DEF mk_hook
  <2> QED BY <1>1, <1>4, <2>1, MakeNoHook
<1>7. CASE mop0.word = "HOOK" /\ ~(ccount >= Slots)
  <2>1. /\ ccount' = ccount + 1 /\ hooks' = [hooks EXCEPT ![ccount] = [cmd |-> mop0.key, mop |-> mop0]]
        /\ add_irc_hook(mop0.key, "vinny", ccount, mop0.n)
        /\ rxhead' = rxhead /\ cmdl' = cmdl /\ tab' = tab
    BY <1>2, <1>7 DEF mk_hook
  <2>2. ccount < Slots
    <3>1. ccount \in Nat /\ Slots \in Nat
      BY Types
    <3> QED BY <1>7, <3>1
  <2> QED BY <1>1, <1>7, <2>1, <2>2, MakeHook
<1>8. CASE mop0.word = "MATCH"
  <2>1. /\ rxhead' = <<mop0>> \o rxhead
        /\ table' = table /\ ccount' = ccount /\ hooks' = hooks /\ cmdl' = cmdl /\ tab' = tab
    BY <1>2, <1>8 DEF mk_rgx
  <2>2. <<mop0>> \o rxhead \in Seq(AllOps) /\ ToSet(<<mop0>> \o rxhead) = ToSet(rxhead) \cup {mop0}
    <3>1. <<mop0>> \in Seq(AllOps)
      BY <1>3, SingleSeq
    <3> QED BY <1>3, <1>4, <3>1, InFront, ConcatProperties
  <2> HIDE DEF mop0
  <2>3. rxhead' \in Seq(AllOps) /\ \A o \in ToSet(rxhead') : o.n = Len(seen) /\ o.word = "MATCH"
    BY <1>3, <1>4, <1>8, <2>1, <2>2
  <2> QED BY <1>1, <1>4, <2>1, <2>3, MakeNoHook
<1> QED BY <1>3, <1>5, <1>6, <1>7, <1>8

LEMMA InitHolds == Init => RInv
<1> SUFFICES ASSUME Init PROVE RInv
  OBVIOUS
<1>1. /\ tree \in Trees /\ seen = <<>> /\ loaded = FALSE /\ table = Others
      /\ ccount = 1 /\ hooks = [i \in 1..(Slots - 1) |-> None]
      /\ rxhead = <<>> /\ cmdl = {} /\ freed = {} /\ tab = [w \in Words |-> None]
      /\ cli = [pc |-> "idle", op |-> "load", i |-> 1, todo |-> <<>>]
      /\ reader = [pc |-> "done", msg |-> None, at |-> None, mop |-> None, ran |-> <<>>]
      /\ overlap = TRUE /\ fault = "none"
  BY DEF Init
<1>2. /\ 1 \in 1 .. Slots /\ Len(seen) = 0 /\ MaxSetups \in Nat
      /\ <<>> \in Seq(Trees) /\ <<>> \in Seq(AllOps) /\ <<>> \in Seq(AllOps \cup Hooks)
      /\ \A o : o \notin ToSet(rxhead)
  <2>1. Len(seen) = 0
    BY <1>1
  <2>2. \A o : o \notin ToSet(rxhead)
    BY <1>1 DEF ToSet
  <2> QED BY <2>1, <2>2, CountsAssumption, EmptySeq
<1>3. ASSUME NEW k \in Keys
      PROVE  /\ table[k] \in Seq(Hooks) /\ IsInjective(table[k]) /\ OfOthers(table[k]) = Others[k]
             /\ ToSet(table[k]) \cap VinnyHooks = {Entry(i) : i \in Fids(k)}
  <2>1. Others[k] \in Seq(OtherHooks) /\ IsInjective(Others[k])
    BY OthersAssumption
  <2>2. OfOthers(Others[k]) = Others[k]
    <3>1. ToSet(Others[k]) \subseteq OtherHooks
      BY <2>1, SetOfSeq
    <3> QED BY <2>1, <3>1, KeepAll DEF OfOthers
  <2>3. ToSet(Others[k]) \cap VinnyHooks = {}
    <3>1. ToSet(Others[k]) \subseteq OtherHooks /\ OtherHooks \subseteq Hooks
      BY <2>1, SetOfSeq DEF Hooks
    <3> QED BY <3>1, HookKinds, OthersAssumption DEF VinnyHooks
  <2>4. Fids(k) = {}
    BY <1>1 DEF Fids, Hooked
  <2>5. Others[k] \in Seq(Hooks)
    <3>1. OtherHooks \subseteq Hooks
      BY DEF Hooks
    <3> QED BY <2>1, <3>1, SeqMonotonic
  <2> QED BY <1>1, <2>1, <2>2, <2>3, <2>4, <2>5
<1>4. TypeOK
  <2>1. table \in [Keys -> Seq(Hooks)]
    <3>1. Others \in [Keys -> Seq(OtherHooks)]
      BY OthersAssumption
    <3> QED BY <1>1, <1>3, <3>1
  <2> QED BY <1>1, <1>2, <2>1 DEF TypeOK
<1>5. TableInv
  BY <1>3 DEF TableInv
<1>6. SlotInv
  <2>1. \A i \in 1 .. Slots - 1 : ~(i < 1)
    BY CountsAssumption
  <2> QED BY <1>1, <1>2, <2>1 DEF SlotInv, Emptied, SetupToCome
<1>7. RuleInv
  BY <1>1, <1>2 DEF RuleInv
<1>8. ReadInv /\ CalmInv
  BY <1>1 DEF ReadInv, CalmInv
<1> QED BY <1>4, <1>5, <1>6, <1>7, <1>8 DEF RInv

LEMMA NextKeeps == RInv /\ [Next]_vars => RInv'
<1> SUFFICES ASSUME RInv, [Next]_vars PROVE RInv'
  OBVIOUS
<1>1. CASE DestroyHook
  BY <1>1, DestroyHookKeeps
<1>2. CASE DestroyedHooks
  BY <1>2, DestroyedHooksKeeps
<1>3. CASE DestroyRgx
  BY <1>3, DestroyRgxKeeps
<1>4. CASE DestroyCmds
  BY <1>4, DestroyCmdsKeeps
<1>5. CASE RmPrivmsg
  BY <1>5, RmPrivmsgKeeps
<1>6. CASE Close
  BY <1>6, CloseKeeps
<1>7. CASE setup_vinny
  BY <1>7, SetupKeeps
<1>8. CASE Make
  BY <1>8, MakeKeeps
<1>9. CASE SetUp
  BY <1>9, SetUpKeeps
<1>10. CASE Edit
  BY <1>10, EditKeeps DEF Edit, lists
<1>11. ASSUME NEW op \in {"load", "unload", "reload", "reloadlib"}, Command(op)
       PROVE  RInv'
  BY <1>11, CommandKeeps
<1>12. CASE Call
  BY <1>12, CallKeeps
<1>13. CASE spawn_hook
  BY <1>13, HookKeeps
<1>14. CASE spawn_cmd
  BY <1>14, CmdKeeps
<1>15. CASE spawn_rgx
  BY <1>15, RgxKeeps
<1>16. ASSUME NEW m \in Messages, Receive(m)
       PROVE  RInv'
  BY <1>16, ReceiveKeeps
<1>17. CASE UNCHANGED vars
  <2>1. tree \in Trees
    BY Types
  <2> QED BY <1>17, <2>1, EditKeeps DEF vars, lists
<1> QED BY <1>1, <1>2, <1>3, <1>4, <1>5, <1>6, <1>7, <1>8, <1>9, <1>10, <1>11, <1>12, <1>13, <1>14,
           <1>15, <1>16, <1>17 DEF Next, CliStep, IrcStep

(***************************************************************************)
(* RInv holds throughout.                                                  *)
(***************************************************************************)
LEMMA InvariantHolds == Spec => []RInv
<1> QED BY InitHolds, NextKeeps, PTL DEF Spec

(***************************************************************************)
(* The values of the lists, the slots and the two threads' places stay     *)
(* those the code declares (hooks.c, mods.c, vini.c): slot numbers are     *)
(* below the size of the array, and loops over it stay within it.          *)
(***************************************************************************)
THEOREM TypeCorrect == Spec => []TypeOK
<1>1. RInv => TypeOK
  BY DEF RInv
<1> QED BY <1>1, InvariantHolds, PTL

(***************************************************************************)
(* hooks.c:66-125, 152: the command line leaves the hooks of other modules *)
(* as they are, and run_hooks calls each of them once for a message,       *)
(* whatever is added to and removed from the list meanwhile.               *)
(***************************************************************************)
THEOREM OthersStay == Spec => []OthersKept
<1>1. RInv => OthersKept
  BY DEF RInv, TableInv, ReadInv, OthersKept
<1> QED BY <1>1, InvariantHolds, PTL

(* Between two commands the lists, the slots and the regexes agree.         *)
LEMMA SlotsMatch ==
  ASSUME RInv
  PROVE  SlotsMatchTable
<1> SUFFICES ASSUME cli.pc = "idle" PROVE SlotsMatchTable
  BY DEF SlotsMatchTable, Quiet
<1>1. ASSUME NEW k \in Keys
      PROVE  /\ IsInjective(OfVinny(table[k]))
             /\ {e.fid : e \in ToSet(OfVinny(table[k]))} =
                    {i \in 1..(Slots - 1) : hooks[i] # None /\ hooks[i].cmd = k}
                        \cup (IF k = "PRIVMSG" /\ loaded THEN {0} ELSE {})
  <2>1. /\ table[k] \in Seq(Hooks) /\ IsInjective(table[k])
        /\ ToSet(table[k]) \cap VinnyHooks = {Entry(i) : i \in Fids(k)}
    BY <1>1, ListFacts
  <2>2. IsInjective(OfVinny(table[k]))
    BY <2>1, KeepInjective DEF OfVinny
  <2>3. ToSet(OfVinny(table[k])) = {Entry(i) : i \in Fids(k)}
    BY <2>1, SetOfKeep DEF OfVinny
  <2>4. {e.fid : e \in ToSet(OfVinny(table[k]))} = Fids(k)
    <3>1. \A i : Entry(i).fid = i
      BY DEF Entry
    <3> QED BY <2>3, <3>1
  <2>5. Hooked = loaded
    BY DEF Hooked, RInv, TypeOK
  <2> QED BY <2>2, <2>4, <2>5 DEF Fids
<1>2. ASSUME NEW i \in 1..(Slots - 1)
      PROVE  /\ hooks[i] # None <=> i < ccount
             /\ hooks[i] # None => hooks[i].mop \notin freed
  <2>1. hooks[i] # None <=> i < ccount
    BY DEF RInv, SlotInv
  <2> QED BY <2>1, SlotRule
<1>3. ToSet(rxhead) \cap freed = {}
  <2>1. CASE ~loaded
    <3>1. rxhead = <<>>
      BY <2>1 DEF RInv, RuleInv
    <3> QED BY <3>1 DEF ToSet
  <2>2. CASE loaded
    <3>1. /\ \A o \in ToSet(rxhead) : o.n = Len(seen)
          /\ \A o \in freed : o.n < Len(seen)
      BY <2>2 DEF RInv, RuleInv
    <3>2. ~(Len(seen) < Len(seen))
      BY Types
    <3> QED BY <3>1, <3>2
  <2> QED BY <2>1, <2>2
<1> QED BY <1>1, <1>2, <1>3 DEF SlotsMatchTable

(***************************************************************************)
(* hooks.c:17-104 and vinny.c:98, 134: after each load, reload and unload  *)
(* the lists have the hooks of vinny's slots and no other of vinny's, the  *)
(* slots are used from the first on, and no slot or regex leads to freed   *)
(* memory.                                                                 *)
(***************************************************************************)
THEOREM SlotsAgree == Spec => []SlotsMatchTable
<1> QED BY SlotsMatch, InvariantHolds, PTL

(* Freed memory is met only if the message was interrupted: the steps of    *)
(* the IRC thread.                                                          *)
LEMMA IrcStepSafe ==
  ASSUME RInv, fault = "none", ~overlap, IrcStep
  PROVE  fault' = "none"
<1>1. CalmInv /\ cli.pc = "idle" /\ ReadInv
  BY ReaderFacts
<1>2. reader.pc # "done" => reader.msg.key \in Keys /\ reader.at \in ToSet(table[reader.msg.key])
  BY <1>1, MessagesAssumption DEF ReadInv, CalmInv
<1>3. ASSUME NEW ran, reader.pc # "done", Return(ran)
      PROVE  fault' = "none"
  BY <1>2, <1>3 DEF Return
<1>4. CASE Call
  <2> DEFINE Into(pc, mop) == reader' = [reader EXCEPT !.pc = pc, !.mop = mop] /\ UNCHANGED fault
             at == reader.at
  <2>1. /\ reader.pc = "at"
        /\ IF at \notin ToSet(table[reader.msg.key]) THEN Stop("freed hook")
           ELSE IF at.fn # "vinny" THEN Return(Append(reader.ran, at))
           ELSE IF at.fid = 0 THEN Into("cmd", get_mop(reader.msg.word))
           ELSE IF hooks[at.fid] = None THEN Stop("null rule")
           ELSE Into("hook", hooks[at.fid].mop)
    BY <1>4 DEF Call
  <2>2. at.fn = "vinny" /\ at.fid # 0 => hooks[at.fid] # None
    BY <1>2, <2>1, EntryFacts
  <2>3. reader.pc # "done" /\ at \in ToSet(table[reader.msg.key])
    BY <1>2, <2>1
  <2>4. CASE at.fn # "vinny"
    BY <1>3, <2>1, <2>3, <2>4
  <2>5. CASE at.fn = "vinny"
    BY <2>1, <2>2, <2>3, <2>5
  <2> QED BY <2>4, <2>5
<1>5. CASE spawn_hook
  <2>1. reader.pc = "hook" /\ reader.mop \notin freed
    BY <1>1, <1>5 DEF spawn_hook, CalmInv
  <2>2. \E ran : Return(ran)
    BY <1>5, <2>1 DEF spawn_hook
  <2>3. reader.pc # "done"
    BY <2>1
  <2> QED BY <1>3, <2>2, <2>3
<1>6. CASE spawn_cmd
  <2>1. reader.pc = "cmd" /\ reader.mop \notin freed
    BY <1>1, <1>6 DEF spawn_cmd, CalmInv
  <2> QED BY <1>6, <2>1 DEF spawn_cmd
<1>7. CASE spawn_rgx
  <2>1. reader.pc = "rgx" /\ (reader.mop = None \/ reader.mop \in ToSet(rxhead))
    BY <1>1, <1>7 DEF spawn_rgx, CalmInv
  <2>2. CASE reader.mop = None
    BY <1>3, <1>7, <2>1, <2>2 DEF spawn_rgx
  <2>3. CASE reader.mop # None
    BY <1>7, <2>1, <2>3 DEF spawn_rgx
  <2> QED BY <2>2, <2>3
<1>8. ASSUME NEW m \in Messages, Receive(m)
      PROVE  fault' = "none"
  BY <1>8 DEF Receive
<1> QED BY <1>4, <1>5, <1>6, <1>7, <1>8 DEF IrcStep

LEMMA CliStepSafe ==
  ASSUME RInv, fault = "none", CliStep
  PROVE  FaultsNeedRace'
<1>1. ASSUME cli.pc # "idle", overlap' = overlap
      PROVE  FaultsNeedRace'
  BY <1>1, Busy DEF FaultsNeedRace
<1>2. CASE DestroyHook
  BY <1>1, <1>2 DEF DestroyHook
<1>3. CASE DestroyedHooks
  BY <1>1, <1>3 DEF DestroyedHooks
<1>4. CASE DestroyRgx
  BY <1>1, <1>4 DEF DestroyRgx
<1>5. CASE DestroyCmds
  BY <1>1, <1>5 DEF DestroyCmds
<1>6. CASE RmPrivmsg
  BY <1>1, <1>6 DEF RmPrivmsg
<1>7. CASE Close
  BY <1>1, <1>7 DEF Close
<1>8. CASE setup_vinny
  BY <1>1, <1>8 DEF setup_vinny
<1>9. CASE Make
  BY <1>1, <1>9 DEF Make
<1>10. CASE SetUp
  BY <1>1, <1>10 DEF SetUp
<1>11. CASE Edit
  BY <1>11 DEF Edit, FaultsNeedRace
<1>12. ASSUME NEW op \in {"load", "unload", "reload", "reloadlib"}, Command(op)
       PROVE  FaultsNeedRace'
  BY <1>12 DEF Command, FaultsNeedRace
<1> QED BY <1>2, <1>3, <1>4, <1>5, <1>6, <1>7, <1>8, <1>9, <1>10, <1>11, <1>12 DEF CliStep

LEMMA FaultStep == RInv /\ FaultsNeedRace /\ [Next]_vars => FaultsNeedRace'
<1> SUFFICES ASSUME RInv, FaultsNeedRace, [Next]_vars PROVE FaultsNeedRace'
  OBVIOUS
<1>1. CASE UNCHANGED vars
  BY <1>1 DEF vars, FaultsNeedRace
<1>2. CASE fault = "none" /\ CliStep
  BY <1>2, CliStepSafe
<1>3. CASE fault = "none" /\ IrcStep /\ ~overlap
  BY <1>3, IrcStepSafe DEF FaultsNeedRace
<1>4. CASE fault = "none" /\ IrcStep /\ overlap
  <2>1. \/ overlap' = overlap
        \/ fault' = fault
    <3>1. CASE Call
      BY <3>1 DEF Call
    <3>2. CASE spawn_hook \/ spawn_cmd \/ spawn_rgx
      BY <3>2 DEF spawn_hook, spawn_cmd, spawn_rgx
    <3>3. ASSUME NEW m \in Messages, Receive(m) PROVE fault' = fault
      BY <3>3 DEF Receive
    <3> QED BY <1>4, <3>1, <3>2, <3>3 DEF IrcStep
  <2> QED BY <1>4, <2>1 DEF FaultsNeedRace
<1> QED BY <1>1, <1>2, <1>3, <1>4 DEF Next

(***************************************************************************)
(* cmds.c:104-118, hooks.c:61-104, regex.c: what an unload or a reload     *)
(* freed is not met by a later message: a message during which the command *)
(* line was idle never reads a freed hook or rule, an empty slot, or       *)
(* code that was unloaded.                                                 *)
(***************************************************************************)
THEOREM RacesOnly == Spec => []FaultsNeedRace
<1>1. Init => FaultsNeedRace
  BY DEF Init, FaultsNeedRace
<1> QED BY <1>1, FaultStep, InvariantHolds, PTL DEF Spec

(***************************************************************************)
(* What runs for a message, and the invariant behind it: RegInv relates    *)
(* the registries to what the setups found, WalkInv what the IRC thread    *)
(* started to the registries.  RunOf(e, m, R):                             *)
(* the rules that entry e of a list starts for m if the registries are R;  *)
(* RunsOf(S, m, R): those of the entries S.                                *)
(***************************************************************************)
Registries == [hooks |-> hooks, tab |-> tab, rx |-> rxhead]
HookFor(o, m) == OnNetwork(o, m) /\ (m.chan \notin Channels \/ chan_allowed(o, m.chan))
TextFor(o, m) == OnNetwork(o, m) /\ chan_allowed(o, m.chan)
CmdOf(m, R) == IF m.word \in Words THEN R.tab[m.word] ELSE None
CmdRuns(m, R) == {o \in {CmdOf(m, R)} : o # None /\ TextFor(o, m)}
RgxRuns(S, m) == {o \in S : o.key \in m.rx /\ TextFor(o, m)}
RunOf(e, m, R) ==
  IF e.fn # "vinny" THEN {}
  ELSE IF e.fid = 0 THEN CmdRuns(m, R) \cup RgxRuns(ToSet(R.rx), m)
  ELSE {o \in {R.hooks[e.fid].mop} : HookFor(o, m)}
RunsOf(S, m, R) == UNION {RunOf(e, m, R) : e \in S}
Started(ran) == ToSet(ran) \cap AllOps

(* Of what the setups found, M is made; a command has the rule it had       *)
(* first.                                                                   *)
TodoInv == cli.pc # "make" => cli.todo = <<>>
Commands(M) == \A w \in Words : FirstDef(M, w[2]) = IF tab[w] = None THEN {} ELSE {tab[w]}
CmdInv == \E M \in Seq(AllOps) : Found = M \o cli.todo /\ Commands(M)

(* A rule is in one slot, and once among the regexes.                       *)
OnceInv ==
  /\ \A i, j \in 1 .. Slots - 1 : hooks[i] # None /\ hooks[j] # None /\ hooks[i].mop = hooks[j].mop => i = j
  /\ IsInjective(rxhead)

(* Of what the last setup found, L is made: its regexes are in the list,    *)
(* and its hooks in slots unless there are no more.                         *)
LastFound == ModOps(setup_modules(seen[Len(seen)]), Len(seen))
Made(L) ==
  /\ ToSet(rxhead) = {o \in ToSet(L) : o.word = "MATCH"}
  /\ \A i \in 1 .. Slots - 1 : hooks[i] # None => hooks[i].mop \in ToSet(L)
  /\ ccount < Slots => \A o \in ToSet(L) : o.word = "HOOK" =>
                           \E i \in 1 .. Slots - 1 : hooks[i] # None /\ hooks[i].mop = o
Configured == cli.pc = "make" \/ (cli.pc = "idle" /\ loaded)
ConfInv == Configured => seen # <<>> /\ \E L \in Seq(AllOps) : LastFound = L \o cli.todo /\ Made(L)

RegInv == TodoInv /\ CmdInv /\ OnceInv /\ ConfInv

(* The IRC thread r started what the entries of list L before its own       *)
(* start, and of its own the command and the regexes D before its rule.     *)
Tried(mop, D, R) ==
  IF mop = None THEN D = ToSet(R.rx)
  ELSE \E C, E \in Seq(AllOps) : R.rx = Around(C, mop, E) /\ D = ToSet(C)
Own(r, A, R) ==
  /\ r.pc # "rgx" => Started(r.ran) = RunsOf(A, r.msg, R)
  /\ r.pc = "hook" => r.at.fid # 0 /\ r.mop = R.hooks[r.at.fid].mop
  /\ r.pc = "cmd" => r.at.fid = 0 /\ r.mop = CmdOf(r.msg, R)
  /\ r.pc = "rgx" => /\ r.at.fid = 0
                     /\ \E D : /\ Tried(r.mop, D, R)
                              /\ Started(r.ran) = RunsOf(A, r.msg, R) \cup CmdRuns(r.msg, R) \cup RgxRuns(D, r.msg)
Walk(r, L, R) ==
  /\ IsInjective(Keep(r.ran, AllOps))
  /\ r.pc = "done" => Started(r.ran) = RunsOf(ToSet(L), r.msg, R)
  /\ r.pc # "done" => \E A, B \in Seq(Hooks) : L = Around(A, r.at, B) /\ Own(r, ToSet(A), R)
WalkInv == ~overlap /\ reader.msg # None => Walk(reader, table[reader.msg.key], Registries)

(* Along a list without repeats: the element is not among those before it,  *)
(* and with it they are those before the next.                              *)
GoesOn(X, s, S, nx) ==
  \/ nx = None /\ ToSet(s) = S
  \/ nx # None /\ nx \in X /\ \E A, B \in Seq(X) : s = Around(A, nx, B) /\ ToSet(A) = S

LEMMA WalkOn ==
  ASSUME NEW X, NEW A \in Seq(X), NEW B \in Seq(X), NEW x \in X, None \notin X,
         NEW s, s = Around(A, x, B), IsInjective(s), NEW nx, nx = NextOf(s, x)
  PROVE  x \notin ToSet(A) /\ GoesOn(X, s, ToSet(A) \cup {x}, nx)
<1> DEFINE C == A \o <<x>>
<1>1. nx = IF B = <<>> THEN None ELSE Head(B)
  BY NextIs
<1>2. <<x>> \in Seq(X) /\ ToSet(<<x>>) = {x} /\ IsInjective(<<x>>)
  BY SingleSeq DEF IsInjective
<1>3. C \in Seq(X) /\ ToSet(C) = ToSet(A) \cup {x}
  <2> DEFINE y == <<x>>
  <2>1. y \in Seq(X) /\ ToSet(y) = {x}
    BY <1>2
  <2> HIDE DEF y
  <2>2. A \o y \in Seq(X) /\ ToSet(A \o y) = ToSet(A) \cup ToSet(y)
    BY <2>1, SetOfConcat
  <2> QED BY <2>1, <2>2 DEF y
<1>4. s = C \o B
  BY DEF Around
<1>5. x \notin ToSet(A)
  <2> DEFINE y == <<x>>
  <2>1. y \in Seq(X) /\ ToSet(y) = {x} /\ C = A \o y
    BY <1>2
  <2> HIDE DEF y, C
  <2>2. IsInjective(C)
    BY <1>3, <1>4, InjectiveConcat
  <2>3. ToSet(A) \cap ToSet(y) = {}
    BY <2>1, <2>2, InjectiveConcat
  <2> QED BY <2>1, <2>3
<1> HIDE DEF C
<1>6. CASE B = <<>>
  <2>1. s = C
    BY <1>3, <1>4, <1>6, ConcatEmptySeq
  <2> QED BY <1>1, <1>3, <1>5, <1>6, <2>1 DEF GoesOn
<1>7. CASE B # <<>>
  <2> DEFINE h == Head(B)
             T == Tail(B)
  <2>1. h \in X /\ T \in Seq(X) /\ B = <<h>> \o T
    BY <1>7, HeadTailProperties
  <2> HIDE DEF h, T
  <2>2. Assoc(C, <<h>>, T)
    BY <1>3, <2>1, SingleSeq, Associates
  <2>3. s = Around(C, h, T)
    BY <1>4, <2>1, <2>2 DEF Assoc, Around
  <2>4. nx = h /\ h # None
    BY <1>1, <1>7, <2>1 DEF h
  <2> QED BY <1>3, <1>5, <2>1, <2>3, <2>4 DEF GoesOn
<1> QED BY <1>6, <1>7

LEMMA WalkStart ==
  ASSUME NEW X, NEW s \in Seq(X), s # <<>>
  PROVE  Head(s) \in X /\ \E A, B \in Seq(X) : s = Around(A, Head(s), B) /\ ToSet(A) = {}
<1> DEFINE h == Head(s)
           T == Tail(s)
           e == <<>>
<1>1. h \in X /\ T \in Seq(X) /\ s = <<h>> \o T
  BY HeadTailProperties
<1>2. e \in Seq(X) /\ ToSet(e) = {}
  BY EmptySeq, SetOfSeq
<1> HIDE DEF h, T
<1>3. e \o <<h>> = <<h>>
  BY <1>1, SingleSeq, ConcatEmptySeq
<1>4. s = Around(e, h, T)
  BY <1>1, <1>3 DEF Around
<1> QED BY <1>1, <1>2, <1>4 DEF h

LEMMA RegSame ==
  ASSUME RegInv, UNCHANGED <<seen, loaded, lists, cli>>
  PROVE  RegInv'
<1>1. /\ seen' = seen /\ loaded' = loaded /\ table' = table /\ ccount' = ccount
      /\ hooks' = hooks /\ rxhead' = rxhead /\ tab' = tab /\ cli' = cli
  BY DEF lists
<1>2. Found' = Found /\ \A M : Commands(M)' = Commands(M)
  BY <1>1 DEF Found, Commands
<1>3. LastFound' = LastFound /\ \A L : Made(L)' = Made(L)
  BY <1>1 DEF LastFound, Made
<1>4. TodoInv' /\ OnceInv'
  BY <1>1 DEF RegInv, TodoInv, OnceInv
<1>5. CmdInv'
  BY <1>1, <1>2 DEF RegInv, CmdInv
<1>6. ConfInv'
  BY <1>1, <1>3 DEF RegInv, ConfInv, Configured
<1> QED BY <1>4, <1>5, <1>6 DEF RegInv

(* A step that ends in a state in which vinny is not set up.                *)
LEMMA RegBusy ==
  ASSUME RInv, RegInv, cli.pc # "make", seen' = seen, tab' = tab, cli'.todo = cli.todo, cli'.pc # "make",
         cli'.pc = "idle" => ~loaded', OnceInv'
  PROVE  RegInv'
<1>1. Found' = Found /\ \A M : Commands(M)' = Commands(M)
  BY DEF Found, Commands
<1>2. TodoInv'
  BY DEF RegInv, TodoInv
<1>3. CmdInv'
  BY <1>1 DEF RegInv, CmdInv
<1>4. ConfInv'
  BY DEF ConfInv, Configured
<1> QED BY <1>2, <1>3, <1>4 DEF RegInv

(* The first of s goes behind M: a step of the loop over what was found.    *)
LEMMA MoveOne ==
  ASSUME NEW X, NEW M \in Seq(X), NEW s \in Seq(X), s # <<>>
  PROVE  /\ Head(s) \in X /\ Tail(s) \in Seq(X) /\ s = <<Head(s)>> \o Tail(s)
         /\ Append(M, Head(s)) \in Seq(X)
         /\ M \o s = Append(M, Head(s)) \o Tail(s)
         /\ ToSet(Append(M, Head(s))) = ToSet(M) \cup {Head(s)}
         /\ IsInjective(M \o s) => Head(s) \notin ToSet(M)
<1> DEFINE h == Head(s)
           T == Tail(s)
           N == Append(M, h)
<1>1. h \in X /\ T \in Seq(X) /\ s = <<h>> \o T
  BY HeadTailProperties
<1> HIDE DEF h, T
<1>2. N \in Seq(X) /\ N = M \o <<h>> /\ ToSet(N) = ToSet(M) \cup {h}
  BY <1>1, AppendProperties, AppendIsConcat, SetOfAppend
<1>3. M \o s = N \o T
  <2>1. Assoc(M, <<h>>, T)
    BY <1>1, SingleSeq, Associates
  <2> QED BY <1>1, <1>2, <2>1 DEF Assoc
<1>4. ASSUME IsInjective(M \o s) PROVE h \notin ToSet(M)
  <2>1. IsInjective(N)
    <3> HIDE DEF N
    <3> QED BY <1>1, <1>2, <1>3, <1>4, InjectiveConcat
  <2> QED BY <1>1, <2>1, InjectiveAppend
<1> QED BY <1>1, <1>2, <1>3, <1>4 DEF h, T

(* What all setups found are rules, and a setup adds what it finds.         *)
FoundBy(s) == [n \in DOMAIN s |-> ModOps(setup_modules(s[n]), n)]

LEMMA FoundIs ==
  ASSUME NEW s \in Seq(Trees), Len(s) <= MaxSetups
  PROVE  FoundBy(s) \in Seq(Seq(AllOps)) /\ Len(FoundBy(s)) = Len(s) /\ FlattenSeq(FoundBy(s)) \in Seq(AllOps)
<1> DEFINE f == FoundBy(s)
<1>1. DOMAIN s = 1 .. Len(s) /\ Len(s) \in Nat /\ MaxSetups \in Nat /\ \A i \in 1 .. Len(s) : s[i] \in Trees
  BY LenProperties, ElementOfSeq, CountsAssumption
<1>2. \A i \in 1 .. Len(s) : f[i] = ModOps(setup_modules(s[i]), i) /\ i \in 1 .. MaxSetups
  BY <1>1 DEF FoundBy
<1>3. f = [i \in DOMAIN s |-> f[i]]
  BY DEF FoundBy
<1> HIDE DEF f
<1>4. \A i \in 1 .. Len(s) : f[i] \in Seq(AllOps)
  BY <1>1, <1>2, RulesToMake
<1>5. f \in Seq(Seq(AllOps)) /\ Len(f) = Len(s)
  BY <1>3, <1>4, MapSeq
<1> QED BY <1>5, SetOfFlatten DEF f

LEMMA FoundGrows ==
  ASSUME NEW s \in Seq(Trees), NEW t \in Trees, Len(s) < MaxSetups
  PROVE  /\ FlattenSeq(FoundBy(Append(s, t)))
              = FlattenSeq(FoundBy(s)) \o ModOps(setup_modules(t), Len(s) + 1)
         /\ ModOps(setup_modules(t), Len(s) + 1) \in Seq(AllOps)
<1> DEFINE u == Append(s, t)
           n == Len(s)
           x == ModOps(setup_modules(t), n + 1)
           f == FoundBy(s)
           g == FoundBy(u)
           h == Append(f, x)
           Q == Seq(AllOps)
<1>1. /\ n \in Nat /\ u \in Seq(Trees) /\ Len(u) = n + 1 /\ MaxSetups \in Nat /\ DOMAIN s = 1 .. n
      /\ DOMAIN u = 1 .. n + 1 /\ u[n + 1] = t /\ \A i \in 1 .. n : u[i] = s[i]
  BY AppendProperties, LenProperties, CountsAssumption
<1> HIDE DEF u
<1>2. Len(s) <= MaxSetups /\ Len(u) <= MaxSetups /\ n + 1 \in 1 .. MaxSetups
  BY <1>1
<1>3. f \in Seq(Q) /\ Len(f) = n /\ g \in Seq(Q) /\ Len(g) = n + 1 /\ x \in Q
  BY <1>1, <1>2, FoundIs, RulesToMake
<1>4. /\ \A i \in 1 .. n : f[i] = ModOps(setup_modules(s[i]), i)
      /\ \A i \in 1 .. n + 1 : g[i] = ModOps(setup_modules(u[i]), i)
  BY <1>1 DEF FoundBy
<1> HIDE DEF n, f, g, Q, x
<1>5. h \in Seq(Q) /\ Len(h) = n + 1 /\ h[n + 1] = x /\ \A i \in 1 .. n : h[i] = f[i]
  BY <1>1, <1>3, AppendProperties
<1> HIDE DEF h
<1>6. \A i \in 1 .. n + 1 : h[i] = g[i]
  <2>1. ASSUME NEW i \in 1 .. n + 1 PROVE h[i] = g[i]
    <3>1. CASE i = n + 1
      BY <1>1, <1>4, <1>5, <3>1 DEF x
    <3>2. CASE i # n + 1
      <4>1. i \in 1 .. n
        BY <1>1, <3>2
      <4> QED BY <1>1, <1>4, <1>5, <4>1
    <3> QED BY <3>1, <3>2
  <2> QED BY <2>1
<1>7. g = h
  BY <1>1, <1>3, <1>5, <1>6, SeqEqual
<1>8. FlattenSeq(h) = FlattenSeq(f) \o x
  BY <1>3, FlattenAppend DEF h, Q
<1> QED BY <1>3, <1>7, <1>8 DEF g, f, u, x, n, Q

(* The first place at which x is in s, as SelectInSeq finds it.             *)
LEMMA FirstPlace ==
  ASSUME NEW X, NEW s \in Seq(X), NEW x, x \in ToSet(s)
  PROVE  LET I == {i \in 1 .. Len(s) : s[i] = x} IN I # {} /\ Min(I) \in 1 .. Len(s)
<1> DEFINE I == {i \in 1 .. Len(s) : s[i] = x}
<1>1. I # {} /\ I \subseteq 1 .. Len(s) /\ I \subseteq Nat
  BY LenProperties DEF ToSet
<1> HIDE DEF I
<1>2. \E m \in I : \A k \in I : m <= k
  BY <1>1, LeastNat
<1>3. Min(I) = CHOOSE m \in I : \A k \in I : m <= k
  BY DEF Min
<1>4. Min(I) \in I
  BY <1>2, <1>3
<1> QED BY <1>1, <1>4 DEF I

(* The rule of a command is that of its first DEF.                          *)
LEMMA FirstDefAppend ==
  ASSUME NEW M \in Seq(AllOps), NEW x \in AllOps, NEW c
  PROVE  FirstDef(Append(M, x), c) = IF FirstDef(M, c) # {} THEN FirstDef(M, c)
                                     ELSE IF x.word = "DEF" /\ x.key = c THEN {x} ELSE {}
<1> DEFINE t == Append(M, x)
           n == Len(M)
           D == {i \in DOMAIN M : M[i].word = "DEF" /\ M[i].key = c}
           E == {i \in DOMAIN t : t[i].word = "DEF" /\ t[i].key = c}
           First(S) == {i \in S : \A j \in S : i <= j}
<1>1. /\ n \in Nat /\ DOMAIN M = 1 .. n /\ DOMAIN t = 1 .. n + 1 /\ (\A i \in 1 .. n : t[i] = M[i]) /\ t[n + 1] = x
  BY AppendProperties, LenProperties
<1>2. FirstDef(M, c) = {M[i] : i \in First(D)} /\ FirstDef(t, c) = {t[i] : i \in First(E)}
  BY DEF FirstDef
<1>3. D \subseteq 1 .. n /\ \A i \in 1 .. n : i \in D <=> M[i].word = "DEF" /\ M[i].key = c
  BY <1>1
<1>4. E \subseteq 1 .. n + 1 /\ \A i \in 1 .. n + 1 : i \in E <=> t[i].word = "DEF" /\ t[i].key = c
  BY <1>1
<1> HIDE DEF t, n, D, E
<1>5. \A i \in 1 .. n : i \in 1 .. n + 1 /\ i < n + 1 /\ (i \in E <=> i \in D)
  BY <1>1, <1>3, <1>4
<1>6. n + 1 \in E <=> x.word = "DEF" /\ x.key = c
  BY <1>1, <1>4
<1>7. \A i \in 1 .. n + 1 : i = n + 1 \/ i \in 1 .. n
  BY <1>1
<1>8. CASE D # {}
  <2>1. PICK m \in D : \A k \in D : m <= k
    <3>1. D \subseteq Nat
      BY <1>1, <1>3
    <3> QED BY <1>8, <3>1, LeastNat
  <2>2. FirstDef(M, c) # {}
    BY <1>2, <2>1
  <2>3. ASSUME NEW i PROVE i \in First(E) <=> i \in First(D)
    <3>1. CASE i \in D
      BY <1>1, <1>3, <1>4, <1>5, <1>7, <3>1
    <3>2. CASE i \notin D
      <4>1. i \in E => i = n + 1
        BY <1>4, <1>5, <1>7, <3>2
      <4>2. m \in E /\ m < n + 1 /\ m \in Nat
        BY <1>1, <1>3, <1>5, <2>1
      <4>3. i \notin First(E)
        BY <1>1, <4>1, <4>2
      <4> QED BY <3>2, <4>3
    <3> QED BY <3>1, <3>2
  <2>4. First(E) = First(D) /\ First(D) \subseteq 1 .. n
    BY <1>3, <2>3
  <2>5. \A i \in First(D) : t[i] = M[i]
    BY <1>1, <2>4
  <2> HIDE DEF First
  <2>6. FirstDef(t, c) = FirstDef(M, c)
    BY <1>2, <2>4, <2>5
  <2> QED BY <2>2, <2>6 DEF t
<1>9. CASE D = {}
  <2>1. First(D) = {} /\ FirstDef(M, c) = {}
    BY <1>2, <1>9
  <2>2. \A i : i \in E <=> i = n + 1 /\ n + 1 \in E
    BY <1>4, <1>5, <1>7, <1>9
  <2>3. CASE n + 1 \in E
    <3>1. First(E) = {n + 1}
      BY <1>1, <2>2, <2>3
    <3>2. FirstDef(t, c) = {x}
      BY <1>1, <1>2, <3>1
    <3> QED BY <1>6, <2>1, <2>3, <3>2 DEF t
  <2>4. CASE n + 1 \notin E
    <3>1. First(E) = {}
      BY <2>2, <2>4
    <3>2. FirstDef(t, c) = {}
      BY <1>2, <3>1
    <3> QED BY <1>6, <2>1, <2>4, <3>2 DEF t
  <2> QED BY <2>3, <2>4
<1> QED BY <1>8, <1>9

LEMMA CommandsStay ==
  ASSUME NEW M \in Seq(AllOps), Commands(M), NEW x \in AllOps, x.word # "DEF", tab' = tab
  PROVE  Commands(Append(M, x))'
<1>1. ASSUME NEW c PROVE FirstDef(Append(M, x), c) = FirstDef(M, c)
  <2>1. FirstDef(Append(M, x), c) = IF FirstDef(M, c) # {} THEN FirstDef(M, c)
                                    ELSE IF x.word = "DEF" /\ x.key = c THEN {x} ELSE {}
    BY FirstDefAppend
  <2> QED BY <2>1
<1> QED BY <1>1 DEF Commands

(* All words of a command have the same rule, so a new one is for all of    *)
(* them or for none.                                                        *)
LEMMA CommandMade ==
  ASSUME RInv, NEW M \in Seq(AllOps), Commands(M), NEW x \in AllOps, x.word = "DEF", mk_cmd(x)
  PROVE  Commands(Append(M, x))'
<1> DEFINE Free(i) == \A j \in 1 .. i : tab[<<cmd_prefix[j], x.key>>] = None
           Pos(w) == SelectInSeq(cmd_prefix, LAMBDA p : p = w[1])
<1>1. tab' = [w \in Words |-> IF w[2] = x.key /\ Free(Pos(w)) THEN x ELSE tab[w]]
  BY DEF mk_cmd
<1>2. cmd_prefix \in Seq(ToSet(cmd_prefix)) /\ DOMAIN cmd_prefix = 1 .. Len(cmd_prefix) /\ Len(cmd_prefix) \in Nat
  BY PrefixAssumption, LenProperties
<1>3. ASSUME NEW w \in Words PROVE Pos(w) \in 1 .. Len(cmd_prefix) /\ w = <<w[1], w[2]>> /\ w[2] \in Cmds
  <2>1. w[1] \in ToSet(cmd_prefix) /\ w = <<w[1], w[2]>> /\ w[2] \in Cmds
    BY DEF Words
  <2> DEFINE I == {i \in 1 .. Len(cmd_prefix) : cmd_prefix[i] = w[1]}
  <2>2. I # {} /\ Min(I) \in 1 .. Len(cmd_prefix)
    BY <1>2, <2>1, FirstPlace
  <2>3. Pos(w) = IF I # {} THEN Min(I) ELSE 0
    BY DEF SelectInSeq
  <2> HIDE DEF I, Pos
  <2> QED BY <2>1, <2>2, <2>3
<1>4. x # None
  BY MessagesAssumption
<1>5. \A j \in 1 .. Len(cmd_prefix) : \A c \in Cmds : <<cmd_prefix[j], c>> \in Words
  BY <1>2 DEF Words, ToSet
<1> HIDE DEF Pos
<1>6. ASSUME NEW w \in Words
      PROVE  FirstDef(Append(M, x), w[2]) = IF tab'[w] = None THEN {} ELSE {tab'[w]}
  <2>1. FirstDef(M, w[2]) = IF tab[w] = None THEN {} ELSE {tab[w]}
    BY DEF Commands
  <2>2. CASE w[2] # x.key
    <3>1. tab'[w] = tab[w]
      BY <1>1, <2>2
    <3> QED BY <2>1, <2>2, <3>1, FirstDefAppend
  <2>3. CASE w[2] = x.key
    <3>1. \A j \in 1 .. Len(cmd_prefix) :
             FirstDef(M, x.key) = IF tab[<<cmd_prefix[j], x.key>>] = None THEN {} ELSE {tab[<<cmd_prefix[j], x.key>>]}
      <4>1. \A j \in 1 .. Len(cmd_prefix) : <<cmd_prefix[j], x.key>> \in Words /\ <<cmd_prefix[j], x.key>>[2] = x.key
        BY <1>3, <1>5, <2>3
      <4> QED BY <4>1 DEF Commands
    <3>2. Pos(w) \in 1 .. Len(cmd_prefix)
      BY <1>3
    <3>3. CASE FirstDef(M, x.key) = {}
      <4>1. \A j \in 1 .. Len(cmd_prefix) : tab[<<cmd_prefix[j], x.key>>] = None
        BY <3>1, <3>3
      <4>2. Free(Pos(w))
        <5>1. \A j \in 1 .. Pos(w) : j \in 1 .. Len(cmd_prefix)
          BY <1>2, <3>2
        <5> QED BY <4>1, <5>1
      <4>3. tab'[w] = x
        BY <1>1, <2>3, <4>2
      <4> QED BY <1>4, <2>3, <3>3, <4>3, FirstDefAppend
    <3>4. CASE FirstDef(M, x.key) # {}
      <4>1. 1 \in 1 .. Pos(w) /\ 1 \in 1 .. Len(cmd_prefix)
        BY <1>2, <3>2
      <4>2. ~Free(Pos(w))
        BY <3>1, <3>4, <4>1
      <4>3. tab'[w] = tab[w]
        BY <1>1, <4>2
      <4> QED BY <2>1, <2>3, <3>4, <4>3, FirstDefAppend
    <3> QED BY <3>3, <3>4
  <2> QED BY <2>2, <2>3
<1> QED BY <1>6 DEF Commands

LEMMA CommandReg ==
  ASSUME RInv, RegInv, NEW op \in {"load", "unload", "reload", "reloadlib"}, Command(op)
  PROVE  RegInv'
<1>1. /\ cli.pc = "idle" /\ seen' = seen /\ tab' = tab /\ hooks' = hooks /\ rxhead' = rxhead
      /\ cli' = [cli EXCEPT !.op = op, !.i = 1, !.pc = IF op = "load" THEN "setup" ELSE "hooks"]
  BY DEF Command, lists
<1>2. cli'.todo = cli.todo /\ cli'.pc \in {"setup", "hooks"}
  <2>1. cli'.todo = cli.todo /\ cli'.pc = (IF op = "load" THEN "setup" ELSE "hooks")
    BY <1>1 DEF RInv, TypeOK
  <2> QED BY <2>1
<1>3. OnceInv'
  BY <1>1 DEF RegInv, OnceInv
<1> QED BY <1>1, <1>2, <1>3, RegBusy

LEMMA DestroyHookReg ==
  ASSUME RInv, RegInv, DestroyHook
  PROVE  RegInv'
<1>1. /\ cli.pc = "hooks" /\ seen' = seen /\ tab' = tab /\ hooks' = [hooks EXCEPT ![cli.i] = None]
      /\ rxhead' = rxhead /\ cli' = [cli EXCEPT !.i = cli.i + 1]
  BY DEF DestroyHook
<1>2. cli'.todo = cli.todo /\ cli'.pc = "hooks"
  BY <1>1 DEF RInv, TypeOK
<1>3. OnceInv'
  <2>1. \A i \in 1 .. Slots - 1 : hooks'[i] # None => hooks'[i] = hooks[i]
    BY <1>1 DEF RInv, TypeOK
  <2> QED BY <1>1, <2>1 DEF RegInv, OnceInv
<1> QED BY <1>1, <1>2, <1>3, RegBusy

LEMMA DestroyRgxReg ==
  ASSUME RInv, RegInv, DestroyRgx
  PROVE  RegInv'
<1>1. cli.pc = "rgx" /\ seen' = seen /\ tab' = tab /\ hooks' = hooks
  BY DEF DestroyRgx
<1>2. cli' = [cli EXCEPT !.pc = "cmds"] \/ cli' = cli
  BY DEF DestroyRgx, Goto
<1>3. cli'.todo = cli.todo /\ cli'.pc \in {"rgx", "cmds"}
  BY <1>1, <1>2 DEF RInv, TypeOK
<1>4. IsInjective(rxhead')
  <2>1. rxhead \in Seq(AllOps) /\ IsInjective(rxhead)
    BY Types DEF RegInv, OnceInv
  <2>2. CASE rxhead = <<>>
    BY <2>1, <2>2 DEF DestroyRgx
  <2>3. CASE rxhead # <<>>
    <3> DEFINE h == Head(rxhead)
               T == Tail(rxhead)
    <3>1. rxhead' = T /\ h \in AllOps /\ T \in Seq(AllOps) /\ rxhead = <<h>> \o T
      BY <2>1, <2>3, HeadTailProperties DEF DestroyRgx
    <3> HIDE DEF h, T
    <3>2. <<h>> \in Seq(AllOps)
      BY <3>1, SingleSeq
    <3> QED BY <2>1, <3>1, <3>2, InjectiveConcat
  <2> QED BY <2>2, <2>3
<1>5. OnceInv'
  BY <1>1, <1>4 DEF RegInv, OnceInv
<1> QED BY <1>1, <1>3, <1>5, RegBusy

(* The other steps that take vinny down change no slot and no regex.        *)
LEMMA DestroyReg ==
  ASSUME RInv, RegInv, DestroyedHooks \/ DestroyCmds \/ RmPrivmsg \/ Close
  PROVE  RegInv'
<1>1. seen' = seen /\ hooks' = hooks /\ rxhead' = rxhead
  BY DEF DestroyedHooks, DestroyCmds, RmPrivmsg, Close
<1>2. tab' = tab
  <2>1. CASE DestroyCmds
    <3>1. FreedCmds = {}
      <4>1. \A c : <<"", c>> \notin Words
        BY PrefixAssumption DEF Words
      <4> QED BY <4>1 DEF FreedCmds
    <3>2. tab' = [w \in Words |-> tab[w]]
      BY <2>1, <3>1 DEF DestroyCmds
    <3> QED BY <3>2 DEF RInv, TypeOK
  <2> QED BY <2>1 DEF DestroyedHooks, RmPrivmsg, Close
<1>3. cli.pc # "make" /\ \E pc \in {"rgx", "privmsg", "close", "setup", "idle"} :
        cli' = [cli EXCEPT !.pc = pc] /\ (pc = "idle" => ~loaded')
  <2>1. CASE Close
    <3>1. CASE cli.op = "unload"
      BY <2>1, <3>1 DEF Close, Goto
    <3>2. CASE cli.op # "unload"
      BY <2>1, <3>2 DEF Close, Goto
    <3> QED BY <3>1, <3>2
  <2>2. CASE DestroyedHooks
    BY <2>2 DEF DestroyedHooks, Goto
  <2>3. CASE DestroyCmds
    BY <2>3 DEF DestroyCmds, Goto
  <2>4. CASE RmPrivmsg
    BY <2>4 DEF RmPrivmsg, Goto
  <2> QED BY <2>1, <2>2, <2>3, <2>4
<1>4. cli'.todo = cli.todo /\ cli'.pc # "make" /\ (cli'.pc = "idle" => ~loaded')
  BY <1>3 DEF RInv, TypeOK
<1>5. OnceInv'
  BY <1>1 DEF RegInv, OnceInv
<1> QED BY <1>1, <1>2, <1>3, <1>4, <1>5, RegBusy

(* A setup finds what it has to make; nothing of it is made yet.            *)
LEMMA SetupReg ==
  ASSUME RInv, RegInv, setup_vinny
  PROVE  RegInv'
<1> DEFINE n == Len(seen) + 1
           F == ModOps(setup_modules(tree), n)
<1>1. /\ cli.pc = "setup" /\ seen' = Append(seen, tree) /\ hooks' = hooks /\ rxhead' = rxhead /\ tab' = tab
      /\ ccount' = ccount /\ cli' = [cli EXCEPT !.pc = "make", !.todo = ModOps(setup_modules(tree), Len(seen'))]
  BY DEF setup_vinny
<1>2. seen \in Seq(Trees) /\ tree \in Trees /\ Len(seen) < MaxSetups /\ Len(seen) \in Nat
  BY <1>1, Types DEF RInv, SlotInv, SetupToCome
<1>3. Len(seen') = n /\ seen'[n] = tree /\ seen' # <<>>
  <2>1. Len(seen') = n /\ seen'[n] = tree
    BY <1>1, <1>2, AppendProperties
  <2>2. Len(<<>>) = 0 /\ n # 0
    BY <1>2
  <2> QED BY <2>1, <2>2
<1>4. cli'.pc = "make" /\ cli'.todo = F
  BY <1>1, <1>3 DEF RInv, TypeOK
<1>5. F \in Seq(AllOps) /\ FlattenSeq(FoundBy(seen')) = FlattenSeq(FoundBy(seen)) \o F
  BY <1>1, <1>2, FoundGrows
<1> HIDE DEF F
<1>6. CmdInv'
  <2>1. PICK M \in Seq(AllOps) : Found = M \o cli.todo /\ Commands(M)
    BY DEF RegInv, CmdInv
  <2>2. Found = M
    <3>1. cli.todo = <<>>
      BY <1>1 DEF RegInv, TodoInv
    <3> QED BY <2>1, <3>1, ConcatEmptySeq
  <2>3. Found' = M \o cli'.todo
    BY <1>4, <1>5, <2>2 DEF Found, FoundBy
  <2>4. Commands(M)'
    BY <1>1, <2>1 DEF Commands
  <2> QED BY <2>3, <2>4 DEF CmdInv
<1>7. ConfInv'
  <2>1. LastFound' = F
    BY <1>3 DEF LastFound, F
  <2>2. <<>> \in Seq(AllOps) /\ <<>> \o F = F /\ ToSet(<<>>) = {}
    BY <1>5, EmptySeq, ConcatEmptySeq, SetOfSeq
  <2>3. \A i \in 1 .. Slots - 1 : hooks[i] = None
    <3>1. ccount = 1 /\ \A i \in 1 .. Slots - 1 : hooks[i] # None => i < ccount
      BY <1>1 DEF RInv, SlotInv, Emptied
    <3>2. \A i \in 1 .. Slots - 1 : ~(i < 1)
      BY Types
    <3> QED BY <3>1, <3>2
  <2>4. rxhead = <<>>
    BY <1>1 DEF RInv, RuleInv
  <2>5. Made(<<>>)'
    BY <1>1, <2>2, <2>3, <2>4 DEF Made
  <2>6. \E L \in Seq(AllOps) : LastFound' = L \o cli'.todo /\ Made(L)'
    BY <1>4, <2>1, <2>2, <2>5
  <2> QED BY <1>3, <2>6 DEF ConfInv
<1>8. TodoInv' /\ OnceInv'
  BY <1>1, <1>4 DEF RegInv, TodoInv, OnceInv
<1> QED BY <1>6, <1>7, <1>8 DEF RegInv

LEMMA SetUpReg ==
  ASSUME RInv, RegInv, SetUp
  PROVE  RegInv'
<1>1. /\ cli.pc = "make" /\ cli.todo = <<>> /\ cli' = [cli EXCEPT !.pc = "idle"]
      /\ seen' = seen /\ loaded' = loaded /\ hooks' = hooks /\ rxhead' = rxhead /\ tab' = tab /\ ccount' = ccount
  BY DEF SetUp, Goto, lists
<1>2. cli'.todo = cli.todo
  BY <1>1 DEF RInv, TypeOK
<1>3. Found' = Found /\ \A M : Commands(M)' = Commands(M)
  BY <1>1 DEF Found, Commands
<1>4. LastFound' = LastFound /\ \A L : Made(L)' = Made(L)
  BY <1>1 DEF LastFound, Made
<1>5. TodoInv' /\ OnceInv'
  BY <1>1, <1>2 DEF RegInv, TodoInv, OnceInv
<1>6. CmdInv'
  BY <1>2, <1>3 DEF RegInv, CmdInv
<1>7. ConfInv'
  <2>1. Configured
    BY <1>1 DEF Configured
  <2> QED BY <1>1, <1>2, <1>4, <2>1 DEF RegInv, ConfInv
<1> QED BY <1>5, <1>6, <1>7 DEF RegInv

(* One rule more is made.                                                   *)
LEMMA MakeReg ==
  ASSUME RInv, RegInv, Make
  PROVE  RegInv'
<1>1. PICK x, T : x = mop0 /\ T = Tail(cli.todo)
  OBVIOUS
<1>2. Making /\ cli.todo # <<>> /\ cli.pc = "make" /\ seen' = seen /\ cli' = [cli EXCEPT !.todo = T]
  BY <1>1 DEF Make, Making
<1>3. /\ x.word = "DEF" => mk_cmd(x)
      /\ x.word = "HOOK" => mk_hook(x)
      /\ x.word = "MATCH" => mk_rgx(x)
  BY <1>1 DEF Make, mop0
<1>4. x \in AllOps /\ x.word \in {"DEF", "HOOK", "MATCH"} /\ cli'.pc = "make" /\ cli.todo \in Seq(AllOps)
  BY <1>1, <1>2, MakeFacts, Types
<1>5. cli'.todo = T
  BY <1>2 DEF RInv, TypeOK
<1>6. PICK M \in Seq(AllOps) : Found = M \o cli.todo /\ Commands(M)
  BY DEF RegInv, CmdInv
<1>7. PICK L \in Seq(AllOps) : LastFound = L \o cli.todo /\ Made(L) /\ seen # <<>>
  BY <1>2 DEF RegInv, ConfInv, Configured
<1>8. IsInjective(LastFound)
  <2>1. seen \in Seq(Trees) /\ Len(seen) \in Nat /\ Len(seen) <= MaxSetups /\ MaxSetups \in Nat
    BY Types DEF RInv, SlotInv
  <2>2. Len(seen) # 0
    BY <1>7, <2>1, EmptySeq
  <2>3. Len(seen) \in 1 .. MaxSetups /\ seen[Len(seen)] \in Trees
    <3>1. Len(seen) \in 1 .. MaxSetups /\ Len(seen) \in 1 .. Len(seen)
      BY <2>1, <2>2
    <3> QED BY <2>1, <3>1, ElementOfSeq
  <2> QED BY <2>3, RulesToMake DEF LastFound
<1>9. \A K \in Seq(AllOps) : /\ Append(K, x) \in Seq(AllOps) /\ ToSet(Append(K, x)) = ToSet(K) \cup {x}
                             /\ K \o cli.todo = Append(K, x) \o T
                             /\ IsInjective(K \o cli.todo) => x \notin ToSet(K)
  <2> DEFINE s == cli.todo
  <2>1. s \in Seq(AllOps) /\ s # <<>> /\ x = Head(s) /\ T = Tail(s)
    BY <1>1, <1>2, <1>4 DEF mop0
  <2> HIDE DEF s
  <2> QED BY <2>1, MoveOne DEF s
<1>10. x \notin ToSet(L) /\ Append(L, x) \in Seq(AllOps) /\ ToSet(Append(L, x)) = ToSet(L) \cup {x}
       /\ LastFound = Append(L, x) \o T
  BY <1>7, <1>8, <1>9
<1>11. Append(M, x) \in Seq(AllOps) /\ Found = Append(M, x) \o T
  BY <1>6, <1>9
<1>12. Commands(Append(M, x))'
  <2>1. CASE x.word = "DEF"
    BY <1>3, <1>4, <1>6, <2>1, CommandMade
  <2>2. CASE x.word # "DEF"
    <3>1. tab' = tab
      BY <1>3, <1>4, <2>2 DEF mk_hook, mk_rgx
    <3> QED BY <1>4, <1>6, <2>2, <3>1, CommandsStay
  <2> QED BY <2>1, <2>2
<1>13. CmdInv'
  <2>1. Found' = Append(M, x) \o cli'.todo
    BY <1>2, <1>5, <1>11 DEF Found
  <2> QED BY <1>11, <1>12, <2>1 DEF CmdInv
<1>14. OnceInv /\ rxhead \in Seq(AllOps) /\ ToSet(rxhead) \subseteq ToSet(L)
  BY <1>7, Types DEF RegInv, Made
<1>15. Made(Append(L, x))' /\ OnceInv'
  <2>1. CASE x.word = "DEF"
    <3>1. ccount' = ccount /\ hooks' = hooks /\ rxhead' = rxhead
      BY <1>3, <2>1 DEF mk_cmd
    <3> QED BY <1>7, <1>10, <1>14, <2>1, <3>1 DEF Made, OnceInv
  <2>2. CASE x.word = "MATCH"
    <3>1. ccount' = ccount /\ hooks' = hooks /\ rxhead' = <<x>> \o rxhead
      BY <1>3, <2>2 DEF mk_rgx
    <3>2. ToSet(rxhead') = ToSet(rxhead) \cup {x} /\ IsInjective(rxhead')
      BY <1>4, <1>10, <1>14, <3>1, InFront DEF OnceInv
    <3>3. Made(Append(L, x))'
      BY <1>7, <1>10, <2>2, <3>1, <3>2 DEF Made
    <3> QED BY <1>14, <3>1, <3>2, <3>3 DEF OnceInv
  <2>3. CASE x.word = "HOOK" /\ ccount >= Slots
    <3>1. ccount' = ccount /\ hooks' = hooks /\ rxhead' = rxhead
      BY <1>3, <2>3 DEF mk_hook
    <3>2. ~(ccount < Slots)
      BY <2>3, Types
    <3> QED BY <1>7, <1>10, <1>14, <2>3, <3>1, <3>2 DEF Made, OnceInv
  <2>4. CASE x.word = "HOOK" /\ ~(ccount >= Slots)
    <3> DEFINE c == ccount
               y == [cmd |-> x.key, mop |-> x]
    <3>1. ccount' = c + 1 /\ hooks' = [hooks EXCEPT ![c] = y] /\ rxhead' = rxhead
      BY <1>3, <2>4 DEF mk_hook
    <3>2. c \in 1 .. Slots - 1 /\ c < Slots
      <4>1. c \in 1 .. Slots /\ Slots \in Nat
        BY Types
      <4> HIDE DEF c
      <4> QED BY <2>4, <4>1 DEF c
    <3>3. y # None /\ y.mop = x
      <4>1. x.key \in Keys
        BY <1>4, <2>4, OpShape
      <4> QED BY <1>4, <4>1, MessagesAssumption
    <3>4. \A j \in 1 .. Slots - 1 : hooks'[j] = IF j = c THEN y ELSE hooks[j]
      BY <3>1, <3>2 DEF RInv, TypeOK
    <3>5. hooks[c] = None
      <4>1. hooks[c] # None => c < c
        BY <1>2, <3>2 DEF RInv, SlotInv
      <4> QED BY <3>2, <4>1
    <3>6. \A j \in 1 .. Slots - 1 : hooks[j] # None => hooks[j].mop \in ToSet(L) /\ hooks[j].mop # x
      BY <1>7, <1>10 DEF Made
    <3> HIDE DEF c, y
    <3>7. ASSUME NEW i \in 1 .. Slots - 1, NEW j \in 1 .. Slots - 1, hooks'[i] # None, hooks'[j] # None,
                 hooks'[i].mop = hooks'[j].mop
          PROVE  i = j
      BY <1>14, <3>3, <3>4, <3>6, <3>7 DEF OnceInv
    <3>8. \A j \in 1 .. Slots - 1 : hooks'[j] # None => hooks'[j].mop \in ToSet(Append(L, x))
      BY <1>10, <3>3, <3>4, <3>6
    <3>9. ASSUME NEW o \in ToSet(Append(L, x)), o.word = "HOOK"
          PROVE  \E i \in 1 .. Slots - 1 : hooks'[i] # None /\ hooks'[i].mop = o
      <4>1. CASE o = x
        BY <3>2, <3>3, <3>4, <4>1
      <4>2. CASE o # x
        <5>1. PICK i \in 1 .. Slots - 1 : hooks[i] # None /\ hooks[i].mop = o
          BY <1>7, <1>10, <3>2, <3>9, <4>2 DEF Made, c
        <5> QED BY <3>4, <3>5, <5>1
      <4> QED BY <4>1, <4>2
    <3>10. ToSet(rxhead) = {o \in ToSet(Append(L, x)) : o.word = "MATCH"}
      BY <1>7, <1>10, <2>4 DEF Made
    <3> QED BY <1>14, <3>1, <3>7, <3>8, <3>9, <3>10 DEF Made, OnceInv
  <2> QED BY <1>4, <2>1, <2>2, <2>3, <2>4
<1>16. ConfInv'
  <2>1. LastFound' = Append(L, x) \o cli'.todo /\ seen' # <<>>
    BY <1>2, <1>5, <1>7, <1>10 DEF LastFound
  <2> QED BY <1>10, <1>15, <2>1 DEF ConfInv
<1>17. TodoInv'
  BY <1>4 DEF TodoInv
<1> QED BY <1>13, <1>15, <1>16, <1>17 DEF RegInv

(* What the proof of a walk along list L needs of it and the registries.    *)
Fine(L, R) ==
  /\ L \in Seq(Hooks) /\ IsInjective(L)
  /\ \A e \in ToSet(L) : e.fn = "vinny" /\ e.fid # 0 =>
        R.hooks[e.fid].mop \in AllOps /\ R.hooks[e.fid].mop.word = "HOOK"
  /\ \A x, y \in ToSet(L) : x.fn = "vinny" /\ y.fn = "vinny" /\ x.fid = y.fid => x = y
  /\ \A x, y \in ToSet(L) : x.fn = "vinny" /\ y.fn = "vinny" /\ x.fid # 0 /\ y.fid # 0
                              /\ R.hooks[x.fid].mop = R.hooks[y.fid].mop => x.fid = y.fid
  /\ \A w \in Words : R.tab[w] # None => R.tab[w] \in AllOps /\ R.tab[w].word = "DEF"
  /\ R.rx \in Seq(AllOps) /\ IsInjective(R.rx) /\ \A o \in ToSet(R.rx) : o.word = "MATCH"

LEMMA ListsFine ==
  ASSUME RInv, RegInv, NEW k \in Keys
  PROVE  Fine(table[k], Registries)
<1> DEFINE L == table[k]
           R == Registries
<1>1. R.hooks = hooks /\ R.tab = tab /\ R.rx = rxhead
  BY DEF Registries
<1>2. L \in Seq(Hooks) /\ IsInjective(L) /\ ToSet(L) \subseteq Hooks /\ ToSet(L) \cap VinnyHooks = {Entry(i) : i \in Fids(k)}
  BY ListFacts
<1>3. ASSUME NEW e \in ToSet(L), e.fn = "vinny", e.fid # 0
      PROVE  e.fid \in 1 .. Slots - 1 /\ hooks[e.fid] # None
             /\ hooks[e.fid].mop \in AllOps /\ hooks[e.fid].mop.word = "HOOK"
  <2>1. e.fid \in 1 .. Slots - 1 /\ hooks[e.fid] # None
    BY <1>3, EntryFacts
  <2>2. hooks[e.fid].mop \in AllOps
    BY <2>1, SlotRule
  <2>3. hooks[e.fid].mop.word = "HOOK"
    BY <2>1 DEF RInv, RuleInv
  <2> QED BY <2>1, <2>2, <2>3
<1>4. \A x, y \in ToSet(L) : x.fn = "vinny" /\ y.fn = "vinny" /\ x.fid = y.fid => x = y
  <2> SUFFICES ASSUME NEW x \in ToSet(L), NEW y \in ToSet(L), x.fn = "vinny", y.fn = "vinny", x.fid = y.fid
               PROVE  x = y
    OBVIOUS
  <2>1. x \in ToSet(L) \cap VinnyHooks /\ y \in ToSet(L) \cap VinnyHooks
    BY <1>2, HookKinds
  <2>2. PICK i \in Fids(k) : x = Entry(i)
    BY <1>2, <2>1
  <2>3. PICK j \in Fids(k) : y = Entry(j)
    BY <1>2, <2>1
  <2>4. x.fid = i /\ y.fid = j
    BY <2>2, <2>3 DEF Entry
  <2> QED BY <2>2, <2>3, <2>4
<1>5. ASSUME NEW x \in ToSet(L), NEW y \in ToSet(L), x.fn = "vinny", y.fn = "vinny", x.fid # 0, y.fid # 0,
             hooks[x.fid].mop = hooks[y.fid].mop
      PROVE  x.fid = y.fid
  BY <1>3, <1>5 DEF RegInv, OnceInv
<1>6. \A w \in Words : tab[w] # None => tab[w] \in AllOps /\ tab[w].word = "DEF"
  BY DEF RInv, TypeOK, RuleInv
<1>7. rxhead \in Seq(AllOps) /\ IsInjective(rxhead) /\ \A o \in ToSet(rxhead) : o.word = "MATCH"
  BY Types DEF RegInv, OnceInv, RInv, RuleInv
<1> HIDE DEF L, R
<1>8. \A e \in ToSet(L) : e.fn = "vinny" /\ e.fid # 0 =>
        R.hooks[e.fid].mop \in AllOps /\ R.hooks[e.fid].mop.word = "HOOK"
  BY <1>1, <1>3
<1>9. \A x, y \in ToSet(L) : x.fn = "vinny" /\ y.fn = "vinny" /\ x.fid # 0 /\ y.fid # 0
                               /\ R.hooks[x.fid].mop = R.hooks[y.fid].mop => x.fid = y.fid
  <2> SUFFICES ASSUME NEW x \in ToSet(L), NEW y \in ToSet(L), x.fn = "vinny", y.fn = "vinny",
                      x.fid # 0, y.fid # 0, R.hooks[x.fid].mop = R.hooks[y.fid].mop
               PROVE  x.fid = y.fid
    OBVIOUS
  <2>1. hooks[x.fid].mop = hooks[y.fid].mop
    BY <1>1
  <2> QED BY <1>5, <2>1
<1>10. /\ \A w \in Words : R.tab[w] # None => R.tab[w] \in AllOps /\ R.tab[w].word = "DEF"
       /\ R.rx \in Seq(AllOps) /\ IsInjective(R.rx) /\ \A o \in ToSet(R.rx) : o.word = "MATCH"
  BY <1>1, <1>6, <1>7
<1>11. Fine(L, R)
  BY <1>2, <1>4, <1>8, <1>9, <1>10 DEF Fine
<1> QED BY <1>11 DEF L, R

(* What one entry starts, and what one entry more starts.                   *)
LEMMA RunsMore ==
  ASSUME NEW A, NEW x, NEW m, NEW R
  PROVE  RunsOf(A \cup {x}, m, R) = RunsOf(A, m, R) \cup RunOf(x, m, R)
BY DEF RunsOf

LEMMA RunsNone ==
  ASSUME NEW m, NEW R
  PROVE  RunsOf({}, m, R) = {}
BY DEF RunsOf

(* No entry before at starts the rule of at.                                *)
LEMMA NewHook ==
  ASSUME NEW L, NEW R, Fine(L, R), NEW at \in ToSet(L), at.fn = "vinny", at.fid # 0,
         NEW A, A \subseteq ToSet(L), at \notin A, NEW m
  PROVE  R.hooks[at.fid].mop \notin RunsOf(A, m, R)
<1> DEFINE o == R.hooks[at.fid].mop
<1> SUFFICES ASSUME o \in RunsOf(A, m, R) PROVE FALSE
  OBVIOUS
<1>1. PICK e \in A : o \in RunOf(e, m, R)
  BY DEF RunsOf
<1>2. e \in ToSet(L) /\ e # at /\ e.fn = "vinny" /\ o.word = "HOOK"
  BY <1>1 DEF Fine, RunOf
<1>3. CASE e.fid = 0
  <2>1. o \in CmdRuns(m, R) \/ o \in ToSet(R.rx)
    BY <1>1, <1>2, <1>3 DEF RunOf, RgxRuns
  <2>2. o \in CmdRuns(m, R) => o.word = "DEF"
    BY DEF CmdRuns, CmdOf, Fine
  <2>3. o \in ToSet(R.rx) => o.word = "MATCH"
    BY DEF Fine
  <2> QED BY <1>2, <2>1, <2>2, <2>3
<1>4. CASE e.fid # 0
  <2>1. o = R.hooks[e.fid].mop
    BY <1>1, <1>2, <1>4 DEF RunOf
  <2> QED BY <1>2, <1>4, <2>1 DEF Fine
<1> QED BY <1>3, <1>4

LEMMA NewText ==
  ASSUME NEW L, NEW R, Fine(L, R), NEW at \in ToSet(L), at.fn = "vinny", at.fid = 0,
         NEW A, A \subseteq ToSet(L), at \notin A, NEW m, NEW o, o.word # "HOOK"
  PROVE  o \notin RunsOf(A, m, R)
<1> SUFFICES ASSUME o \in RunsOf(A, m, R) PROVE FALSE
  OBVIOUS
<1>1. PICK e \in A : o \in RunOf(e, m, R)
  BY DEF RunsOf
<1>2. e \in ToSet(L) /\ e # at /\ e.fn = "vinny"
  BY <1>1 DEF RunOf
<1>3. e.fid # 0
  BY <1>2 DEF Fine
<1>4. o = R.hooks[e.fid].mop
  BY <1>1, <1>2, <1>3 DEF RunOf
<1> QED BY <1>2, <1>3, <1>4 DEF Fine

(* The list of what ran, with a rule or a hook of others more.              *)
LEMMA StartedMore ==
  ASSUME NEW r \in Seq(Ran), IsInjective(Keep(r, AllOps)), NEW o \in AllOps, o \notin Started(r)
  PROVE  /\ Append(r, o) \in Seq(Ran) /\ IsInjective(Keep(Append(r, o), AllOps))
         /\ Started(Append(r, o)) = Started(r) \cup {o}
<1>1. o \in Ran
  BY DEF Ran
<1>2. Append(r, o) \in Seq(Ran) /\ Keep(r, AllOps) \in Seq(Ran) /\ ToSet(Keep(r, AllOps)) = Started(r)
  BY <1>1, AppendProperties, KeepType, SetOfKeep DEF Started
<1>3. Keep(Append(r, o), AllOps) = Append(Keep(r, AllOps), o)
  BY <1>1, KeepAppend
<1>4. IsInjective(Append(Keep(r, AllOps), o))
  <2> DEFINE s == Keep(r, AllOps)
  <2>1. s \in Seq(Ran) /\ IsInjective(s) /\ o \notin ToSet(s)
    BY <1>2
  <2> HIDE DEF s
  <2>2. IsInjective(Append(s, o))
    BY <1>1, <2>1, InjectiveAppend
  <2> QED BY <2>2 DEF s
<1>5. ToSet(Append(r, o)) = ToSet(r) \cup {o}
  BY <1>1, SetOfAppend
<1> QED BY <1>2, <1>3, <1>4, <1>5 DEF Started

LEMMA StartedSame ==
  ASSUME NEW r \in Seq(Ran), NEW x \in Hooks, x.fn # "vinny"
  PROVE  /\ Append(r, x) \in Seq(Ran) /\ Keep(Append(r, x), AllOps) = Keep(r, AllOps)
         /\ Started(Append(r, x)) = Started(r)
<1>1. x \in Ran /\ x \notin AllOps
  BY HookKinds DEF Ran
<1>2. ToSet(Append(r, x)) = ToSet(r) \cup {x} /\ Append(r, x) \in Seq(Ran)
  BY <1>1, SetOfAppend, AppendProperties
<1> QED BY <1>1, <1>2, KeepAppend DEF Started

(* Where the IRC thread is, if it walks.                                    *)
LEMMA WalkFacts ==
  ASSUME RInv, RegInv, reader.pc # "done"
  PROVE  /\ reader.msg # None /\ reader.msg.key \in Keys /\ reader.at \in Hooks /\ reader \in Readers
         /\ reader.ran \in Seq(Ran) /\ None \notin Hooks /\ None \notin AllOps
         /\ table[reader.msg.key] \in Seq(Hooks)
         /\ Fine(table[reader.msg.key], Registries)
<1>1. reader.msg \in Messages /\ reader.at \in Hooks /\ reader \in Readers
  BY ReaderFacts DEF ReadInv
<1>2. reader.msg.key \in Keys /\ reader.msg # None /\ reader.ran \in Seq(Ran)
  BY <1>1, MessagesAssumption DEF Readers
<1>3. Fine(table[reader.msg.key], Registries)
  BY <1>2, ListsFine
<1> QED BY <1>1, <1>2, <1>3, MessagesAssumption DEF Fine

(* In a step of the IRC thread the list and the registries stay.            *)
LEMMA WalkStep ==
  ASSUME RInv, RegInv, Still, reader'.msg = reader.msg, reader.msg # None,
         ~overlap => Walk(reader', table[reader.msg.key], Registries)
  PROVE  WalkInv'
<1>1. table' = table /\ hooks' = hooks /\ tab' = tab /\ rxhead' = rxhead /\ overlap' = overlap
  BY DEF Still, lists
<1>2. Registries' = Registries
  BY <1>1 DEF Registries
<1> QED BY <1>1, <1>2 DEF WalkInv

LEMMA WalkStops ==
  ASSUME RInv, RegInv, WalkInv, Still, reader' = reader
  PROVE  WalkInv'
<1>1. table' = table /\ hooks' = hooks /\ tab' = tab /\ rxhead' = rxhead /\ overlap' = overlap
  BY DEF Still, lists
<1>2. Registries' = Registries
  BY <1>1 DEF Registries
<1> QED BY <1>1, <1>2 DEF WalkInv

(* Back in run_hooks, with what the entry started.                          *)
LEMMA WalkReturn ==
  ASSUME RInv, RegInv, WalkInv, Still, reader.pc # "done", NEW ran \in Seq(Ran), Return(ran),
         NEW A \in Seq(Hooks), NEW B \in Seq(Hooks),
         ~overlap => /\ table[reader.msg.key] = Around(A, reader.at, B) /\ IsInjective(Keep(ran, AllOps))
                     /\ Started(ran) = RunsOf(ToSet(A), reader.msg, Registries)
                                         \cup RunOf(reader.at, reader.msg, Registries)
  PROVE  WalkInv'
<1> DEFINE L == table[reader.msg.key]
           R == Registries
           at == reader.at
           m == reader.msg
           nx == NextOf(L, at)
<1>1. CASE at \notin ToSet(L)
  <2>1. reader' = reader
    BY <1>1 DEF Return, Stop
  <2> QED BY <2>1, WalkStops
<1>2. CASE at \in ToSet(L) /\ overlap
  <2>1. overlap'
    BY <1>2 DEF Still
  <2> QED BY <2>1 DEF WalkInv
<1>3. CASE at \in ToSet(L) /\ ~overlap
  <2>1. reader' = [reader EXCEPT !.pc = IF nx = None THEN "done" ELSE "at", !.at = nx, !.mop = None, !.ran = ran]
    BY <1>3 DEF Return
  <2>2. m # None /\ at \in Hooks /\ reader \in Readers /\ None \notin Hooks /\ L \in Seq(Hooks) /\ IsInjective(L)
    BY WalkFacts DEF Fine
  <2>3. L = Around(A, at, B) /\ IsInjective(Keep(ran, AllOps))
        /\ Started(ran) = RunsOf(ToSet(A), m, R) \cup RunOf(at, m, R)
    BY <1>3
  <2>4. /\ reader'.pc = (IF nx = None THEN "done" ELSE "at") /\ reader'.at = nx /\ reader'.ran = ran
        /\ reader'.msg = m
    BY <2>1, <2>2 DEF Readers
  <2> HIDE DEF nx, L, R, at, m
  <2>5. L = Around(A, at, B) /\ IsInjective(Keep(ran, AllOps)) /\ Started(ran) = RunsOf(ToSet(A) \cup {at}, m, R)
    <3>1. RunsOf(ToSet(A) \cup {at}, m, R) = RunsOf(ToSet(A), m, R) \cup RunOf(at, m, R)
      BY RunsMore
    <3> QED BY <2>3, <3>1
  <2>6. GoesOn(Hooks, L, ToSet(A) \cup {at}, nx)
    <3>1. IsInjective(Around(A, at, B))
      BY <2>2, <2>5
    <3>2. nx = NextOf(L, at)
      BY DEF nx
    <3> QED BY <2>2, <2>5, <3>1, <3>2, WalkOn
  <2>7. Walk(reader', L, R)
    <3>1. CASE nx = None
      BY <2>5, <2>6, <2>4, <3>1 DEF Walk, GoesOn
    <3>2. CASE nx # None
      <4>1. PICK A2 \in Seq(Hooks), B2 \in Seq(Hooks) : L = Around(A2, nx, B2) /\ ToSet(A2) = ToSet(A) \cup {at}
        BY <2>6, <3>2 DEF GoesOn
      <4>2. reader'.pc = "at"
        BY <2>4, <3>2
      <4>3. Own(reader', ToSet(A2), R)
        BY <2>5, <2>4, <4>1, <4>2 DEF Own
      <4> QED BY <2>5, <2>4, <4>1, <4>2, <4>3 DEF Walk
    <3> QED BY <3>1, <3>2
  <2> QED BY <2>2, <2>4, <2>7, WalkStep DEF L, R, m
<1> QED BY <1>1, <1>2, <1>3

(* The place of the IRC thread in its list.                                 *)
Stands(A, B) ==
  /\ table[reader.msg.key] = Around(A, reader.at, B) /\ reader.at \in ToSet(table[reader.msg.key])
  /\ reader.at \notin ToSet(A) /\ ToSet(A) \subseteq ToSet(table[reader.msg.key])
  /\ IsInjective(Keep(reader.ran, AllOps)) /\ Own(reader, ToSet(A), Registries)

LEMMA Place ==
  ASSUME RInv, RegInv, WalkInv, reader.pc # "done"
  PROVE  \E A, B \in Seq(Hooks) : ~overlap => Stands(A, B)
<1> DEFINE L == table[reader.msg.key]
           at == reader.at
<1>1. L \in Seq(Hooks) /\ IsInjective(L) /\ at \in Hooks /\ reader.msg # None /\ None \notin Hooks
  BY WalkFacts DEF Fine
<1>2. CASE overlap
  BY <1>2, EmptySeq
<1>3. CASE ~overlap
  <2>1. Walk(reader, L, Registries)
    BY <1>1, <1>3 DEF WalkInv
  <2>2. PICK A \in Seq(Hooks), B \in Seq(Hooks) : L = Around(A, at, B) /\ Own(reader, ToSet(A), Registries)
    BY <2>1 DEF Walk
  <2>3. IsInjective(Keep(reader.ran, AllOps))
    BY <2>1 DEF Walk
  <2> HIDE DEF L, at
  <2>4. at \notin ToSet(A)
    <3>1. L = Around(A, at, B) /\ IsInjective(L) /\ at \in Hooks /\ None \notin Hooks
      BY <1>1, <2>2
    <3>2. PICK nx : nx = NextOf(L, at)
      OBVIOUS
    <3>3. at \notin ToSet(A) /\ GoesOn(Hooks, L, ToSet(A) \cup {at}, nx)
      BY <3>1, <3>2, WalkOn
    <3> QED BY <3>3
  <2>5. ToSet(L) = ToSet(A) \cup {at} \cup ToSet(B)
    <3>1. ToSet(Around(A, at, B)) = ToSet(A) \cup {at} \cup ToSet(B)
      BY <1>1, AroundIs
    <3> QED BY <2>2, <3>1
  <2>6. Stands(A, B)
    BY <2>2, <2>3, <2>4, <2>5 DEF Stands, L, at
  <2> QED BY <2>6
<1> QED BY <1>2, <1>3

LEMMA WalkInto ==
  ASSUME RInv, RegInv, Still, reader.pc # "done", NEW pc \in {"hook", "cmd", "rgx"}, NEW mop, NEW ran,
         reader' = [reader EXCEPT !.pc = pc, !.mop = mop, !.ran = ran],
         NEW A \in Seq(Hooks), NEW B \in Seq(Hooks),
         ~overlap => Stands(A, B) /\ IsInjective(Keep(ran, AllOps)) /\ Own(reader', ToSet(A), Registries)
  PROVE  WalkInv'
<1>1. reader \in Readers /\ reader.msg # None
  BY WalkFacts
<1>2. reader'.pc = pc /\ reader'.msg = reader.msg /\ reader'.at = reader.at /\ reader'.ran = ran
  BY <1>1 DEF Readers
<1>3. ASSUME ~overlap PROVE Walk(reader', table[reader.msg.key], Registries)
  BY <1>2, <1>3 DEF Walk, Stands
<1> QED BY <1>1, <1>2, <1>3, WalkStep

LEMMA CallWalk ==
  ASSUME RInv, RegInv, WalkInv, Call
  PROVE  WalkInv'
<1> DEFINE at == reader.at
           L == table[reader.msg.key]
           R == Registries
           m == reader.msg
           Into(pc, mop) == reader' = [reader EXCEPT !.pc = pc, !.mop = mop] /\ UNCHANGED fault
<1>1. reader.pc = "at" /\ Still /\ reader.pc # "done"
  BY DEF Call, Still
<1>2. /\ reader \in Readers /\ at \in Hooks /\ reader.ran \in Seq(Ran)
  BY <1>1, WalkFacts
<1>3. IF at \notin ToSet(L) THEN Stop("freed hook")
      ELSE IF at.fn # "vinny" THEN Return(Append(reader.ran, at))
      ELSE IF at.fid = 0 THEN Into("cmd", get_mop(m.word))
      ELSE IF hooks[at.fid] = None THEN Stop("null rule")
      ELSE Into("hook", hooks[at.fid].mop)
  BY DEF Call
<1>4. PICK A \in Seq(Hooks), B \in Seq(Hooks) : ~overlap => Stands(A, B)
  BY <1>1, Place
<1>5. ~overlap => Started(reader.ran) = RunsOf(ToSet(A), m, R)
  BY <1>1, <1>4 DEF Stands, Own
<1>6. CASE reader' = reader
  BY <1>1, <1>6, WalkStops
<1>7. CASE at.fn # "vinny" /\ Return(Append(reader.ran, at))
  <2> DEFINE ran == Append(reader.ran, at)
  <2>1. ran \in Seq(Ran) /\ Keep(ran, AllOps) = Keep(reader.ran, AllOps) /\ Started(ran) = Started(reader.ran)
    BY <1>2, <1>7, StartedSame
  <2>2. RunOf(at, m, R) = {}
    BY <1>7 DEF RunOf
  <2>3. ~overlap => /\ L = Around(A, at, B) /\ IsInjective(Keep(ran, AllOps))
                    /\ Started(ran) = RunsOf(ToSet(A), m, R) \cup RunOf(at, m, R)
    BY <1>4, <1>5, <2>1, <2>2 DEF Stands
  <2> HIDE DEF ran
  <2> QED BY <1>1, <1>7, <2>1, <2>3, WalkReturn DEF ran
<1>8. ASSUME NEW pc \in {"hook", "cmd"}, NEW mop, Into(pc, mop),
             pc = "hook" => at.fid # 0 /\ mop = R.hooks[at.fid].mop,
             pc = "cmd" => at.fid = 0 /\ mop = CmdOf(m, R)
      PROVE  WalkInv'
  <2>1. reader' = [reader EXCEPT !.pc = pc, !.mop = mop, !.ran = reader.ran]
    BY <1>2, <1>8 DEF Readers
  <2>2. reader'.pc = pc /\ reader'.mop = mop /\ reader'.ran = reader.ran /\ reader'.at = at /\ reader'.msg = m
    BY <1>2, <2>1 DEF Readers
  <2>3. pc \in {"hook", "cmd", "rgx"} /\ pc # "rgx"
    BY <1>8
  <2>4. ~overlap => Stands(A, B) /\ IsInjective(Keep(reader.ran, AllOps)) /\ Own(reader', ToSet(A), R)
    BY <1>4, <1>5, <1>8, <2>2, <2>3 DEF Own, Stands
  <2> QED BY <1>1, <2>1, <2>3, <2>4, WalkInto
<1>9. CASE at.fid = 0 /\ Into("cmd", get_mop(m.word))
  <2>1. get_mop(m.word) = CmdOf(m, R)
    BY DEF get_mop, CmdOf, Registries
  <2> HIDE DEF Into, R
  <2> QED BY <1>8, <1>9, <2>1
<1>10. CASE at.fid # 0 /\ Into("hook", hooks[at.fid].mop)
  <2>1. hooks[at.fid].mop = R.hooks[at.fid].mop
    BY DEF Registries
  <2> HIDE DEF Into, R
  <2> QED BY <1>8, <1>10, <2>1
<1> QED BY <1>3, <1>6, <1>7, <1>9, <1>10 DEF Stop

LEMMA HookWalk ==
  ASSUME RInv, RegInv, WalkInv, spawn_hook
  PROVE  WalkInv'
<1> DEFINE at == reader.at
           o == reader.mop
           L == table[reader.msg.key]
           R == Registries
           m == reader.msg
           ran == IF HookFor(o, m) THEN Append(reader.ran, o) ELSE reader.ran
<1>1. reader.pc = "hook" /\ Still /\ reader.pc # "done"
  BY DEF spawn_hook, Still
<1>2. reader.ran \in Seq(Ran) /\ o \in AllOps /\ Fine(L, R) /\ at.fn = "vinny"
  BY <1>1, WalkFacts DEF RInv, ReadInv, Readers
<1>3. (o \in freed /\ Stop("freed rule")) \/ Return(ran)
  BY DEF spawn_hook, HookFor
<1>4. PICK A \in Seq(Hooks), B \in Seq(Hooks) : ~overlap => Stands(A, B)
  BY <1>1, Place
<1>5. ran \in Seq(Ran)
  BY <1>2, RanOps
<1>6. ASSUME ~overlap
      PROVE  /\ L = Around(A, at, B) /\ IsInjective(Keep(ran, AllOps))
             /\ Started(ran) = RunsOf(ToSet(A), m, R) \cup RunOf(at, m, R)
  <2>1. /\ Stands(A, B) /\ Started(reader.ran) = RunsOf(ToSet(A), m, R) /\ at.fid # 0 /\ o = R.hooks[at.fid].mop
    BY <1>1, <1>4, <1>6 DEF Stands, Own
  <2>2. o \notin Started(reader.ran)
    <3>1. at \in ToSet(L) /\ at \notin ToSet(A) /\ ToSet(A) \subseteq ToSet(L)
      BY <2>1 DEF Stands
    <3> HIDE DEF at, o, L, R, m
    <3>2. R.hooks[at.fid].mop \notin RunsOf(ToSet(A), m, R)
      BY <1>2, <2>1, <3>1, NewHook
    <3> QED BY <2>1, <3>2 DEF m, R, o
  <2>3. RunOf(at, m, R) = IF HookFor(o, m) THEN {o} ELSE {}
    BY <1>2, <2>1 DEF RunOf
  <2>4. L = Around(A, at, B) /\ IsInjective(Keep(reader.ran, AllOps))
    BY <2>1 DEF Stands
  <2>5. CASE HookFor(o, m)
    <3>1. IsInjective(Keep(ran, AllOps)) /\ Started(ran) = Started(reader.ran) \cup {o}
      BY <1>2, <2>2, <2>4, <2>5, StartedMore
    <3> HIDE DEF ran
    <3> QED BY <2>1, <2>3, <2>4, <2>5, <3>1
  <2>6. CASE ~HookFor(o, m)
    <3>1. ran = reader.ran
      BY <2>6
    <3> HIDE DEF ran
    <3> QED BY <2>1, <2>3, <2>4, <2>6, <3>1
  <2> QED BY <2>5, <2>6
<1> HIDE DEF ran
<1>7. CASE Return(ran)
  BY <1>1, <1>4, <1>5, <1>6, <1>7, WalkReturn
<1>8. CASE Stop("freed rule")
  BY <1>1, <1>8, WalkStops DEF Stop
<1> QED BY <1>3, <1>7, <1>8

(* The IRC thread goes on with a regex: those before it are D.              *)
LEMMA RgxWalkOn ==
  ASSUME RInv, RegInv, Still, reader.pc \in {"cmd", "rgx"}, NEW A \in Seq(Hooks), NEW B \in Seq(Hooks), NEW D,
         NEW mop, NEW ran, reader' = [reader EXCEPT !.pc = "rgx", !.mop = mop, !.ran = ran], reader.at.fid = 0,
         ~overlap => /\ Stands(A, B) /\ GoesOn(AllOps, rxhead, D, mop) /\ IsInjective(Keep(ran, AllOps))
                     /\ Started(ran) = RunsOf(ToSet(A), reader.msg, Registries) \cup CmdRuns(reader.msg, Registries)
                                         \cup RgxRuns(D, reader.msg)
  PROVE  WalkInv'
<1> DEFINE R == Registries
           m == reader.msg
<1>1. reader.pc # "done"
  OBVIOUS
<1>2. reader \in Readers /\ None \notin AllOps
  BY <1>1, WalkFacts
<1>3. reader'.pc = "rgx" /\ reader'.mop = mop /\ reader'.ran = ran /\ reader'.at.fid = 0 /\ reader'.msg = m
  BY <1>2 DEF Readers
<1>4. R.rx = rxhead
  BY DEF Registries
<1>5. ASSUME ~overlap
      PROVE  Stands(A, B) /\ IsInjective(Keep(ran, AllOps)) /\ Own(reader', ToSet(A), R)
  <2> HIDE DEF R, m
  <2>1. Tried(mop, D, R)
    <3>1. GoesOn(AllOps, rxhead, D, mop)
      BY <1>5
    <3>2. CASE mop = None
      <4>1. D = ToSet(rxhead)
        BY <3>1, <3>2 DEF GoesOn
      <4> QED BY <1>4, <3>2, <4>1 DEF Tried
    <3>3. CASE mop # None
      <4>1. PICK C \in Seq(AllOps), E \in Seq(AllOps) : rxhead = Around(C, mop, E) /\ ToSet(C) = D
        BY <3>1, <3>3 DEF GoesOn
      <4>2. R.rx = Around(C, mop, E) /\ D = ToSet(C)
        BY <1>4, <4>1
      <4> QED BY <3>3, <4>2 DEF Tried
    <3> QED BY <3>2, <3>3
  <2>2. Started(ran) = RunsOf(ToSet(A), m, R) \cup CmdRuns(m, R) \cup RgxRuns(D, m)
    BY <1>5 DEF R, m
  <2>3. Own(reader', ToSet(A), R)
    BY <1>3, <2>1, <2>2 DEF Own
  <2> QED BY <1>5, <2>3
<1>6. "rgx" \in {"hook", "cmd", "rgx"}
  OBVIOUS
<1> HIDE DEF m
<1> QED BY <1>1, <1>5, <1>6, WalkInto

(* A rule that is no hook is not among those started for entries before the *)
(* one for all PRIVMSGs.                                                    *)
LEMMA NotYet ==
  ASSUME RInv, RegInv, reader.pc # "done", reader.at.fn = "vinny", reader.at.fid = 0,
         NEW A, NEW B, Stands(A, B), NEW o, o.word # "HOOK"
  PROVE  o \notin RunsOf(ToSet(A), reader.msg, Registries)
<1> DEFINE L == table[reader.msg.key]
           at == reader.at
           R == Registries
           S == ToSet(A)
<1>1. Fine(L, R)
  BY WalkFacts
<1>2. at \in ToSet(L) /\ at \notin S /\ S \subseteq ToSet(L)
  BY DEF Stands
<1>3. at.fn = "vinny" /\ at.fid = 0
  OBVIOUS
<1> HIDE DEF L, at, R, S
<1>4. o \notin RunsOf(S, reader.msg, R)
  BY <1>1, <1>2, <1>3, NewText
<1> QED BY <1>4 DEF S, R

LEMMA CmdWalk ==
  ASSUME RInv, RegInv, WalkInv, spawn_cmd
  PROVE  WalkInv'
<1> DEFINE o == reader.mop
           R == Registries
           m == reader.msg
           mop == IF rxhead = <<>> THEN None ELSE rxhead[1]
           runs == o # None /\ OnNetwork(o, m) /\ chan_allowed(o, m.chan)
           ran == IF runs THEN Append(reader.ran, o) ELSE reader.ran
<1>1. reader.pc = "cmd" /\ Still /\ reader.pc # "done" /\ reader.pc \in {"cmd", "rgx"}
  BY DEF spawn_cmd, Still
<1>2. /\ reader.ran \in Seq(Ran) /\ o \in AllOps \cup {None} /\ reader.at.fn = "vinny" /\ None \notin AllOps
      /\ Fine(table[reader.msg.key], R)
  BY <1>1, WalkFacts DEF RInv, ReadInv, Readers
<1>3. CASE o \in freed
  <2>1. reader' = reader
    BY <1>3 DEF spawn_cmd, Stop
  <2> QED BY <1>1, <2>1, WalkStops
<1>4. CASE o \notin freed
  <2>1. reader' = [reader EXCEPT !.pc = "rgx", !.mop = mop, !.ran = ran]
    BY <1>4 DEF spawn_cmd
  <2>2. PICK A \in Seq(Hooks), B \in Seq(Hooks) : ~overlap => Stands(A, B)
    BY <1>1, Place
  <2>3. GoesOn(AllOps, rxhead, {}, mop)
    <3>1. rxhead \in Seq(AllOps)
      BY Types
    <3>2. CASE rxhead = <<>>
      <4>1. ToSet(<<>>) = {} /\ mop = None
        BY <3>2, SetOfSeq, EmptySeq DEF ToSet
      <4> QED BY <3>2, <4>1 DEF GoesOn
    <3>3. CASE rxhead # <<>>
      <4>1. mop = Head(rxhead)
        BY <3>1, <3>3, HeadTailProperties
      <4>2. Head(rxhead) \in AllOps /\ \E C, E \in Seq(AllOps) : rxhead = Around(C, Head(rxhead), E) /\ ToSet(C) = {}
        BY <3>1, <3>3, WalkStart
      <4> HIDE DEF mop
      <4> QED BY <1>2, <4>1, <4>2 DEF GoesOn
    <3> QED BY <3>2, <3>3
  <2>4. reader.at.fid = 0 \/ overlap
    BY <1>1, <2>2 DEF Stands, Own
  <2>5. ASSUME ~overlap
        PROVE  /\ Stands(A, B) /\ reader.at.fid = 0 /\ IsInjective(Keep(ran, AllOps))
               /\ Started(ran) = RunsOf(ToSet(A), m, R) \cup CmdRuns(m, R) \cup RgxRuns({}, m)
    <3>1. Stands(A, B) /\ Started(reader.ran) = RunsOf(ToSet(A), m, R) /\ reader.at.fid = 0 /\ o = CmdOf(m, R)
      BY <1>1, <2>2, <2>5 DEF Stands, Own
    <3>2. RgxRuns({}, m) = {}
      BY DEF RgxRuns
    <3>3. IsInjective(Keep(reader.ran, AllOps))
      BY <3>1 DEF Stands
    <3>4. runs <=> o # None /\ TextFor(o, m)
      BY DEF TextFor
    <3>5. CmdRuns(m, R) = IF runs THEN {o} ELSE {}
      BY <3>1, <3>4 DEF CmdRuns
    <3>6. CASE runs
      <4>1. o \in AllOps /\ o.word = "DEF"
        BY <1>2, <3>1, <3>6 DEF CmdOf, Fine
      <4>2. o \notin Started(reader.ran)
        <5> HIDE DEF o, R, m
        <5>1. o \notin RunsOf(ToSet(A), reader.msg, Registries)
          BY <1>1, <1>2, <3>1, <4>1, NotYet
        <5> QED BY <3>1, <5>1 DEF R, m
      <4>3. IsInjective(Keep(ran, AllOps)) /\ Started(ran) = Started(reader.ran) \cup {o}
        BY <1>2, <3>3, <3>6, <4>1, <4>2, StartedMore
      <4> HIDE DEF ran, runs
      <4> QED BY <3>1, <3>2, <3>5, <3>6, <4>3
    <3>7. CASE ~runs
      <4>1. ran = reader.ran
        BY <3>7
      <4> HIDE DEF ran, runs
      <4> QED BY <3>1, <3>2, <3>3, <3>5, <3>7, <4>1
    <3> QED BY <3>6, <3>7
  <2> HIDE DEF mop, ran
  <2>6. CASE overlap
    <3>1. overlap'
      BY <1>1, <2>6 DEF Still
    <3> QED BY <3>1 DEF WalkInv
  <2>7. CASE ~overlap
    <3>1. reader.at.fid = 0
      BY <2>5, <2>7
    <3> QED BY <1>1, <2>1, <2>3, <2>5, <3>1, RgxWalkOn
  <2> QED BY <2>6, <2>7
<1> QED BY <1>3, <1>4

LEMMA RgxWalk ==
  ASSUME RInv, RegInv, WalkInv, spawn_rgx
  PROVE  WalkInv'
<1> DEFINE o == reader.mop
           R == Registries
           m == reader.msg
           runs == o.key \in m.rx /\ OnNetwork(o, m) /\ chan_allowed(o, m.chan)
           ran == IF runs THEN Append(reader.ran, o) ELSE reader.ran
<1>1. reader.pc = "rgx" /\ Still /\ reader.pc # "done" /\ reader.pc \in {"cmd", "rgx"}
  BY DEF spawn_rgx, Still
<1>2. /\ reader.ran \in Seq(Ran) /\ reader.at.fn = "vinny" /\ None \notin AllOps /\ reader \in Readers
      /\ Fine(table[reader.msg.key], R) /\ rxhead \in Seq(AllOps) /\ IsInjective(rxhead)
  BY <1>1, WalkFacts, Types DEF RInv, ReadInv, RegInv, OnceInv
<1>3. PICK A \in Seq(Hooks), B \in Seq(Hooks) : ~overlap => Stands(A, B)
  BY <1>1, Place
<1>4. PICK D : ~overlap => /\ Stands(A, B) /\ reader.at.fid = 0 /\ Tried(o, D, R) /\ IsInjective(Keep(reader.ran, AllOps))
                           /\ Started(reader.ran) = RunsOf(ToSet(A), m, R) \cup CmdRuns(m, R) \cup RgxRuns(D, m)
  <2>1. CASE overlap
    BY <2>1
  <2>2. CASE ~overlap
    <3>1. Stands(A, B) /\ Own(reader, ToSet(A), R) /\ IsInjective(Keep(reader.ran, AllOps))
      BY <1>3, <2>2 DEF Stands
    <3> HIDE DEF R, m, o
    <3>2. reader.at.fid = 0 /\ \E D : /\ Tried(reader.mop, D, R)
              /\ Started(reader.ran) = RunsOf(ToSet(A), reader.msg, R) \cup CmdRuns(reader.msg, R) \cup RgxRuns(D, reader.msg)
      BY <1>1, <3>1 DEF Own
    <3> QED BY <3>1, <3>2 DEF o, m
  <2> QED BY <2>1, <2>2
<1>5. R.rx = rxhead
  BY DEF Registries
<1>6. CASE overlap
  <2>1. overlap'
    BY <1>1, <1>6 DEF Still
  <2> QED BY <2>1 DEF WalkInv
<1>7. CASE ~overlap /\ o = None
  <2>1. Return(reader.ran)
    BY <1>7 DEF spawn_rgx
  <2>2. /\ Stands(A, B) /\ reader.at.fid = 0 /\ D = ToSet(rxhead) /\ IsInjective(Keep(reader.ran, AllOps))
        /\ Started(reader.ran) = RunsOf(ToSet(A), m, R) \cup CmdRuns(m, R) \cup RgxRuns(D, m)
    BY <1>4, <1>5, <1>7 DEF Tried
  <2> HIDE DEF R, m
  <2>3. RunOf(reader.at, m, R) = CmdRuns(m, R) \cup RgxRuns(D, m)
    BY <1>2, <1>5, <2>2 DEF RunOf
  <2>4. /\ table[reader.msg.key] = Around(A, reader.at, B)
        /\ Started(reader.ran) = RunsOf(ToSet(A), m, R) \cup RunOf(reader.at, m, R)
    BY <2>2, <2>3 DEF Stands
  <2>5. Started(reader.ran) = RunsOf(ToSet(A), reader.msg, Registries) \cup RunOf(reader.at, reader.msg, Registries)
    BY <2>4 DEF m, R
  <2> QED BY <1>1, <1>2, <2>1, <2>2, <2>4, <2>5, WalkReturn
<1>8. CASE ~overlap /\ o # None /\ o \notin ToSet(rxhead)
  <2>1. reader' = reader
    BY <1>8 DEF spawn_rgx, Stop
  <2> QED BY <1>1, <2>1, WalkStops
<1>9. CASE ~overlap /\ o # None /\ o \in ToSet(rxhead)
  <2> DEFINE nx == NextOf(rxhead, o)
             DD == D \cup {o}
  <2>1. reader' = [reader EXCEPT !.mop = nx, !.ran = ran]
    BY <1>9 DEF spawn_rgx
  <2>2. reader' = [reader EXCEPT !.pc = "rgx", !.mop = nx, !.ran = ran]
    <3> HIDE DEF nx, ran
    <3> QED BY <1>1, <1>2, <2>1 DEF Readers
  <2>3. /\ Stands(A, B) /\ reader.at.fid = 0 /\ Tried(o, D, R) /\ IsInjective(Keep(reader.ran, AllOps))
        /\ Started(reader.ran) = RunsOf(ToSet(A), m, R) \cup CmdRuns(m, R) \cup RgxRuns(D, m)
    BY <1>4, <1>9
  <2>4. o \in AllOps /\ o.word = "MATCH"
    <3>1. o \in AllOps
      BY <1>2, <1>9, SetOfSeq
    <3> QED BY <1>2, <1>5, <1>9, <3>1 DEF Fine
  <2>5. PICK C \in Seq(AllOps), E \in Seq(AllOps) : rxhead = Around(C, o, E) /\ D = ToSet(C)
    BY <1>5, <1>9, <2>3 DEF Tried
  <2>6. o \notin ToSet(C) /\ GoesOn(AllOps, rxhead, ToSet(C) \cup {o}, nx)
    <3> HIDE DEF o
    <3>1. nx = NextOf(rxhead, o)
      OBVIOUS
    <3> HIDE DEF nx
    <3>2. IsInjective(Around(C, o, E))
      BY <1>2, <2>5
    <3>3. rxhead = Around(C, o, E) /\ IsInjective(rxhead) /\ None \notin AllOps /\ o \in AllOps
      BY <1>2, <2>4, <2>5
    <3> QED BY <3>1, <3>3, WalkOn
  <2>7. o \notin D /\ GoesOn(AllOps, rxhead, DD, nx)
    <3> HIDE DEF nx, o
    <3> QED BY <2>5, <2>6
  <2>8. o \notin Started(reader.ran)
    <3>1. o.word # "HOOK"
      BY <2>4
    <3>2. o \notin CmdRuns(m, R)
      <4>1. \A x \in CmdRuns(m, R) : x.word = "DEF"
        <5> HIDE DEF R, m
        <5> QED BY <1>2 DEF CmdRuns, CmdOf, Fine
      <4> QED BY <2>4, <4>1
    <3>3. o \notin RgxRuns(D, m)
      BY <2>7 DEF RgxRuns
    <3> HIDE DEF o, R, m
    <3>4. o \notin RunsOf(ToSet(A), reader.msg, Registries)
      BY <1>1, <1>2, <2>3, <3>1, NotYet
    <3> QED BY <2>3, <3>2, <3>3, <3>4 DEF R, m
  <2>9. RgxRuns(DD, m) = RgxRuns(D, m) \cup (IF runs THEN {o} ELSE {})
    BY DEF RgxRuns, TextFor
  <2>10. IsInjective(Keep(ran, AllOps)) /\ Started(ran) = Started(reader.ran) \cup (IF runs THEN {o} ELSE {})
    <3>1. CASE runs
      <4>1. /\ IsInjective(Keep(Append(reader.ran, o), AllOps))
            /\ Started(Append(reader.ran, o)) = Started(reader.ran) \cup {o}
        BY <1>2, <2>3, <2>4, <2>8, StartedMore
      <4>2. ran = Append(reader.ran, o)
        BY <3>1
      <4> HIDE DEF ran, runs
      <4> QED BY <3>1, <4>1, <4>2
    <3>2. CASE ~runs
      <4>1. ran = reader.ran
        BY <3>2
      <4> HIDE DEF ran, runs
      <4> QED BY <2>3, <3>2, <4>1
    <3> QED BY <3>1, <3>2
  <2> HIDE DEF nx, ran, runs, DD
  <2>11. Started(ran) = RunsOf(ToSet(A), m, R) \cup CmdRuns(m, R) \cup RgxRuns(DD, m)
    BY <2>3, <2>9, <2>10
  <2> QED BY <1>1, <2>2, <2>3, <2>7, <2>10, <2>11, RgxWalkOn
<1> QED BY <1>6, <1>7, <1>8, <1>9

LEMMA ReceiveWalk ==
  ASSUME RInv, RegInv, NEW m \in Messages, Receive(m)
  PROVE  WalkInv'
<1> DEFINE L == table[m.key]
           R == Registries
           e == <<>>
<1>1. /\ reader.pc = "done" /\ UNCHANGED <<seen, loaded, lists, cli>>
      /\ reader' = IF L = <<>> THEN [reader EXCEPT !.msg = m, !.ran = <<>>]
                   ELSE [reader EXCEPT !.pc = "at", !.msg = m, !.at = Head(L), !.ran = <<>>]
  BY DEF Receive
<1>2. table' = table /\ R' = R
  BY <1>1 DEF lists, Registries
<1>3. reader \in Readers /\ m.key \in Keys /\ L \in Seq(Hooks)
  BY ReaderFacts, MessagesAssumption
<1>4. /\ IsInjective(Keep(e, AllOps)) /\ Started(e) = {} /\ ToSet(e) = {}
      /\ RunsOf({}, m, R) = {}
  <2>1. Keep(e, AllOps) = e
    BY KeepEmpty
  <2>2. IsInjective(<<>>) /\ ToSet(<<>>) = {}
    BY DEF IsInjective, ToSet
  <2> QED BY <2>1, <2>2, RunsNone DEF Started
<1>5. CASE L = <<>>
  <2>1. reader' = [reader EXCEPT !.msg = m, !.ran = e]
    BY <1>1, <1>5
  <2>2. reader'.pc = "done" /\ reader'.msg = m /\ reader'.ran = e
    BY <1>1, <1>3, <2>1 DEF Readers
  <2>3. Started(e) = RunsOf(ToSet(L), m, R)
    BY <1>4, <1>5
  <2> HIDE DEF e, L, R
  <2>4. Walk(reader', L, R)
    BY <1>4, <2>2, <2>3 DEF Walk
  <2> QED BY <1>2, <2>2, <2>4 DEF WalkInv, L, R
<1>6. CASE L # <<>>
  <2> DEFINE h == Head(L)
  <2>1. reader' = [reader EXCEPT !.pc = "at", !.msg = m, !.at = h, !.ran = e]
    BY <1>1, <1>6
  <2>2. h \in Hooks /\ \E A, B \in Seq(Hooks) : L = Around(A, h, B) /\ ToSet(A) = {}
    BY <1>3, <1>6, WalkStart
  <2> HIDE DEF e, L, R, h
  <2>3. reader'.pc = "at" /\ reader'.msg = m /\ reader'.at = h /\ reader'.ran = e
    BY <1>3, <2>1 DEF Readers
  <2>4. PICK A \in Seq(Hooks), B \in Seq(Hooks) : L = Around(A, h, B) /\ ToSet(A) = {}
    BY <2>2
  <2>5. Own(reader', ToSet(A), R)
    BY <1>4, <2>3, <2>4 DEF Own
  <2>6. Walk(reader', L, R)
    BY <1>4, <2>3, <2>4, <2>5 DEF Walk
  <2> QED BY <1>2, <2>3, <2>6 DEF WalkInv, L, R
<1> QED BY <1>5, <1>6

(***************************************************************************)
(* RegInv and WalkInv hold throughout.                                     *)
(***************************************************************************)
LEMMA RunsInit == Init => RegInv /\ WalkInv
<1> SUFFICES ASSUME Init PROVE RegInv /\ WalkInv
  OBVIOUS
<1> DEFINE e == <<>>
<1>1. /\ seen = e /\ loaded = FALSE /\ hooks = [i \in 1..(Slots - 1) |-> None]
      /\ rxhead = e /\ tab = [w \in Words |-> None]
      /\ cli = [pc |-> "idle", op |-> "load", i |-> 1, todo |-> e]
      /\ reader = [pc |-> "done", msg |-> None, at |-> None, mop |-> None, ran |-> e]
  BY DEF Init
<1>2. cli.pc = "idle" /\ cli.todo = e /\ reader.msg = None
  BY <1>1
<1>3. e \in Seq(AllOps) /\ IsInjective(e) /\ e \o e = e
  BY EmptySeq, ConcatEmptySeq DEF IsInjective
<1>4. Found = e
  <2>1. [n \in DOMAIN e |-> ModOps(setup_modules(seen[n]), n)] = e
    OBVIOUS
  <2>2. FlattenSeq(<<>>) = <<>>
    BY DEF FlattenSeq
  <2> QED BY <1>1, <2>1, <2>2 DEF Found
<1>5. Commands(e)
  <2>1. \A c : FirstDef(e, c) = {}
    BY DEF FirstDef
  <2> QED BY <1>1, <2>1 DEF Commands
<1> HIDE DEF e
<1>6. CmdInv
  BY <1>2, <1>3, <1>4, <1>5 DEF CmdInv
<1>7. TodoInv
  <2>1. cli.todo = <<>>
    BY <1>2 DEF e
  <2> QED BY <2>1 DEF TodoInv
<1>8. OnceInv
  BY <1>1, <1>3 DEF OnceInv
<1>9. ConfInv
  BY <1>1, <1>2 DEF ConfInv, Configured
<1>10. WalkInv
  BY <1>2 DEF WalkInv
<1> QED BY <1>6, <1>7, <1>8, <1>9, <1>10 DEF RegInv

LEMMA RegNext == RInv /\ RegInv /\ [Next]_vars => RegInv'
<1> SUFFICES ASSUME RInv, RegInv, [Next]_vars PROVE RegInv'
  OBVIOUS
<1>1. CASE DestroyHook
  BY <1>1, DestroyHookReg
<1>2. CASE DestroyRgx
  BY <1>2, DestroyRgxReg
<1>3. CASE DestroyedHooks \/ DestroyCmds \/ RmPrivmsg \/ Close
  BY <1>3, DestroyReg
<1>4. CASE setup_vinny
  BY <1>4, SetupReg
<1>5. CASE Make
  BY <1>5, MakeReg
<1>6. CASE SetUp
  BY <1>6, SetUpReg
<1>7. ASSUME NEW op \in {"load", "unload", "reload", "reloadlib"}, Command(op)
      PROVE  RegInv'
  BY <1>7, CommandReg
<1>8. CASE Edit \/ IrcStep \/ UNCHANGED vars
  <2>1. UNCHANGED <<seen, loaded, lists, cli>>
    BY <1>8 DEF Edit, IrcStep, Call, spawn_hook, spawn_cmd, spawn_rgx, Receive, vars, lists
  <2> QED BY <2>1, RegSame
<1> QED BY <1>1, <1>2, <1>3, <1>4, <1>5, <1>6, <1>7, <1>8 DEF Next, CliStep

LEMMA WalkNext == RInv /\ RegInv /\ WalkInv /\ [Next]_vars => WalkInv'
<1> SUFFICES ASSUME RInv, RegInv, WalkInv, [Next]_vars PROVE WalkInv'
  OBVIOUS
<1>1. CASE Call
  BY <1>1, CallWalk
<1>2. CASE spawn_hook
  BY <1>2, HookWalk
<1>3. CASE spawn_cmd
  BY <1>3, CmdWalk
<1>4. CASE spawn_rgx
  BY <1>4, RgxWalk
<1>5. ASSUME NEW m \in Messages, Receive(m)
      PROVE  WalkInv'
  BY <1>5, ReceiveWalk
<1>6. CASE Edit \/ UNCHANGED vars
  <2>1. table' = table /\ hooks' = hooks /\ tab' = tab /\ rxhead' = rxhead /\ overlap' = overlap /\ reader' = reader
    BY <1>6 DEF Edit, vars, lists
  <2>2. Registries' = Registries
    BY <2>1 DEF Registries
  <2> QED BY <2>1, <2>2 DEF WalkInv
<1>7. ASSUME NEW op \in {"load", "unload", "reload", "reloadlib"}, Command(op)
      PROVE  WalkInv'
  BY <1>7 DEF Command, WalkInv
<1>8. CASE \/ DestroyHook \/ DestroyedHooks \/ DestroyRgx \/ DestroyCmds \/ RmPrivmsg
           \/ Close \/ setup_vinny \/ Make \/ SetUp
  <2>1. cli.pc # "idle" /\ overlap' = overlap
    BY <1>8 DEF DestroyHook, DestroyedHooks, DestroyRgx, DestroyCmds, RmPrivmsg, Close, setup_vinny, Make, SetUp
  <2>2. overlap
    BY <2>1, Busy
  <2> QED BY <2>1, <2>2 DEF WalkInv
<1> QED BY <1>1, <1>2, <1>3, <1>4, <1>5, <1>6, <1>7, <1>8 DEF Next, CliStep, IrcStep

LEMMA RunsInvariant == Spec => [](RInv /\ RegInv /\ WalkInv)
<1>1. Init => RInv /\ RegInv /\ WalkInv
  BY InitHolds, RunsInit
<1>2. (RInv /\ RegInv /\ WalkInv) /\ [Next]_vars => (RInv /\ RegInv /\ WalkInv)'
  BY NextKeeps, RegNext, WalkNext
<1> QED BY <1>1, <1>2, PTL DEF Spec

(* What the entries of a whole list start.                                  *)
FromSlots(m) ==
  {o \in AllOps : HookFor(o, m) /\ \E i \in 1 .. Slots - 1 : hooks[i] # None /\ hooks[i].cmd = m.key /\ o = hooks[i].mop}
FromTexts(m) ==
  IF m.key = "PRIVMSG" /\ loaded THEN CmdRuns(m, Registries) \cup RgxRuns(ToSet(rxhead), m) ELSE {}

LEMMA RunsAre ==
  ASSUME RInv, cli.pc = "idle", NEW m, m.key \in Keys
  PROVE  RunsOf(ToSet(table[m.key]), m, Registries) = FromSlots(m) \cup FromTexts(m)
<1> DEFINE k == m.key
           L == table[k]
           R == Registries
           T == CmdRuns(m, R) \cup RgxRuns(ToSet(rxhead), m)
<1>1. /\ R.hooks = hooks /\ R.rx = rxhead /\ (Hooked <=> loaded)
  BY DEF Registries, Hooked
<1>2. ToSet(L) \cap VinnyHooks = {Entry(i) : i \in Fids(k)} /\ ToSet(L) \subseteq Hooks
  BY ListFacts
<1>3. \A e \in ToSet(L) : e.fn = "vinny" <=> e \in VinnyHooks
  BY <1>2, HookKinds
<1>4. \A i : Entry(i).fn = "vinny" /\ Entry(i).fid = i
  BY DEF Entry
<1>5. 0 \notin 1 .. Slots - 1 /\ \A i \in 1 .. Slots - 1 : i # 0
  BY Types
<1>6. ASSUME NEW i \in Fids(k)
      PROVE  \A o : o \in RunOf(Entry(i), m, R) <=>
                      IF i = 0 THEN o \in T ELSE o = hooks[i].mop /\ HookFor(o, m)
  <2> DEFINE e == Entry(i)
  <2>1. e.fn = "vinny" /\ e.fid = i
    BY <1>4
  <2> HIDE DEF e, R
  <2>2. RunOf(e, m, R) = IF i = 0 THEN CmdRuns(m, R) \cup RgxRuns(ToSet(R.rx), m)
                         ELSE {o \in {R.hooks[i].mop} : HookFor(o, m)}
    BY <2>1 DEF RunOf
  <2> QED BY <1>1, <2>2 DEF e
<1>7. \A e \in ToSet(L) : e.fn # "vinny" => RunOf(e, m, R) = {}
  BY DEF RunOf
<1> HIDE DEF R
<1>8. \A o : o \in RunsOf(ToSet(L), m, R) <=> \E i \in Fids(k) : o \in RunOf(Entry(i), m, R)
  <2>1. \A o : o \in RunsOf(ToSet(L), m, R) <=> \E e \in ToSet(L) : o \in RunOf(e, m, R)
    BY DEF RunsOf
  <2>2. \A o : (\E e \in ToSet(L) : o \in RunOf(e, m, R)) <=> \E e \in ToSet(L) \cap VinnyHooks : o \in RunOf(e, m, R)
    BY <1>3, <1>7
  <2> HIDE DEF L, k
  <2> QED BY <1>2, <2>1, <2>2
<1>9. \A i : i \in Fids(k) <=> \/ i \in 1 .. Slots - 1 /\ hooks[i] # None /\ hooks[i].cmd = k
                               \/ i = 0 /\ k = "PRIVMSG" /\ loaded
  BY <1>1 DEF Fids
<1> HIDE DEF T
<1>10. ASSUME NEW o
       PROVE  o \in RunsOf(ToSet(L), m, R) <=> o \in FromSlots(m) \/ o \in FromTexts(m)
  <2>1. o \in FromTexts(m) <=> k = "PRIVMSG" /\ loaded /\ o \in T
    BY DEF FromTexts, T, R
  <2>2. o \in FromSlots(m) <=> HookFor(o, m) /\ \E i \in 1 .. Slots - 1 : hooks[i] # None /\ hooks[i].cmd = k /\ o = hooks[i].mop
    <3>1. \A i \in 1 .. Slots - 1 : hooks[i] # None => hooks[i].mop \in AllOps
      BY SlotRule
    <3> HIDE DEF k
    <3> QED BY <3>1 DEF FromSlots, k
  <2> HIDE DEF k, L
  <2> QED BY <1>5, <1>6, <1>8, <1>9, <2>1, <2>2
<1> QED BY <1>10 DEF R

LEMMA SetOfSeqFinite ==
  ASSUME NEW X, NEW s \in Seq(X)
  PROVE  IsFiniteSet(ToSet(s))
<1> DEFINE n == Len(s)
<1>1. n \in Nat /\ DOMAIN s = 1 .. n /\ s = [i \in 1 .. n |-> s[i]]
  BY LenProperties
<1> HIDE DEF n
<1>2. s \in Surjection(1 .. n, ToSet(s))
  BY <1>1 DEF Surjection, ToSet
<1>3. IsFiniteSet(1 .. n)
  <2>1. 1 \in Int /\ n \in Int
    BY <1>1
  <2> QED BY <2>1, FS_Interval
<1> QED BY <1>2, <1>3, FS_Surjection

(* If all slots are in use, by different rules, there is no other hook than *)
(* theirs among fewer than Slots.                                           *)
LEMMA SlotsFill ==
  ASSUME NEW N \in Nat \ {0}, NEW H, IsFiniteSet(H), Cardinality(H) < N,
         NEW f \in [1 .. N - 1 -> H], \A i, j \in 1 .. N - 1 : f[i] = f[j] => i = j
  PROVE  \A o \in H : \E i \in 1 .. N - 1 : o = f[i]
<1> DEFINE S == 1 .. N - 1
<1>1. IsFiniteSet(S) /\ Cardinality(S) = N - 1
  <2>1. 1 \in Int /\ N - 1 \in Int /\ (1 > N - 1 => N - 1 = 0)
    OBVIOUS
  <2>2. IsFiniteSet(1 .. N - 1) /\ Cardinality(1 .. N - 1) = IF 1 > N - 1 THEN 0 ELSE (N - 1) - 1 + 1
    BY <2>1, FS_Interval
  <2> QED BY <2>1, <2>2
<1>2. f \in Injection(S, H)
  <2>1. f \in [S -> H] /\ \A i, j \in S : f[i] = f[j] => i = j
    OBVIOUS
  <2> HIDE DEF S
  <2> QED BY <2>1 DEF Injection, IsInjective
<1> HIDE DEF S
<1>3. Cardinality(S) <= Cardinality(H) /\ (Cardinality(S) = Cardinality(H) <=> f \in Surjection(S, H))
  BY <1>2, FS_Injection
<1>4. Cardinality(H) \in Nat
  BY FS_CardinalityType
<1>5. f \in Surjection(S, H)
  BY <1>1, <1>3, <1>4
<1> QED BY <1>5 DEF Surjection, S

(* What is configured is what is made.                                      *)
LEMMA AllMade ==
  ASSUME RInv, RegInv, cli.pc = "idle", loaded
  PROVE  LET last == ModOps(Executable(seen[Len(seen)]), Len(seen))
         IN  /\ ToSet(rxhead) = {o \in ToSet(last) : o.word = "MATCH"}
             /\ \A i \in 1 .. Slots - 1 : hooks[i] # None => hooks[i].mop \in ToSet(last)
             /\ Cardinality({o \in ToSet(last) : o.word = "HOOK"}) < Slots =>
                  \A o \in ToSet(last) : o.word = "HOOK" => \E i \in 1 .. Slots - 1 : hooks[i] # None /\ hooks[i].mop = o
<1> DEFINE last == ModOps(Executable(seen[Len(seen)]), Len(seen))
           H == {o \in ToSet(last) : o.word = "HOOK"}
<1>1. cli.todo = <<>>
  BY DEF RegInv, TodoInv
<1>2. PICK L \in Seq(AllOps) : LastFound = L \o cli.todo /\ Made(L)
  BY DEF RegInv, ConfInv, Configured
<1>3. seen \in Seq(Trees) /\ Len(seen) \in Nat /\ seen # <<>> /\ Len(seen) <= MaxSetups /\ MaxSetups \in Nat
  BY Types DEF RegInv, ConfInv, Configured, RInv, SlotInv
<1>4. LastFound = L
  BY <1>1, <1>2, ConcatEmptySeq
<1>5. seen[Len(seen)] \in Trees /\ Len(seen) \in 1 .. MaxSetups
  <2>1. Len(seen) # 0
    BY <1>3, EmptySeq
  <2>2. Len(seen) \in 1 .. Len(seen) /\ Len(seen) \in 1 .. MaxSetups
    BY <1>3, <2>1
  <2> QED BY <1>3, <2>2, ElementOfSeq
<1>6. ToSet(last) = ToSet(L)
  <2>1. ToSet(last) = ToSet(LastFound)
    BY <1>5, RulesToMake DEF LastFound
  <2> QED BY <1>4, <2>1
<1> HIDE DEF last
<1>7. /\ ToSet(rxhead) = {o \in ToSet(last) : o.word = "MATCH"}
      /\ \A i \in 1 .. Slots - 1 : hooks[i] # None => hooks[i].mop \in ToSet(last)
      /\ ccount < Slots => \A o \in ToSet(last) : o.word = "HOOK" =>
                               \E i \in 1 .. Slots - 1 : hooks[i] # None /\ hooks[i].mop = o
  BY <1>2, <1>6 DEF Made
<1>8. ASSUME Cardinality(H) < Slots, ccount >= Slots
      PROVE  \A o \in H : \E i \in 1 .. Slots - 1 : hooks[i] # None /\ hooks[i].mop = o
  <2> DEFINE f == [i \in 1 .. Slots - 1 |-> hooks[i].mop]
  <2>1. ccount = Slots /\ Slots \in Nat \ {0}
    BY <1>8, Types, CountsAssumption
  <2>2. \A i \in 1 .. Slots - 1 : hooks[i] # None
    BY <2>1 DEF RInv, SlotInv
  <2>3. \A i \in 1 .. Slots - 1 : hooks[i].mop \in H
    BY <1>7, <2>2 DEF RInv, RuleInv
  <2>4. f \in [1 .. Slots - 1 -> H]
    <3> HIDE DEF H
    <3> QED BY <2>3
  <2>5. \A i, j \in 1 .. Slots - 1 : f[i] = f[j] => i = j
    BY <2>2 DEF RegInv, OnceInv
  <2>6. IsFiniteSet(H)
    <3>1. IsFiniteSet(ToSet(L)) /\ H \subseteq ToSet(L)
      BY <1>6, SetOfSeqFinite
    <3> HIDE DEF H
    <3> QED BY <3>1, FS_Subset
  <2>7. \A i \in 1 .. Slots - 1 : f[i] = hooks[i].mop
    OBVIOUS
  <2> HIDE DEF H, f
  <2>8. \A o \in H : \E i \in 1 .. Slots - 1 : o = f[i]
    BY <1>8, <2>1, <2>4, <2>5, <2>6, SlotsFill
  <2> QED BY <2>2, <2>7, <2>8
<1>9. ASSUME Cardinality(H) < Slots, NEW o \in ToSet(last), o.word = "HOOK"
      PROVE  \E i \in 1 .. Slots - 1 : hooks[i] # None /\ hooks[i].mop = o
  <2>1. CASE ccount < Slots
    BY <1>7, <1>9, <2>1
  <2>2. CASE ccount >= Slots
    <3>1. o \in H
      BY <1>9
    <3> HIDE DEF H
    <3> QED BY <1>8, <1>9, <2>2, <3>1
  <2>3. ccount \in Nat /\ Slots \in Nat
    BY Types
  <2> QED BY <2>1, <2>2, <2>3
<1>10. Cardinality(H) < Slots => \A o \in ToSet(last) : o.word = "HOOK" => \E i \in 1 .. Slots - 1 : hooks[i] # None /\ hooks[i].mop = o
  BY <1>9
<1> QED BY <1>7, <1>10 DEF last

(* The rule of a word is the one FirstDef gives.                            *)
LEMMA CommandIs ==
  ASSUME RInv, RegInv, cli.pc = "idle", NEW w \in Words
  PROVE  FirstDef(Found, w[2]) = (IF tab[w] = None THEN {} ELSE {tab[w]}) /\ (tab[w] # None => tab[w].word = "DEF")
<1>1. cli.todo = <<>>
  BY DEF RegInv, TodoInv
<1>2. PICK M \in Seq(AllOps) : Found = M \o cli.todo /\ Commands(M)
  BY DEF RegInv, CmdInv
<1>3. Found = M
  BY <1>1, <1>2, ConcatEmptySeq
<1> QED BY <1>2, <1>3 DEF Commands, RInv, RuleInv

(* A message that is done with: what ran is what the whole list starts.     *)
LEMMA AllRan ==
  ASSUME RInv, RegInv, WalkInv, reader.pc = "done", reader.msg # None, ~overlap
  PROVE  /\ cli.pc = "idle" /\ reader.msg \in Messages /\ reader.msg.key \in Keys
         /\ IsInjective(Keep(reader.ran, AllOps))
         /\ ToSet(Keep(reader.ran, AllOps)) = FromSlots(reader.msg) \cup FromTexts(reader.msg)
<1> DEFINE m == reader.msg
<1>1. cli.pc = "idle" /\ reader.ran \in Seq(Ran) /\ m \in Messages /\ m.key \in Keys
  BY ReaderFacts, MessagesAssumption DEF Readers
<1>2. IsInjective(Keep(reader.ran, AllOps)) /\ Started(reader.ran) = RunsOf(ToSet(table[m.key]), m, Registries)
  BY DEF WalkInv, Walk
<1>3. ToSet(Keep(reader.ran, AllOps)) = Started(reader.ran)
  BY <1>1, SetOfKeep DEF Started
<1>4. RunsOf(ToSet(table[m.key]), m, Registries) = FromSlots(m) \cup FromTexts(m)
  <2> HIDE DEF m
  <2> QED BY <1>1, RunsAre
<1> QED BY <1>1, <1>2, <1>3, <1>4

LEMMA NothingRan ==
  ASSUME RInv, RegInv, WalkInv, reader.pc = "done", reader.msg # None, ~overlap, ~loaded
  PROVE  Keep(reader.ran, AllOps) = <<>>
<1> DEFINE s == Keep(reader.ran, AllOps)
<1>1. \A i \in 1 .. Slots - 1 : hooks[i] = None
  <2>1. ccount = 1
    BY DEF RInv, SlotInv, Emptied
  <2>2. \A i \in 1 .. Slots - 1 : ~(i < 1)
    OBVIOUS
  <2> QED BY <2>1, <2>2 DEF RInv, SlotInv
<1>2. ToSet(s) = {}
  BY <1>1, AllRan DEF FromSlots, FromTexts
<1>3. s \in Seq(Ran)
  BY ReaderFacts, KeepType DEF Readers
<1> HIDE DEF s
<1>4. DOMAIN s = {} /\ DOMAIN s = 1 .. Len(s) /\ Len(s) \in Nat
  <2>1. \A i \in DOMAIN s : s[i] \in ToSet(s)
    BY DEF ToSet
  <2> QED BY <1>2, <1>3, <2>1, LenProperties
<1>5. Len(s) = 0
  BY <1>4
<1> QED BY <1>3, <1>5, EmptySeq DEF s

LEMMA RunsRight == RInv /\ RegInv /\ WalkInv => RunsAsConfigured
<1> SUFFICES ASSUME RInv, RegInv, WalkInv, reader.pc = "done", reader.msg # None, ~overlap
             PROVE  RunsAsConfigured
  BY DEF RunsAsConfigured
<1> DEFINE m == reader.msg
           last == ModOps(Executable(seen[Len(seen)]), Len(seen))
           hookable == {mop \in ToSet(last) : mop.word = "HOOK" /\ mop.key = m.key}
           For(mop) == /\ mop.cid \in {AnyNetwork, m.cid}
                       /\ mop.chans # {} => m.chan \in mop.chans \/ (mop.word = "HOOK" /\ m.chan \notin Channels)
           texts == IF m.key # "PRIVMSG" THEN {}
                    ELSE {mop \in ToSet(last) : mop.word = "MATCH" /\ mop.key \in m.rx}
                             \cup (IF m.word \in Words THEN FirstDef(Found, m.word[2]) ELSE {})
           ran == Keep(reader.ran, AllOps)
           room == Cardinality({mop \in ToSet(last) : mop.word = "HOOK"}) < Slots
           rgx == RgxRuns(ToSet(rxhead), m)
           cmd == CmdRuns(m, Registries)
<1>1. /\ cli.pc = "idle" /\ IsInjective(ran) /\ ToSet(ran) = FromSlots(m) \cup FromTexts(m)
  BY AllRan
<1>2. ~loaded => ran = <<>>
  BY NothingRan
<1>3. \A o : o.word = "HOOK" => (HookFor(o, m) <=> For(o))
  BY DEF HookFor, OnNetwork, chan_allowed
<1>4. \A o : o.word \in {"MATCH", "DEF"} => (TextFor(o, m) <=> For(o))
  BY DEF TextFor, OnNetwork, chan_allowed
<1> HIDE DEF For
<1>5. ASSUME loaded
      PROVE  /\ \A o \in FromSlots(m) : o \in hookable /\ For(o)
             /\ room => \A o \in hookable : For(o) => o \in FromSlots(m)
  <2>1. /\ \A i \in 1 .. Slots - 1 : hooks[i] # None => hooks[i].mop \in ToSet(last)
        /\ room => \A o \in ToSet(last) : o.word = "HOOK" =>
                       \E i \in 1 .. Slots - 1 : hooks[i] # None /\ hooks[i].mop = o
    BY <1>1, <1>5, AllMade
  <2>2. \A i \in 1 .. Slots - 1 : hooks[i] # None =>
           hooks[i].mop.word = "HOOK" /\ hooks[i].mop.key = hooks[i].cmd /\ hooks[i].mop \in AllOps
    BY SlotRule DEF RInv, RuleInv
  <2> HIDE DEF last, room, m
  <2>3. ASSUME NEW o \in FromSlots(m) PROVE o \in hookable /\ For(o)
    <3>1. PICK i \in 1 .. Slots - 1 : hooks[i] # None /\ hooks[i].cmd = m.key /\ o = hooks[i].mop /\ HookFor(o, m)
      BY DEF FromSlots
    <3> QED BY <1>3, <2>1, <2>2, <3>1
  <2>4. ASSUME room, NEW o \in hookable, For(o) PROVE o \in FromSlots(m)
    <3>1. PICK i \in 1 .. Slots - 1 : hooks[i] # None /\ hooks[i].mop = o
      BY <2>1, <2>4
    <3>2. hooks[i].cmd = m.key /\ o \in AllOps /\ HookFor(o, m)
      BY <1>3, <2>2, <2>4, <3>1
    <3> QED BY <3>1, <3>2 DEF FromSlots
  <2> QED BY <2>3, <2>4
<1>6. ASSUME loaded, m.key = "PRIVMSG"
      PROVE  rgx = {o \in ToSet(last) : o.word = "MATCH" /\ o.key \in m.rx /\ For(o)}
  <2>1. ToSet(rxhead) = {o \in ToSet(last) : o.word = "MATCH"}
    BY <1>1, <1>6, AllMade
  <2> HIDE DEF last, m
  <2> QED BY <1>4, <2>1 DEF RgxRuns
<1>7. cmd = {o \in (IF m.word \in Words THEN FirstDef(Found, m.word[2]) ELSE {}) : For(o)}
  <2>1. \A w \in Words : /\ FirstDef(Found, w[2]) = (IF tab[w] = None THEN {} ELSE {tab[w]})
                         /\ tab[w] # None => tab[w].word = "DEF"
    BY <1>1, CommandIs
  <2> HIDE DEF m
  <2>2. cmd = {o \in {IF m.word \in Words THEN tab[m.word] ELSE None} : o # None /\ TextFor(o, m)}
    BY DEF CmdRuns, CmdOf, Registries
  <2>3. CASE m.word \in Words
    <3>1. cmd = {o \in {tab[m.word]} : o # None /\ TextFor(o, m)}
      BY <2>2, <2>3
    <3> DEFINE t == tab[m.word]
               F == FirstDef(Found, m.word[2])
    <3>2. F = (IF t = None THEN {} ELSE {t}) /\ (t # None => (TextFor(t, m) <=> For(t)))
      BY <1>4, <2>1, <2>3
    <3> HIDE DEF cmd, t, F
    <3>3. cmd = {o \in F : For(o)}
      BY <3>1, <3>2 DEF t
    <3> QED BY <2>3, <3>3 DEF F
  <2>4. CASE m.word \notin Words
    BY <2>2, <2>4
  <2> QED BY <2>3, <2>4
<1>8. FromTexts(m) = IF m.key = "PRIVMSG" /\ loaded THEN cmd \cup rgx ELSE {}
  BY DEF FromTexts
<1> HIDE DEF rgx, cmd, ran, last, room, m
<1>9. ASSUME loaded PROVE FromTexts(m) = {o \in texts : For(o)}
  <2>1. CASE m.key = "PRIVMSG"
    BY <1>6, <1>7, <1>8, <1>9, <2>1
  <2>2. CASE m.key # "PRIVMSG"
    BY <1>8, <2>2
  <2> QED BY <2>1, <2>2
<1> HIDE DEF texts, hookable
<1>10. ASSUME loaded
       PROVE  /\ ToSet(ran) \subseteq {mop \in hookable \cup texts : For(mop)}
              /\ {mop \in texts : For(mop)} \subseteq ToSet(ran)
              /\ room => {mop \in hookable : For(mop)} \subseteq ToSet(ran)
  BY <1>1, <1>5, <1>9, <1>10
<1>11. /\ IsInjective(ran)
       /\ ~loaded => ran = <<>>
       /\ loaded => /\ ToSet(ran) \subseteq {mop \in hookable \cup texts : For(mop)}
                    /\ {mop \in texts : For(mop)} \subseteq ToSet(ran)
                    /\ room => {mop \in hookable : For(mop)} \subseteq ToSet(ran)
  BY <1>1, <1>2, <1>10
<1> QED BY <1>11 DEF RunsAsConfigured, hookable, texts, ran, last, room, m, For

(***************************************************************************)
(* README:35-48, 105-119; src/irc/hooks.c:127-158 and to_vinny,            *)
(* spawn_hook, spawn_cmd and spawn_rgx of vinny: a message that no command *)
(* at the command line interrupted has started, once each, the programs of *)
(* the hooks and regexes found at the last setup that are for it, its      *)
(* network and its channel, all of the hooks as long as there are slots,   *)
(* and the program that made its command first; none once vinny is         *)
(* unloaded.                                                               *)
(***************************************************************************)
THEOREM RunsWhatIsConfigured == Spec => []RunsAsConfigured
<1> QED BY RunsInvariant, RunsRight, PTL
=============================================================================
