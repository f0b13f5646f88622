---------------------------- MODULE Text_proofs ----------------------------
(***************************************************************************)
(* Theorems about VinnyText and IrcParser: delistify of parser.c cuts      *)
(* every list without quotes, of any length, where it should and never     *)
(* writes behind its array; the watcher makes every line a program writes  *)
(* one operation, and process_op acts on it; the functions of ircparser.c  *)
(* find the parts of every line, and mkargv fills an argv with them.  The  *)
(* inputs of MCText are instances.                                         *)
(*                                                                         *)
(* The operators are folds: LEMMA FoldExists says that the function a fold *)
(* chooses is there, so that its steps can be taken one by one.            *)
(***************************************************************************)
EXTENDS MCText, InductionLemmas

(* The greatest number of an interval's subset is there.                    *)
LEMMA MaxIn ==
  ASSUME NEW n \in Nat, NEW t \in SUBSET (1 .. n), t # {}
  PROVE  Max(t) \in t /\ \A y \in t : y <= Max(t)
<1> DEFINE T == {n - x : x \in t}
<1>1. T \in SUBSET Nat /\ T # {}
  <2>1. ASSUME NEW x \in t PROVE n - x \in Nat
    <3>1. x \in 1 .. n
      OBVIOUS
    <3> QED BY <3>1
  <2>2. T # {}
    OBVIOUS
  <2> QED BY <2>1, <2>2
<1>2. PICK m \in T : \A k \in T : m <= k
  BY <1>1, LeastNat
<1>3. PICK x \in t : m = n - x
  BY <1>2
<1>4. \A y \in t : x >= y
  <2> SUFFICES ASSUME NEW y \in t PROVE x >= y
    OBVIOUS
  <2>1. m <= n - y
    BY <1>2
  <2> QED BY <2>1, <1>3
<1>5. \E z \in t : \A y \in t : z >= y
  BY <1>4
<1>6. Max(t) \in t /\ \A y \in t : Max(t) >= y
  BY <1>5 DEF Max
<1> QED BY <1>6

(* The least number of a set of them is there.                             *)
LEMMA MinIn ==
  ASSUME NEW t \in SUBSET Nat, t # {}
  PROVE  Min(t) \in t /\ \A y \in t : Min(t) <= y
<1>1. \E m \in t : \A y \in t : m =< y
  BY LeastNat
<1> QED BY <1>1 DEF Min

(* The greatest number of a set of positions is the one no other is above. *)
LEMMA MaxIs ==
  ASSUME NEW n \in Nat, NEW t \in SUBSET (1 .. n), NEW m \in t, \A y \in t : y <= m
  PROVE  Max(t) = m
<1>1. t # {}
  OBVIOUS
<1>2. Max(t) \in t /\ \A y \in t : y <= Max(t)
  BY <1>1, MaxIn
<1>3. Max(t) <= m /\ m <= Max(t)
  BY <1>2
<1>4. Max(t) \in 1 .. n /\ m \in 1 .. n
  BY <1>2
<1> QED BY <1>3, <1>4

(* The least number of a set is the one no other is below.                 *)
LEMMA MinIs ==
  ASSUME NEW t \in SUBSET Nat, NEW m \in t, \A y \in t : m <= y
  PROVE  Min(t) = m
<1>1. t # {}
  OBVIOUS
<1>2. Min(t) \in t /\ \A y \in t : Min(t) <= y
  BY <1>1, MinIn
<1>3. Min(t) <= m /\ m <= Min(t)
  BY <1>2
<1>4. Min(t) \in Nat /\ m \in Nat
  BY <1>2
<1> QED BY <1>3, <1>4

(* A fold takes the greatest position last: its values are a function of    *)
(* sets of positions, which exists if the steps of G stay in X.              *)
Folding(g, n, base, G) ==
  g = [t \in SUBSET (1 .. n) |-> IF t = {} THEN base ELSE G[<<Max(t), g[t \ {Max(t)}]>>]]

(* The function a fold of the code model chooses exists, and its values are*)
(* states.                                                                 *)
LEMMA FoldExists ==
  ASSUME NEW n \in Nat, NEW X, NEW base \in X, NEW G,
         \A i \in 1 .. n : \A x \in X : G[<<i, x>>] \in X
  PROVE  \E g : Folding(g, n, base, G) /\ \A t \in SUBSET (1 .. n) : g[t] \in X
<1> DEFINE W == SUBSET (1 .. n)
           F == [W -> X]
           N == 1 .. n
           HH == [i \in N |-> [h \in F |-> [t \in W |-> IF i \in t THEN G[<<i, h[t]>>] ELSE h[t]]]]
           b == [t \in W |-> base]
<1>1. b \in F
  OBVIOUS
<1>2. ASSUME NEW i \in 1 .. n, NEW h \in F
      PROVE  /\ HH[i][h] = [t \in W |-> IF i \in t THEN G[<<i, h[t]>>] ELSE h[t]]
             /\ HH[i][h] \in F
  <2>1. HH[i][h] = [t \in W |-> IF i \in t THEN G[<<i, h[t]>>] ELSE h[t]]
    OBVIOUS
  <2>2. ASSUME NEW t \in W PROVE (IF i \in t THEN G[<<i, h[t]>>] ELSE h[t]) \in X
    <3>1. h[t] \in X
      OBVIOUS
    <3>2. G[<<i, h[t]>>] \in X
      BY <3>1
    <3> QED BY <3>1, <3>2
  <2> HIDE DEF HH
  <2>3. [t \in W |-> IF i \in t THEN G[<<i, h[t]>>] ELSE h[t]] \in F
    BY <2>2
  <2> QED BY <2>1, <2>3
<1> HIDE DEF HH
<1>3. PICK R : Staging(R, n, b, HH) /\ \A i \in 0 .. n : R[i] \in F
  <2> DEFINE Q == [i \in 0 .. n |-> F]
  <2>1. b \in Q[0] /\ \A i \in 1 .. n : \A x \in Q[i - 1] : HH[i][x] \in Q[i]
    <3>1. \A i \in 1 .. n : i - 1 \in 0 .. n /\ i \in 0 .. n /\ 0 \in 0 .. n
      OBVIOUS
    <3>2. 0 \in 0 .. n
      OBVIOUS
    <3> QED BY <1>1, <1>2, <3>1, <3>2
  <2>2. \E f : Staging(f, n, b, HH) /\ \A i \in 0 .. n : f[i] \in Q[i]
    <3> HIDE DEF F, b, Q
    <3> QED BY <2>1, StagedRec
  <2>3. \A i \in 0 .. n : Q[i] = F
    OBVIOUS
  <2> HIDE DEF Q, F
  <2> QED BY <2>2, <2>3
<1>4. R[0] = b /\ \A i \in 1 .. n : \A t \in W :
         R[i][t] = IF i \in t THEN G[<<i, R[i - 1][t]>>] ELSE R[i - 1][t]
  <2>1. R[0] = b
    BY <1>3 DEF Staging
  <2>2. ASSUME NEW i \in 1 .. n PROVE R[i] = HH[i][R[i - 1]] /\ R[i - 1] \in F
    <3>1. i \in 0 .. n /\ i # 0 /\ i - 1 \in 0 .. n
      OBVIOUS
    <3>2. R = [k \in 0 .. n |-> IF k = 0 THEN b ELSE HH[k][R[k - 1]]]
      BY <1>3 DEF Staging
    <3> HIDE DEF b, F
    <3>3. R[i] = HH[i][R[i - 1]]
      BY <3>1, <3>2
    <3> QED BY <1>3, <3>1, <3>3
  <2>3. ASSUME NEW i \in 1 .. n, NEW t \in W
        PROVE  R[i][t] = IF i \in t THEN G[<<i, R[i - 1][t]>>] ELSE R[i - 1][t]
    <3>1. R[i] = [u \in W |-> IF i \in u THEN G[<<i, R[i - 1][u]>>] ELSE R[i - 1][u]]
      BY <1>2, <2>2
    <3> QED BY <3>1
  <2> QED BY <2>1, <2>3
<1> HIDE DEF b
<1>5. ASSUME NEW t \in W, NEW m \in 0 .. n, \A y \in t : y <= m
      PROVE  R[n][t] = R[m][t]
  \* Positions that are not in a set leave its value.
  <2> DEFINE T == {k \in Nat : m + k \in 0 .. n => R[m + k][t] = R[m][t]}
  <2>1. 0 \in T
    OBVIOUS
  <2>2. ASSUME NEW k \in Nat, k \in T PROVE k + 1 \in T
    <3>1. SUFFICES ASSUME m + (k + 1) \in 0 .. n PROVE R[m + (k + 1)][t] = R[m][t]
      OBVIOUS
    <3>2. m + k \in 0 .. n /\ m + (k + 1) \in 1 .. n /\ (m + (k + 1)) - 1 = m + k
      BY <3>1
    <3>3. m + (k + 1) \notin t
      BY <1>5
    <3>4. R[m + k][t] = R[m][t]
      BY <2>2, <3>2
    <3>5. R[m + (k + 1)][t] = R[(m + (k + 1)) - 1][t]
      <4> HIDE DEF W
      <4> QED BY <1>4, <3>2, <3>3
    <3> QED BY <3>2, <3>4, <3>5
  <2>3. \A k \in Nat : k \in T
    <3> HIDE DEF T
    <3> QED BY <2>1, <2>2, NatInd
  <2>4. n - m \in Nat /\ m + (n - m) = n
    OBVIOUS
  <2> QED BY <2>3, <2>4
<1>6. ASSUME NEW t \in W, NEW m \in 1 .. n
      PROVE  R[m - 1][t] = R[m - 1][t \ {m}]
  <2> DEFINE Same(k) == R[k][t] = R[k][t \ {m}]
             T == {k \in Nat : k \in 0 .. (m - 1) => Same(k)}
  <2>1. 0 \in T
    <3>1. R[0][t] = base /\ R[0][t \ {m}] = base
      <4>1. t \ {m} \in W
        OBVIOUS
      <4>2. \A u \in W : b[u] = base
        BY DEF b
      <4> QED BY <1>4, <4>1, <4>2
    <3> QED BY <3>1
  <2>2. ASSUME NEW k \in Nat, k \in T, k + 1 \in 0 .. (m - 1)
        PROVE  Same(k + 1)
    <3>1. k \in 0 .. (m - 1) /\ k + 1 \in 1 .. n /\ (k + 1) - 1 = k /\ k + 1 # m
      BY <2>2
    <3>2. R[k][t] = R[k][t \ {m}]
      BY <2>2, <3>1
    <3>3. t \ {m} \in W /\ (k + 1 \in t <=> k + 1 \in t \ {m})
      BY <3>1
    <3> DEFINE u == t \ {m}
    <3>4. R[k + 1][t] = IF k + 1 \in t THEN G[<<k + 1, R[(k + 1) - 1][t]>>] ELSE R[(k + 1) - 1][t]
      BY <1>4, <3>1
    <3>5. R[k + 1][u] = IF k + 1 \in u THEN G[<<k + 1, R[(k + 1) - 1][u]>>] ELSE R[(k + 1) - 1][u]
      <4> HIDE DEF u, W
      <4>1. u \in W
        BY <3>3 DEF u
      <4> QED BY <1>4, <3>1, <4>1
    <3> HIDE DEF u
    <3> QED BY <3>1, <3>2, <3>3, <3>4, <3>5 DEF u
  <2>3. \A k \in Nat : k \in T
    <3>1. \A k \in Nat : k \in T => k + 1 \in T
      <4> HIDE DEF Same
      <4> QED BY <2>2
    <3> HIDE DEF T
    <3> QED BY <2>1, <3>1, NatInd
  <2>4. m - 1 \in Nat /\ m - 1 \in 0 .. (m - 1)
    OBVIOUS
  <2> QED BY <2>3, <2>4
<1>7. \A t \in W : R[n][t] \in X
  <2>1. n \in 0 .. n
    OBVIOUS
  <2> QED BY <1>3, <2>1
<1>8. ASSUME NEW t \in W
      PROVE  R[n][t] = IF t = {} THEN base ELSE G[<<Max(t), R[n][t \ {Max(t)}]>>]
  <2>1. CASE t = {}
    <3>1. R[n][t] = R[0][t]
      BY <1>5, <2>1
    <3> QED BY <1>4, <2>1, <3>1 DEF b
  <2>2. CASE t # {}
    <3> DEFINE m == Max(t)
    <3>1. m \in t /\ (\A y \in t : y <= m) /\ m \in 1 .. n /\ m \in 0 .. n
      <4>1. m \in t /\ \A y \in t : y <= m
        BY <2>2, MaxIn
      <4>2. m \in 1 .. n
        BY <4>1
      <4> HIDE DEF m
      <4> QED BY <4>1, <4>2
    <3> HIDE DEF m
    <3>2. R[n][t] = R[m][t]
      BY <1>5, <3>1
    <3>3. R[m][t] = G[<<m, R[m - 1][t]>>]
      BY <1>4, <3>1
    <3>4. t \ {m} \in W /\ m - 1 \in 0 .. n /\ \A y \in t \ {m} : y <= m - 1
      BY <3>1
    <3>5. R[n][t \ {m}] = R[m - 1][t \ {m}]
      BY <1>5, <3>4
    <3>6. R[m - 1][t] = R[m - 1][t \ {m}]
      BY <1>6, <3>1
    <3> QED BY <2>2, <3>2, <3>3, <3>5, <3>6 DEF m
  <2> QED BY <2>1, <2>2
<1>9. R[n] \in F
  <2>1. n \in 0 .. n
    OBVIOUS
  <2> QED BY <1>3, <2>1
<1>10. Folding(R[n], n, base, G)
  <2>1. R[n] = [t \in W |-> R[n][t]]
    BY <1>9
  <2>2. [t \in W |-> R[n][t]] = [t \in W |-> IF t = {} THEN base ELSE G[<<Max(t), R[n][t \ {Max(t)}]>>]]
    BY <1>8
  <2> QED BY <2>1, <2>2 DEF Folding
<1> QED BY <1>7, <1>10

(* The positions up to k, taken off from the last.                          *)
LEMMA Positions ==
  ASSUME NEW n \in Nat
  PROVE  /\ \A k \in 1 .. n : /\ 1 .. k \in SUBSET (1 .. n) /\ 1 .. k # {}
                              /\ Max(1 .. k) = k /\ (1 .. k) \ {k} = 1 .. (k - 1)
         /\ 1 .. 0 = {}
<1>1. ASSUME NEW k \in 1 .. n
      PROVE  /\ 1 .. k \in SUBSET (1 .. n) /\ 1 .. k # {}
             /\ Max(1 .. k) = k /\ (1 .. k) \ {k} = 1 .. (k - 1)
  <2>1. 1 .. k \in SUBSET (1 .. n) /\ 1 .. k # {}
    OBVIOUS
  <2>2. k \in 1 .. k /\ \A y \in 1 .. k : y <= k
    OBVIOUS
  <2>3. Max(1 .. k) = k
    BY <2>1, <2>2, MaxIs
  <2> QED BY <2>1, <2>3
<1> QED BY <1>1

Modes == Quotes \cup {"none", "after"}
ItemState(C) == [q : Modes, skip : BOOLEAN, item : Seq(C), items : Seq(Seq(C))]
NoItem == [q |-> "none", skip |-> FALSE, item |-> <<>>, items |-> <<>>]

(* The second scan of delistify goes from one position to the next.        *)
LEMMA ItemsFold ==
  ASSUME NEW C, NEW s \in Seq(C)
  PROVE  \E r : /\ r[0] = NoItem
                /\ \A k \in 1 .. Len(s) : r[k] = ItemStep(s, r[k - 1], k)
                /\ Items(s) = Append(r[Len(s)].items, r[Len(s)].item)
<1> DEFINE n == Len(s)
           id == [i \in DOMAIN s |-> i]
           G == [p \in (1 .. n) \X ItemState(C) |-> ItemStep(s, p[2], p[1])]
           P(h) == h = [t \in SUBSET (1 .. n) |->
                          IF t = {} THEN NoItem ELSE ItemStep(s, h[t \ {Max(t)}], id[Max(t)])]
<1>0. n \in Nat /\ DOMAIN s = 1 .. n
  OBVIOUS
<1>1. ASSUME NEW i \in 1 .. n, NEW x \in ItemState(C)
      PROVE  G[<<i, x>>] = ItemStep(s, x, i) /\ G[<<i, x>>] \in ItemState(C)
  <2>1. G[<<i, x>>] = ItemStep(s, x, i)
    <3>1. <<i, x>> \in (1 .. n) \X ItemState(C) /\ <<i, x>>[1] = i /\ <<i, x>>[2] = x
      OBVIOUS
    <3> QED BY <3>1
  <2>2. s[i] \in C
    BY <1>0
  <2>3. Append(x.item, s[i]) \in Seq(C) /\ Append(x.items, x.item) \in Seq(Seq(C))
    <3>1. x.item \in Seq(C) /\ x.items \in Seq(Seq(C))
      BY DEF ItemState
    <3> QED BY <2>2, <3>1, AppendProperties
  <2>4. /\ x.q \in Modes /\ x.skip \in BOOLEAN /\ x.item \in Seq(C) /\ x.items \in Seq(Seq(C))
        /\ <<>> \in Seq(C)
    BY EmptySeq DEF ItemState, Modes
  <2>6. /\ [x EXCEPT !.q = "after"] \in ItemState(C)
        /\ [x EXCEPT !.item = Append(@, s[i])] \in ItemState(C)
        /\ s[i] \in Quotes => [x EXCEPT !.q = s[i], !.skip = FALSE] \in ItemState(C)
        /\ [x EXCEPT !.items = Append(@, x.item), !.item = <<>>, !.q = "none", !.skip = TRUE] \in ItemState(C)
        /\ [x EXCEPT !.item = Append(@, s[i]), !.q = "none", !.skip = FALSE] \in ItemState(C)
    <3>1. [x EXCEPT !.q = "after"] \in ItemState(C)
      BY DEF ItemState, Modes
    <3>2. [x EXCEPT !.item = Append(@, s[i])] \in ItemState(C)
      BY <2>3 DEF ItemState, Modes
    <3>3. s[i] \in Quotes => [x EXCEPT !.q = s[i], !.skip = FALSE] \in ItemState(C)
      BY DEF ItemState, Modes
    <3>4. [x EXCEPT !.items = Append(@, x.item), !.item = <<>>, !.q = "none", !.skip = TRUE] \in ItemState(C)
      BY <2>3, <2>4 DEF ItemState, Modes
    <3>5. [x EXCEPT !.item = Append(@, s[i]), !.q = "none", !.skip = FALSE] \in ItemState(C)
      BY <2>3 DEF ItemState, Modes
    <3> QED BY <3>1, <3>2, <3>3, <3>4, <3>5
  <2>7. ItemStep(s, x, i) \in ItemState(C)
    BY <2>6 DEF ItemStep
  <2> QED BY <2>1, <2>7
<1>2. NoItem \in ItemState(C)
  <2>1. <<>> \in Seq(C) /\ <<>> \in Seq(Seq(C))
    BY EmptySeq
  <2> QED BY <2>1 DEF NoItem, ItemState, Modes
<1> HIDE DEF G, n
<1>3. PICK g : Folding(g, n, NoItem, G) /\ \A t \in SUBSET (1 .. n) : g[t] \in ItemState(C)
  BY <1>0, <1>1, <1>2, FoldExists
<1>4. P(g)
  <2>1. ASSUME NEW t \in SUBSET (1 .. n), t # {}
        PROVE  G[<<Max(t), g[t \ {Max(t)}]>>] = ItemStep(s, g[t \ {Max(t)}], id[Max(t)])
    <3>1. Max(t) \in 1 .. n
      BY <1>0, <2>1, MaxIn
    <3>2. g[t \ {Max(t)}] \in ItemState(C)
      BY <1>3
    <3> QED BY <1>0, <1>1, <3>1, <3>2
  <2>2. g = [t \in SUBSET (1 .. n) |-> IF t = {} THEN NoItem ELSE G[<<Max(t), g[t \ {Max(t)}]>>]]
    BY <1>3 DEF Folding
  <2> QED BY <2>1, <2>2
<1> DEFINE f == CHOOSE h : P(h)
<1>5. P(f)
  BY <1>4
<1>6. Items(s) = Append(f[1 .. n].items, f[1 .. n].item)
  <2>1. DOMAIN id = DOMAIN s
    OBVIOUS
  <2> QED BY <1>0, <2>1 DEF Items, FoldLeftDomain, FoldLeft, MapThenFoldSet, NoItem
<1> HIDE DEF f
<1>7. f[1 .. 0] = NoItem
  <2>1. {} \in SUBSET (1 .. n) /\ 1 .. 0 = {}
    OBVIOUS
  <2> QED BY <1>5, <2>1
<1>8. ASSUME NEW k \in 1 .. n PROVE f[1 .. k] = ItemStep(s, f[1 .. (k - 1)], k)
  <2>1. /\ 1 .. k \in SUBSET (1 .. n) /\ 1 .. k # {}
        /\ Max(1 .. k) = k /\ (1 .. k) \ {k} = 1 .. (k - 1)
    BY <1>0, Positions
  <2>2. f[1 .. k] = ItemStep(s, f[(1 .. k) \ {Max(1 .. k)}], id[Max(1 .. k)])
    BY <1>5, <2>1
  <2> QED BY <1>0, <2>1, <2>2
<1> DEFINE r == [k \in 0 .. n |-> f[1 .. k]]
<1>9. r[0] = NoItem /\ (\A k \in 1 .. n : r[k] = ItemStep(s, r[k - 1], k)) /\ r[n] = f[1 .. n]
  <2>1. 0 \in 0 .. n /\ n \in 0 .. n /\ \A k \in 1 .. n : k \in 0 .. n /\ k - 1 \in 0 .. n
    BY <1>0
  <2> QED BY <1>7, <1>8, <2>1
<1> QED BY <1>6, <1>9 DEF n

ScanState == [q : Modes, seps : Nat, quotes : Nat]
NoScan == [q |-> "none", seps |-> 0, quotes |-> 0]

(* So does its first scan.                                                 *)
LEMMA ScanFold ==
  ASSUME NEW C, NEW s \in Seq(C)
  PROVE  \E r : /\ r[0] = NoScan
                /\ \A k \in 1 .. Len(s) : r[k] = ScanStep(s, r[k - 1], k)
                /\ Scan(s) = r[Len(s)]
<1> DEFINE n == Len(s)
           id == [i \in DOMAIN s |-> i]
           G == [p \in (1 .. n) \X ScanState |-> ScanStep(s, p[2], p[1])]
           P(h) == h = [t \in SUBSET (1 .. n) |->
                          IF t = {} THEN NoScan ELSE ScanStep(s, h[t \ {Max(t)}], id[Max(t)])]
<1>0. n \in Nat /\ DOMAIN s = 1 .. n
  OBVIOUS
<1>1. ASSUME NEW i \in 1 .. n, NEW x \in ScanState
      PROVE  G[<<i, x>>] = ScanStep(s, x, i) /\ G[<<i, x>>] \in ScanState
  <2>1. G[<<i, x>>] = ScanStep(s, x, i)
    <3>1. <<i, x>> \in (1 .. n) \X ScanState /\ <<i, x>>[1] = i /\ <<i, x>>[2] = x
      OBVIOUS
    <3> QED BY <3>1
  <2>2. /\ [x EXCEPT !.q = "after", !.quotes = @ + 1] \in ScanState
        /\ [x EXCEPT !.q = "none"] \in ScanState
        /\ s[i] \in Quotes => [x EXCEPT !.q = s[i]] \in ScanState
        /\ [x EXCEPT !.seps = @ + 1] \in ScanState
    <3>1. [x EXCEPT !.q = "after", !.quotes = @ + 1] \in ScanState
      <4>1. x.quotes \in Nat
        BY DEF ScanState
      <4>2. x.quotes + 1 \in Nat /\ "after" \in Modes
        BY <4>1 DEF Modes
      <4> QED BY <4>2 DEF ScanState
    <3>2. [x EXCEPT !.q = "none"] \in ScanState
      BY DEF ScanState, Modes
    <3>3. s[i] \in Quotes => [x EXCEPT !.q = s[i]] \in ScanState
      BY DEF ScanState, Modes
    <3>4. [x EXCEPT !.seps = @ + 1] \in ScanState
      BY DEF ScanState
    <3> QED BY <3>1, <3>2, <3>3, <3>4
  <2>3. ScanStep(s, x, i) \in ScanState
    BY <2>2 DEF ScanStep
  <2> QED BY <2>1, <2>3
<1>2. NoScan \in ScanState
  BY DEF NoScan, ScanState, Modes
<1> HIDE DEF G, n
<1>3. PICK g : Folding(g, n, NoScan, G) /\ \A t \in SUBSET (1 .. n) : g[t] \in ScanState
  BY <1>0, <1>1, <1>2, FoldExists
<1>4. P(g)
  <2>1. ASSUME NEW t \in SUBSET (1 .. n), t # {}
        PROVE  G[<<Max(t), g[t \ {Max(t)}]>>] = ScanStep(s, g[t \ {Max(t)}], id[Max(t)])
    <3>1. Max(t) \in 1 .. n
      BY <1>0, <2>1, MaxIn
    <3>2. g[t \ {Max(t)}] \in ScanState
      BY <1>3
    <3> QED BY <1>0, <1>1, <3>1, <3>2
  <2>2. g = [t \in SUBSET (1 .. n) |-> IF t = {} THEN NoScan ELSE G[<<Max(t), g[t \ {Max(t)}]>>]]
    BY <1>3 DEF Folding
  <2> QED BY <2>1, <2>2
<1> DEFINE f == CHOOSE h : P(h)
<1>5. P(f)
  BY <1>4
<1>6. Scan(s) = f[1 .. n]
  <2>1. DOMAIN id = DOMAIN s
    OBVIOUS
  <2> QED BY <1>0, <2>1 DEF Scan, FoldLeftDomain, FoldLeft, MapThenFoldSet, NoScan
<1> HIDE DEF f
<1>7. f[1 .. 0] = NoScan
  <2>1. {} \in SUBSET (1 .. n) /\ 1 .. 0 = {}
    OBVIOUS
  <2> QED BY <1>5, <2>1
<1>8. ASSUME NEW k \in 1 .. n PROVE f[1 .. k] = ScanStep(s, f[1 .. (k - 1)], k)
  <2>1. /\ 1 .. k \in SUBSET (1 .. n) /\ 1 .. k # {}
        /\ Max(1 .. k) = k /\ (1 .. k) \ {k} = 1 .. (k - 1)
    BY <1>0, Positions
  <2>2. f[1 .. k] = ScanStep(s, f[(1 .. k) \ {Max(1 .. k)}], id[Max(1 .. k)])
    BY <1>5, <2>1
  <2> QED BY <1>0, <2>1, <2>2
<1> DEFINE r == [k \in 0 .. n |-> f[1 .. k]]
<1>9. r[0] = NoScan /\ (\A k \in 1 .. n : r[k] = ScanStep(s, r[k - 1], k)) /\ r[n] = f[1 .. n]
  <2>1. 0 \in 0 .. n /\ n \in 0 .. n /\ \A k \in 1 .. n : k \in 0 .. n /\ k - 1 \in 0 .. n
    BY <1>0
  <2> QED BY <1>7, <1>8, <2>1
<1> QED BY <1>6, <1>9 DEF n

(* A list begins with what is neither a space nor a comma, and has no quotes. *)
Plain(s) == s # <<>> /\ s[1] \notin {Space, Comma} /\ \A k \in DOMAIN s : s[k] \notin Quotes

CutsTo(s, k) == {j \in Cuts(s) : j <= k}

(* The cuts of a list are some of its positions.                           *)
LEMMA CutsFinite ==
  ASSUME NEW C, NEW s \in Seq(C), NEW k \in Nat
  PROVE  /\ IsFiniteSet(Cuts(s)) /\ IsFiniteSet(CutsTo(s, k))
         /\ Cardinality(CutsTo(s, k)) \in Nat /\ Cardinality(Cuts(s)) \in Nat
         /\ Cuts(s) \subseteq 1 .. Len(s)
<1>1. IsFiniteSet(1 .. Len(s))
  BY FS_Interval
<1>2. Cuts(s) \subseteq 1 .. Len(s) /\ CutsTo(s, k) \subseteq Cuts(s)
  BY DEF Cuts, CutsTo
<1>3. IsFiniteSet(Cuts(s))
  BY <1>1, <1>2, FS_Subset
<1>4. IsFiniteSet(CutsTo(s, k))
  BY <1>2, <1>3, FS_Subset
<1> QED BY <1>2, <1>3, <1>4, FS_CardinalityType

(* There is one more cut up to a cut than up to the position before it.    *)
LEMMA CutsStep ==
  ASSUME NEW C, NEW s \in Seq(C), NEW k \in Nat
  PROVE  /\ k + 1 \in Cuts(s) => /\ CutsTo(s, k + 1) = CutsTo(s, k) \cup {k + 1}
                                 /\ Cardinality(CutsTo(s, k + 1)) = Cardinality(CutsTo(s, k)) + 1
         /\ k + 1 \notin Cuts(s) => CutsTo(s, k + 1) = CutsTo(s, k)
         /\ CutsTo(s, 0) = {}
         /\ CutsTo(s, Len(s)) = Cuts(s)
<1>1. Cuts(s) \subseteq 1 .. Len(s) /\ IsFiniteSet(CutsTo(s, k)) /\ Len(s) \in Nat
  BY CutsFinite
<1>2. ASSUME k + 1 \in Cuts(s) PROVE CutsTo(s, k + 1) = CutsTo(s, k) \cup {k + 1}
  BY <1>1, <1>2 DEF CutsTo
<1>3. k + 1 \notin CutsTo(s, k)
  BY DEF CutsTo
<1>4. k + 1 \notin Cuts(s) => CutsTo(s, k + 1) = CutsTo(s, k)
  BY <1>1 DEF CutsTo
<1>5. CutsTo(s, 0) = {} /\ CutsTo(s, Len(s)) = Cuts(s)
  BY <1>1 DEF CutsTo
<1>6. k + 1 \in Cuts(s) => Cardinality(CutsTo(s, k + 1)) = Cardinality(CutsTo(s, k)) + 1
  BY <1>1, <1>2, <1>3, FS_AddElement
<1> QED BY <1>2, <1>4, <1>5, <1>6

(* What the first character that is no space is of an item.                 *)
LEMMA ItemFirst ==
  ASSUME NEW C, NEW s \in Seq(C), NEW p \in Nat, NEW t \in Nat, p <= t, t <= Len(s)
  PROVE  \/ (\A i \in p + 1 .. t : s[i] = Space) /\ Item(s, p, t + 1) = <<>>
         \/ \E m \in p + 1 .. t : /\ s[m] # Space /\ \A i \in p + 1 .. m - 1 : s[i] = Space
                                  /\ Item(s, p, t + 1) = SubSeq(s, m, t)
                                  /\ Item(s, p, t + 1) \in Seq(C) /\ Item(s, p, t + 1) # <<>>
<1>0. (t + 1) - 1 = t
  OBVIOUS
<1> DEFINE I == {i \in p + 1 .. t : s[i] # Space}
<1>1. SelectInSubSeq(s, p + 1, t, LAMBDA c : c # Space) = IF I # {} THEN Min(I) ELSE 0
  BY DEF SelectInSubSeq
<1>2. CASE I = {}
  <2>1. SelectInSubSeq(s, p + 1, t, LAMBDA c : c # Space) = 0
    BY <1>1, <1>2
  <2>2. Item(s, p, t + 1) = <<>>
    BY <1>0, <2>1 DEF Item
  <2> QED BY <1>2, <2>2
<1>3. CASE I # {}
  <2>1. I \in SUBSET Nat
    OBVIOUS
  <2> DEFINE m == Min(I)
  <2>2. m \in I /\ \A y \in I : m <= y
    BY <1>3, <2>1, MinIn
  <2>3. SelectInSubSeq(s, p + 1, t, LAMBDA c : c # Space) = m
    BY <1>1, <1>3
  <2> HIDE DEF m
  <2>4. m \in p + 1 .. t /\ s[m] # Space /\ m # 0
    BY <2>2
  <2>5. Item(s, p, t + 1) = SubSeq(s, m, t)
    BY <1>0, <2>3, <2>4 DEF Item
  <2>6. \A i \in p + 1 .. m - 1 : s[i] = Space
    <3> SUFFICES ASSUME NEW i \in p + 1 .. m - 1, s[i] # Space PROVE FALSE
      OBVIOUS
    <3>1. i \in I /\ i < m
      BY <2>4
    <3> QED BY <2>2, <3>1
  <2>7. SubSeq(s, m, t) \in Seq(C) /\ Len(SubSeq(s, m, t)) > 0
    <3>1. m \in 1 .. Len(s) + 1 /\ t \in m - 1 .. Len(s)
      BY <2>4
    <3>2. SubSeq(s, m, t) \in Seq(C) /\ Len(SubSeq(s, m, t)) = (t) - m + 1
      BY <3>1, SubSeqProperties
    <3> QED BY <2>4, <3>2
  <2>8. SubSeq(s, m, t) # <<>>
    <3>1. Len(<<>>) = 0
      OBVIOUS
    <3>2. Len(SubSeq(s, m, t)) # Len(<<>>)
      BY <2>7, <3>1
    <3> QED BY <3>2
  <2> QED BY <2>4, <2>5, <2>6, <2>7, <2>8
<1> QED BY <1>2, <1>3

(* An item takes each character but the spaces it would begin with.        *)
LEMMA ItemGrows ==
  ASSUME NEW C, NEW s \in Seq(C), NEW p \in Nat, NEW k \in Nat, p <= k, k + 1 <= Len(s)
  PROVE  /\ Item(s, p, p + 1) = <<>>
         /\ Item(s, p, k + 1) \in Seq(C)
         /\ Item(s, p, k + 1) = <<>> /\ s[k + 1] = Space => Item(s, p, k + 2) = <<>>
         /\ Item(s, p, k + 1) # <<>> \/ s[k + 1] # Space =>
               Item(s, p, k + 2) = Append(Item(s, p, k + 1), s[k + 1])
<1>0. p <= Len(s) /\ k <= Len(s) /\ k + 1 \in Nat /\ p <= k + 1 /\ (k + 1) + 1 = k + 2
  OBVIOUS
<1>1. Item(s, p, p + 1) = <<>>
  <2>1. p <= p /\ \A m \in p + 1 .. p : FALSE
    OBVIOUS
  <2> QED BY <1>0, <2>1, ItemFirst
<1>2. \/ (\A i \in p + 1 .. k : s[i] = Space) /\ Item(s, p, k + 1) = <<>>
      \/ \E m \in p + 1 .. k : /\ s[m] # Space /\ \A i \in p + 1 .. m - 1 : s[i] = Space
                               /\ Item(s, p, k + 1) = SubSeq(s, m, k)
                               /\ Item(s, p, k + 1) \in Seq(C) /\ Item(s, p, k + 1) # <<>>
  BY <1>0, ItemFirst
<1>3. \/ (\A i \in p + 1 .. k + 1 : s[i] = Space) /\ Item(s, p, k + 2) = <<>>
      \/ \E m \in p + 1 .. k + 1 : /\ s[m] # Space /\ \A i \in p + 1 .. m - 1 : s[i] = Space
                                   /\ Item(s, p, k + 2) = SubSeq(s, m, k + 1)
                                   /\ Item(s, p, k + 2) \in Seq(C) /\ Item(s, p, k + 2) # <<>>
  <2> DEFINE t == k + 1
  <2>1. t \in Nat /\ p <= t /\ t <= Len(s) /\ t + 1 = k + 2
    BY <1>0
  <2> HIDE DEF t
  <2>2. \/ (\A i \in p + 1 .. t : s[i] = Space) /\ Item(s, p, t + 1) = <<>>
        \/ \E m \in p + 1 .. t : /\ s[m] # Space /\ \A i \in p + 1 .. m - 1 : s[i] = Space
                                 /\ Item(s, p, t + 1) = SubSeq(s, m, t)
                                 /\ Item(s, p, t + 1) \in Seq(C) /\ Item(s, p, t + 1) # <<>>
    BY <2>1, ItemFirst
  <2> QED BY <2>1, <2>2 DEF t
<1>4. CASE (\A i \in p + 1 .. k : s[i] = Space) /\ Item(s, p, k + 1) = <<>>
  <2>1. CASE s[k + 1] = Space
    <3>1. \A i \in p + 1 .. k + 1 : s[i] = Space
      BY <1>4, <2>1
    <3>2. Item(s, p, k + 2) = <<>>
      BY <1>3, <3>1
    <3> QED BY <1>1, <1>4, <2>1, <3>2, EmptySeq
  <2>2. CASE s[k + 1] # Space
    <3>1. PICK m \in p + 1 .. k + 1 : /\ s[m] # Space
                                      /\ Item(s, p, k + 2) = SubSeq(s, m, k + 1)
      BY <1>0, <1>3, <2>2
    <3>2. m = k + 1
      BY <1>4, <3>1
    <3>3. SubSeq(s, k + 1, k + 1) = <<s[k + 1]>>
      <4>1. k + 1 \in 1 .. Len(s)
        OBVIOUS
      <4>2. /\ SubSeq(s, k + 1, k + 1) \in Seq(C) /\ Len(SubSeq(s, k + 1, k + 1)) = 1
            /\ SubSeq(s, k + 1, k + 1)[1] = s[k + 1]
        BY <4>1
      <4>3. <<s[k + 1]>> \in Seq(C) /\ Len(<<s[k + 1]>>) = 1 /\ <<s[k + 1]>>[1] = s[k + 1]
        BY <4>1
      <4> DEFINE u == SubSeq(s, k + 1, k + 1)
                 v == <<s[k + 1]>>
      <4>4. u \in Seq(C) /\ v \in Seq(C) /\ Len(u) = Len(v) /\ \A i \in 1 .. Len(u) : u[i] = v[i]
        BY <4>2, <4>3
      <4> HIDE DEF u, v
      <4> QED BY <4>4, SeqEqual DEF u, v
    <3>4. Append(<<>>, s[k + 1]) = <<s[k + 1]>>
      OBVIOUS
    <3> QED BY <1>1, <1>4, <2>2, <3>1, <3>2, <3>3, <3>4, EmptySeq
  <2> QED BY <2>1, <2>2
<1>5. CASE \E m \in p + 1 .. k : /\ s[m] # Space /\ \A i \in p + 1 .. m - 1 : s[i] = Space
                               /\ Item(s, p, k + 1) = SubSeq(s, m, k)
                               /\ Item(s, p, k + 1) \in Seq(C) /\ Item(s, p, k + 1) # <<>>
  <2>1. PICK m \in p + 1 .. k : /\ s[m] # Space /\ \A i \in p + 1 .. m - 1 : s[i] = Space
                                /\ Item(s, p, k + 1) = SubSeq(s, m, k)
                                /\ Item(s, p, k + 1) \in Seq(C) /\ Item(s, p, k + 1) # <<>>
    BY <1>5
  <2>2. m \in p + 1 .. k + 1
    OBVIOUS
  <2>3. PICK l \in p + 1 .. k + 1 : /\ s[l] # Space /\ \A i \in p + 1 .. l - 1 : s[i] = Space
                                    /\ Item(s, p, k + 2) = SubSeq(s, l, k + 1)
    BY <1>3, <2>1, <2>2
  <2>4. l = m
    <3>1. ~(l < m)
      BY <2>1, <2>3
    <3>2. ~(m < l)
      BY <2>1, <2>3
    <3> QED BY <3>1, <3>2
  <2>5. SubSeq(s, m, k + 1) = Append(SubSeq(s, m, k), s[k + 1])
    BY <1>0
  <2> QED BY <1>1, <2>1, <2>3, <2>4, <2>5
<1> QED BY <1>2, <1>4, <1>5

(* What the scans of a list have done with its first k characters.           *)
Commas(s, k) == {j \in 1 .. k : s[j] = Comma}

(* There is one more comma up to a comma; every cut is a comma.            *)
LEMMA CommasStep ==
  ASSUME NEW C, NEW s \in Seq(C), NEW k \in Nat
  PROVE  /\ Cardinality(Commas(s, 0)) = 0
         /\ Cardinality(Commas(s, k)) \in Nat
         /\ Cardinality(Commas(s, k + 1)) =
               IF s[k + 1] = Comma THEN Cardinality(Commas(s, k)) + 1 ELSE Cardinality(Commas(s, k))
         /\ k = Len(s) => Cardinality(Cuts(s)) <= Cardinality(Commas(s, k))
<1>1. IsFiniteSet(1 .. k) /\ Commas(s, k) \subseteq 1 .. k
  BY FS_Interval DEF Commas
<1>2. IsFiniteSet(Commas(s, k))
  BY <1>1, FS_Subset
<1>3. Cardinality(Commas(s, k)) \in Nat
  BY <1>2, FS_CardinalityType
<1>4. Commas(s, 0) = {}
  BY DEF Commas
<1>5. Cardinality(Commas(s, 0)) = 0
  BY <1>4, FS_EmptySet
<1>6. s[k + 1] = Comma => Cardinality(Commas(s, k + 1)) = Cardinality(Commas(s, k)) + 1
  <2> SUFFICES ASSUME s[k + 1] = Comma PROVE Cardinality(Commas(s, k + 1)) = Cardinality(Commas(s, k)) + 1
    OBVIOUS
  <2>1. Commas(s, k + 1) = Commas(s, k) \cup {k + 1}
    BY DEF Commas
  <2>2. k + 1 \notin Commas(s, k)
    BY DEF Commas
  <2> QED BY <1>2, <2>1, <2>2, FS_AddElement
<1>7. s[k + 1] # Comma => Commas(s, k + 1) = Commas(s, k)
  BY DEF Commas
<1>8. k = Len(s) => Cardinality(Cuts(s)) <= Cardinality(Commas(s, k))
  <2>1. k = Len(s) => Cuts(s) \subseteq Commas(s, k)
    BY DEF Cuts, Commas
  <2> QED BY <1>2, <2>1, FS_Subset
<1> QED BY <1>3, <1>5, <1>6, <1>7, <1>8

(* The first scan counts the commas of a list without quotes.              *)
LEMMA ScanPlain ==
  ASSUME NEW C, NEW s \in Seq(C), Plain(s)
  PROVE  Scan(s) = [q |-> "none", seps |-> Cardinality(Commas(s, Len(s))), quotes |-> 0]
<1> DEFINE n == Len(s)
           At(k) == [q |-> "none", seps |-> Cardinality(Commas(s, k)), quotes |-> 0]
<1>0. n \in Nat /\ \A k \in 1 .. n : s[k] \notin Quotes
  BY DEF Plain
<1>1. PICK r : /\ r[0] = NoScan
               /\ \A k \in 1 .. n : r[k] = ScanStep(s, r[k - 1], k)
               /\ Scan(s) = r[n]
  BY ScanFold
<1> DEFINE T == {k \in Nat : k \in 0 .. n => r[k] = At(k)}
<1>2. 0 \in T
  BY <1>1, CommasStep DEF NoScan
<1>3. ASSUME NEW k \in Nat, k \in T, k + 1 \in 0 .. n PROVE r[k + 1] = At(k + 1)
  <2>1. k \in 0 .. n /\ k + 1 \in 1 .. n /\ (k + 1) - 1 = k
    BY <1>3
  <2>2. r[k] = At(k)
    BY <1>3, <2>1
  <2>3. r[k + 1] = ScanStep(s, At(k), k + 1)
    BY <1>1, <2>1, <2>2
  <2>4. "none" \notin Quotes /\ s[k + 1] \notin Quotes
    BY <1>0, <2>1 DEF Quotes
  <2>5. ScanStep(s, At(k), k + 1) =
          IF s[k + 1] = Comma THEN [At(k) EXCEPT !.seps = @ + 1] ELSE At(k)
    BY <2>4 DEF ScanStep
  <2>6. [At(k) EXCEPT !.seps = @ + 1] = [q |-> "none", seps |-> Cardinality(Commas(s, k)) + 1, quotes |-> 0]
    OBVIOUS
  <2> QED BY <2>3, <2>5, <2>6, CommasStep
<1>4. \A k \in Nat : k \in T
  <2>1. \A k \in Nat : k \in T => k + 1 \in T
    BY <1>3
  <2> HIDE DEF T
  <2> QED BY <1>2, <2>1, NatInd
<1> QED BY <1>0, <1>1, <1>4

(* What the second scan made of the first k characters of a list: p is the  *)
(* last cut, and what is behind each cut before is an item.                 *)
ItemsAt(s, k, its, p, C) ==
  /\ p \in CutsTo(s, k) \cup {0} /\ \A j \in CutsTo(s, k) : j <= p
  /\ its \in Seq(Seq(C)) /\ Len(its) = Cardinality(CutsTo(s, k))
  /\ \A o \in (CutsTo(s, k) \cup {0}) \ {p} :
        its[Cardinality(CutsTo(s, o)) + 1] = Item(s, o, CutBehind(s, o))

ScanOf(its, p, item) == [q |-> "none", skip |-> p # 0 /\ item = <<>>, item |-> item, items |-> its]

(* The item behind a cut has the number of the cuts up to there.            *)
LEMMA CutNumber ==
  ASSUME NEW C, NEW s \in Seq(C), NEW k \in 0 .. Len(s), NEW p \in CutsTo(s, k) \cup {0},
         \A j \in CutsTo(s, k) : j <= p
  PROVE  /\ Cardinality(CutsTo(s, p)) = Cardinality(CutsTo(s, k))
         /\ \A o \in (CutsTo(s, k) \cup {0}) \ {p} :
               Cardinality(CutsTo(s, o)) + 1 \in 1 .. Cardinality(CutsTo(s, k))
         /\ k + 1 \in Cuts(s) \cup {Len(s) + 1} => CutBehind(s, p) = k + 1
<1>0. k \in Nat /\ Len(s) \in Nat /\ Cuts(s) \subseteq 1 .. Len(s) /\ p \in Nat /\ p <= k
  <2>1. Cuts(s) \subseteq 1 .. Len(s) /\ k \in Nat /\ Len(s) \in Nat
    BY CutsFinite
  <2> QED BY <2>1 DEF CutsTo
<1>1. CutsTo(s, p) = CutsTo(s, k)
  BY <1>0 DEF CutsTo
<1>2. ASSUME NEW o \in (CutsTo(s, k) \cup {0}) \ {p}
      PROVE  Cardinality(CutsTo(s, o)) + 1 \in 1 .. Cardinality(CutsTo(s, k))
  <2>1. o \in Nat /\ o < p /\ p \in CutsTo(s, k)
    BY <1>0 DEF CutsTo
  <2>2. CutsTo(s, o) \subseteq CutsTo(s, k) /\ p \notin CutsTo(s, o)
    BY <1>0, <2>1 DEF CutsTo
  <2>3. IsFiniteSet(CutsTo(s, k)) /\ Cardinality(CutsTo(s, k)) \in Nat
    BY <1>0, CutsFinite
  <2>4. Cardinality(CutsTo(s, o)) < Cardinality(CutsTo(s, k))
    <3>1. CutsTo(s, o) # CutsTo(s, k)
      BY <2>1, <2>2
    <3>2. /\ Cardinality(CutsTo(s, o)) <= Cardinality(CutsTo(s, k))
          /\ Cardinality(CutsTo(s, o)) # Cardinality(CutsTo(s, k))
      BY <2>2, <2>3, <3>1, FS_Subset
    <3>3. Cardinality(CutsTo(s, o)) \in Nat
      BY <2>1, CutsFinite
    <3> QED BY <2>3, <3>2, <3>3
  <2>5. Cardinality(CutsTo(s, o)) \in Nat
    BY <2>1, CutsFinite
  <2> QED BY <2>3, <2>4, <2>5
<1>3. ASSUME k + 1 \in Cuts(s) \cup {Len(s) + 1} PROVE CutBehind(s, p) = k + 1
  <2> DEFINE S == {j \in Cuts(s) : j > p} \cup {Len(s) + 1}
  <2>1. S \in SUBSET Nat /\ k + 1 \in S
    BY <1>0, <1>3
  <2>2. ASSUME NEW j \in S PROVE k + 1 <= j
    <3>1. CASE j = Len(s) + 1
      BY <3>1, <1>0
    <3>2. CASE j \in Cuts(s) /\ j > p
      <4>1. j \notin CutsTo(s, k) /\ j \in Nat
        BY <1>0, <3>2
      <4> QED BY <1>0, <3>2, <4>1 DEF CutsTo
    <3> QED BY <3>1, <3>2
  <2>3. Min(S) = k + 1
    <3> HIDE DEF S
    <3> QED BY <2>1, <2>2, MinIs
  <2> QED BY <2>3 DEF CutBehind
<1> QED BY <1>1, <1>2, <1>3

(* A step of the second scan of delistify at a character that is no quote. *)
LEMMA PlainStep ==
  ASSUME NEW s, NEW i, s[i] \notin Quotes, NEW its, NEW p, NEW item
  PROVE  ItemStep(s, ScanOf(its, p, item), i) =
           IF (p # 0 /\ item = <<>>) /\ s[i] = Space THEN ScanOf(its, p, item)
           ELSE IF s[i] = Comma /\ i > 1 /\ ~(Prev(s, i) = "\\")
                THEN [q |-> "none", skip |-> TRUE, item |-> <<>>, items |-> Append(its, item)]
           ELSE [q |-> "none", skip |-> FALSE, item |-> Append(item, s[i]), items |-> its]
<1> DEFINE st == ScanOf(its, p, item)
           cut == [st EXCEPT !.items = Append(@, st.item), !.item = <<>>, !.q = "none", !.skip = TRUE]
           put == [st EXCEPT !.item = Append(@, s[i]), !.q = "none", !.skip = FALSE]
<1>1. /\ st.q = "none" /\ st.skip = (p # 0 /\ item = <<>>) /\ st.item = item /\ st.items = its
      /\ st = [q |-> "none", skip |-> st.skip, item |-> item, items |-> its]
  BY DEF ScanOf
<1>2. "none" \notin Quotes
  BY DEF Quotes
<1> HIDE DEF st
<1>3. cut = [q |-> "none", skip |-> TRUE, item |-> <<>>, items |-> Append(its, item)]
  <2> DEFINE new == Append(its, item)
             Q == {"none"}
             I == {item, <<>>}
             A == {its, new}
  <2>1. st \in [q : Q, skip : BOOLEAN, item : I, items : A] /\ Append(st.items, st.item) = new
    BY <1>1
  <2>2. "none" \in Q /\ TRUE \in BOOLEAN /\ <<>> \in I /\ new \in A
    OBVIOUS
  <2> HIDE DEF Q, I, A, new
  <2>3. cut = [st EXCEPT !.items = new, !.item = <<>>, !.q = "none", !.skip = TRUE]
    BY <2>1
  <2> HIDE DEF cut
  <2>4. /\ cut \in [q : Q, skip : BOOLEAN, item : I, items : A]
        /\ cut.q = "none" /\ cut.skip = TRUE /\ cut.item = <<>> /\ cut.items = new
    BY <2>1, <2>2, <2>3
  <2>5. cut = [q |-> cut.q, skip |-> cut.skip, item |-> cut.item, items |-> cut.items]
    BY <2>4
  <2> QED BY <2>4, <2>5 DEF new
<1>4. put = [q |-> "none", skip |-> FALSE, item |-> Append(item, s[i]), items |-> its]
  <2> DEFINE new == Append(item, s[i])
             Q == {"none"}
             I == {item, new}
             A == {its}
  <2>1. st \in [q : Q, skip : BOOLEAN, item : I, items : A] /\ Append(st.item, s[i]) = new /\ st.items = its
    BY <1>1
  <2>2. "none" \in Q /\ FALSE \in BOOLEAN /\ new \in I /\ its \in A
    OBVIOUS
  <2> HIDE DEF Q, I, A, new
  <2>3. put = [st EXCEPT !.item = new, !.q = "none", !.skip = FALSE]
    BY <2>1
  <2> HIDE DEF put
  <2>4. /\ put \in [q : Q, skip : BOOLEAN, item : I, items : A]
        /\ put.q = "none" /\ put.skip = FALSE /\ put.item = new /\ put.items = its
    BY <2>1, <2>2, <2>3
  <2>5. put = [q |-> put.q, skip |-> put.skip, item |-> put.item, items |-> put.items]
    BY <2>4
  <2> QED BY <2>4, <2>5 DEF new
<1> HIDE DEF cut, put
<1>5. ItemStep(s, st, i) = IF st.skip /\ s[i] = Space THEN st
                           ELSE IF s[i] = Comma /\ i > 1 /\ ~(Prev(s, i) = "\\") THEN cut
                           ELSE put
  <2> DEFINE c == s[i]
  <2>1. c \notin Quotes /\ st.q \notin Quotes
    BY <1>1, <1>2
  <2>2. ItemStep(s, st, i) = IF st.skip /\ c = Space THEN st
                             ELSE IF c = Comma /\ i > 1 /\ ~(Prev(s, i) = "\\") THEN cut
                             ELSE put
    <3>1. CASE st.skip /\ c = Space
      <4>1. ItemStep(s, st, i) = st
        BY <2>1, <3>1, Zenon DEF ItemStep
      <4> QED BY <3>1, <4>1
    <3>2. CASE ~(st.skip /\ c = Space) /\ (c = Comma /\ i > 1 /\ ~(Prev(s, i) = "\\"))
      BY <2>1, <3>2 DEF ItemStep, cut
    <3>3. CASE ~(st.skip /\ c = Space) /\ ~(c = Comma /\ i > 1 /\ ~(Prev(s, i) = "\\"))
      BY <2>1, <3>3 DEF ItemStep, put
    <3> QED BY <3>1, <3>2, <3>3
  <2> QED BY <2>2
<1> QED BY <1>1, <1>3, <1>4, <1>5 DEF st

(* One step of the second scan keeps what it made of a list.               *)
LEMMA ItemsStep ==
  ASSUME NEW C, NEW s \in Seq(C), Plain(s), NEW k \in Nat, k + 1 <= Len(s),
         NEW its, NEW p, ItemsAt(s, k, its, p, C)
  PROVE  \E o, all : /\ ItemsAt(s, k + 1, all, o, C)
                     /\ ItemStep(s, ScanOf(its, p, Item(s, p, k + 1)), k + 1) = ScanOf(all, o, Item(s, o, k + 2))
<1> DEFINE i == k + 1
           c == s[i]
           item == Item(s, p, i)
           st == ScanOf(its, p, item)
           new == ItemStep(s, st, i)
<1>0. /\ i \in 1 .. Len(s) /\ k \in 0 .. Len(s) /\ c \in C /\ c \notin Quotes
      /\ Cuts(s) \subseteq 1 .. Len(s) /\ p \in Nat /\ p <= k
  <2>1. i \in 1 .. Len(s) /\ k \in 0 .. Len(s)
    OBVIOUS
  <2>2. c \in C /\ c \notin Quotes
    BY <2>1 DEF Plain
  <2>3. Cuts(s) \subseteq 1 .. Len(s)
    BY CutsFinite
  <2>4. p \in Nat /\ p <= k
    BY <2>3 DEF ItemsAt, CutsTo
  <2> QED BY <2>1, <2>2, <2>3, <2>4
<1>1. /\ p \in CutsTo(s, k) \cup {0} /\ \A j \in CutsTo(s, k) : j <= p
      /\ its \in Seq(Seq(C)) /\ Len(its) = Cardinality(CutsTo(s, k))
      /\ \A o \in (CutsTo(s, k) \cup {0}) \ {p} :
            its[Cardinality(CutsTo(s, o)) + 1] = Item(s, o, CutBehind(s, o))
  BY DEF ItemsAt
<1>2. /\ item \in Seq(C) /\ Item(s, i, i + 1) = <<>>
      /\ item = <<>> /\ c = Space => Item(s, p, i + 1) = <<>>
      /\ item # <<>> \/ c # Space => Item(s, p, i + 1) = Append(item, c)
  <2>1. i + 1 = k + 2
    OBVIOUS
  <2>2. /\ item \in Seq(C)
        /\ item = <<>> /\ c = Space => Item(s, p, k + 2) = <<>>
        /\ item # <<>> \/ c # Space => Item(s, p, k + 2) = Append(item, c)
    BY <1>0, ItemGrows
  <2>3. Item(s, i, i + 1) = <<>>
    <3>1. i \in Nat /\ i <= Len(s) /\ i <= i /\ \A m \in i + 1 .. i : FALSE
      BY <1>0
    <3> HIDE DEF i
    <3> QED BY <3>1, ItemFirst
  <2> QED BY <2>1, <2>2, <2>3
\* Only a space behind a cut is skipped: the first character is none.
<1>3. p = 0 /\ item = <<>> => c # Space /\ i = 1
  <2> SUFFICES ASSUME p = 0, item = <<>> PROVE c # Space /\ i = 1
    OBVIOUS
  <2>1. CASE k = 0
    BY <2>1 DEF Plain
  <2>2. CASE k # 0
    <3>1. 1 \in 0 + 1 .. k /\ k <= Len(s) /\ 0 <= k
      BY <1>0, <2>2
    <3>2. s[1] # Space
      BY DEF Plain
    <3>3. item # <<>>
      BY <3>1, <3>2, ItemFirst
    <3> QED BY <3>3
  <2> QED BY <2>1, <2>2
<1>4. "none" \notin Quotes /\ "after" \notin Quotes
  BY DEF Quotes
<1>5. i \in Cuts(s) <=> c = Comma /\ i > 1 /\ ~(Prev(s, i) = "\\")
  <2>1. DOMAIN s = 1 .. Len(s)
    OBVIOUS
  <2>2. i = 1 => c # Comma
    BY DEF Plain
  <2> QED BY <1>0, <2>1, <2>2 DEF Cuts, Prev
<1>6. new = IF (p # 0 /\ item = <<>>) /\ c = Space THEN st
            ELSE IF i \in Cuts(s)
                 THEN [q |-> "none", skip |-> TRUE, item |-> <<>>, items |-> Append(its, item)]
            ELSE [q |-> "none", skip |-> FALSE, item |-> Append(item, c), items |-> its]
  <2> HIDE DEF item, i
  <2>1. s[i] \notin Quotes
    BY <1>0
  <2>2. new = IF (p # 0 /\ item = <<>>) /\ s[i] = Space THEN ScanOf(its, p, item)
              ELSE IF s[i] = Comma /\ i > 1 /\ ~(Prev(s, i) = "\\")
                   THEN [q |-> "none", skip |-> TRUE, item |-> <<>>, items |-> Append(its, item)]
              ELSE [q |-> "none", skip |-> FALSE, item |-> Append(item, s[i]), items |-> its]
    BY <2>1, PlainStep
  <2> HIDE DEF new
  <2> QED BY <1>5, <2>2
<1>10. i + 1 = k + 2
  OBVIOUS
<1> HIDE DEF new, i, c, item, st
<1>7. CASE (p # 0 /\ item = <<>>) /\ c = Space
  <2>1. new = st /\ i \notin Cuts(s)
    <3>1. Space # Comma
      BY Zenon DEF Space, Comma
    <3> QED BY <1>5, <1>6, <1>7, <3>1
  <2>2. CutsTo(s, i) = CutsTo(s, k)
    BY <2>1, CutsStep DEF i
  <2>3. Item(s, p, i + 1) = item
    BY <1>2, <1>7
  <2>4. ItemsAt(s, i, its, p, C)
    BY <1>1, <2>2 DEF ItemsAt
  <2>5. new = ScanOf(its, p, Item(s, p, i + 1))
    BY <2>1, <2>3 DEF st
  <2> QED BY <1>10, <2>4, <2>5 DEF new, i, st, item
<1>8. CASE i \in Cuts(s)
  <2>1. c # Space
    <3>1. Space # Comma
      BY Zenon DEF Space, Comma
    <3> QED BY <1>5, <1>8, <3>1
  <2>2. new = [q |-> "none", skip |-> TRUE, item |-> <<>>, items |-> Append(its, item)]
    BY <1>6, <1>8, <2>1
  <2>3. /\ CutsTo(s, i) = CutsTo(s, k) \cup {i}
        /\ Cardinality(CutsTo(s, i)) = Cardinality(CutsTo(s, k)) + 1
    BY <1>8, CutsStep DEF i
  <2>4. i \in CutsTo(s, i) \cup {0} /\ \A j \in CutsTo(s, i) : j <= i
    BY <1>0, <2>3 DEF CutsTo
  <2>5. Append(its, item) \in Seq(Seq(C)) /\ Len(Append(its, item)) = Cardinality(CutsTo(s, i))
    <3> DEFINE X == Seq(C)
    <3>1. its \in Seq(X) /\ item \in X
      BY <1>1, <1>2
    <3> HIDE DEF X
    <3>2. Append(its, item) \in Seq(X) /\ Len(Append(its, item)) = Len(its) + 1
      BY <3>1, AppendProperties
    <3> QED BY <1>1, <2>3, <3>2 DEF X
  <2>6. ASSUME NEW o \in (CutsTo(s, i) \cup {0}) \ {i}
        PROVE  Append(its, item)[Cardinality(CutsTo(s, o)) + 1] = Item(s, o, CutBehind(s, o))
    <3>0. /\ Cardinality(CutsTo(s, p)) = Cardinality(CutsTo(s, k))
          /\ \A u \in (CutsTo(s, k) \cup {0}) \ {p} :
                Cardinality(CutsTo(s, u)) + 1 \in 1 .. Cardinality(CutsTo(s, k))
          /\ CutBehind(s, p) = i
      BY <1>0, <1>1, <1>8, CutNumber DEF i
    <3>1. CASE o = p
      <4>1. Append(its, item)[Len(its) + 1] = item
        BY <1>1, <1>2, AppendProperties
      <4> QED BY <1>1, <3>0, <3>1, <4>1 DEF item
    <3>2. CASE o # p
      <4>1. o \in (CutsTo(s, k) \cup {0}) \ {p}
        BY <2>3, <3>2
      <4> DEFINE m == Cardinality(CutsTo(s, o)) + 1
      <4>2. m \in 1 .. Len(its)
        BY <1>1, <3>0, <4>1
      <4>3. Append(its, item)[m] = its[m]
        <5> HIDE DEF m
        <5> QED BY <1>1, <1>2, <4>2, AppendProperties
      <4> QED BY <1>1, <4>1, <4>3
    <3> QED BY <3>1, <3>2
  <2>7. new = ScanOf(Append(its, item), i, Item(s, i, i + 1))
    <3>1. i # 0
      BY <1>0
    <3> QED BY <1>2, <2>2, <3>1 DEF ScanOf
  <2>8. ItemsAt(s, i, Append(its, item), i, C)
    BY <2>4, <2>5, <2>6 DEF ItemsAt
  <2> QED BY <1>10, <2>7, <2>8 DEF new, i, st, item
<1>9. CASE ~((p # 0 /\ item = <<>>) /\ c = Space) /\ i \notin Cuts(s)
  <2>1. new = [q |-> "none", skip |-> FALSE, item |-> Append(item, c), items |-> its]
    BY <1>6, <1>9
  <2>2. CutsTo(s, i) = CutsTo(s, k)
    BY <1>9, CutsStep DEF i
  <2>3. Item(s, p, i + 1) = Append(item, c) /\ Item(s, p, i + 1) # <<>>
    <3>1. Item(s, p, i + 1) = Append(item, c)
      BY <1>2, <1>3, <1>9
    <3> QED BY <1>0, <1>2, <3>1, AppendProperties
  <2>4. new = ScanOf(its, p, Item(s, p, i + 1))
    BY <2>1, <2>3 DEF ScanOf
  <2>5. ItemsAt(s, i, its, p, C)
    BY <1>1, <2>2 DEF ItemsAt
  <2> QED BY <1>10, <2>4, <2>5 DEF new, i, st, item
<1> QED BY <1>7, <1>8, <1>9

(* What is behind each cut of s, as the items of a list.                     *)
SplitInto(s, its) ==
  /\ Len(its) = Cardinality(Cuts(s)) + 1
  /\ \A p \in Cuts(s) \cup {0} : its[Cardinality(CutsTo(s, p)) + 1] = Item(s, p, CutBehind(s, p))

(* The second scan makes the items between the cuts.                       *)
LEMMA ItemsPlain ==
  ASSUME NEW C, NEW s \in Seq(C), Plain(s)
  PROVE  Items(s) \in Seq(Seq(C)) /\ SplitInto(s, Items(s))
<1> DEFINE n == Len(s)
           Good(k, x) == \E its, p : ItemsAt(s, k, its, p, C) /\ x = ScanOf(its, p, Item(s, p, k + 1))
<1>0. n \in Nat
  OBVIOUS
<1>1. PICK r : /\ r[0] = NoItem
               /\ \A k \in 1 .. n : r[k] = ItemStep(s, r[k - 1], k)
               /\ Items(s) = Append(r[n].items, r[n].item)
  BY ItemsFold
<1> DEFINE T == {k \in Nat : k \in 0 .. n => Good(k, r[k])}
<1>2. 0 \in T
  <2> DEFINE its == <<>>
  <2>1. CutsTo(s, 0) = {}
    BY <1>0, CutsStep
  <2>2. Item(s, 0, 0 + 1) = <<>>
    <3>1. 0 <= 0 /\ 0 <= Len(s) /\ ~\E m \in 0 + 1 .. 0 : TRUE
      BY <1>0
    <3> QED BY <3>1, ItemFirst
  <2>3. its \in Seq(Seq(C)) /\ Len(its) = 0 /\ Cardinality(CutsTo(s, 0)) = 0
    BY <2>1, FS_EmptySet
  <2> HIDE DEF its
  <2>4. ItemsAt(s, 0, its, 0, C)
    BY <2>1, <2>3 DEF ItemsAt
  <2>5. r[0] = ScanOf(its, 0, Item(s, 0, 0 + 1))
    BY <1>1, <2>2 DEF NoItem, ScanOf, its
  <2> QED BY <2>4, <2>5
<1>3. ASSUME NEW k \in Nat, k \in T, k + 1 \in 0 .. n PROVE Good(k + 1, r[k + 1])
  <2>1. k \in 0 .. n /\ k + 1 \in 1 .. n /\ (k + 1) - 1 = k /\ k + 1 <= n /\ (k + 1) + 1 = k + 2
    BY <1>3
  <2>2. PICK its, p : ItemsAt(s, k, its, p, C) /\ r[k] = ScanOf(its, p, Item(s, p, k + 1))
    BY <1>3, <2>1
  <2>3. r[k + 1] = ItemStep(s, ScanOf(its, p, Item(s, p, k + 1)), k + 1)
    BY <1>1, <2>1, <2>2
  <2>4. PICK o, all : /\ ItemsAt(s, k + 1, all, o, C)
                      /\ ItemStep(s, ScanOf(its, p, Item(s, p, k + 1)), k + 1) = ScanOf(all, o, Item(s, o, k + 2))
    BY <2>1, <2>2, ItemsStep
  <2>5. r[k + 1] = ScanOf(all, o, Item(s, o, (k + 1) + 1))
    BY <2>1, <2>3, <2>4
  <2> QED BY <2>4, <2>5
<1>4. Good(n, r[n])
  <2>1. \A k \in Nat : k \in T => k + 1 \in T
    BY <1>3
  <2>2. \A k \in Nat : k \in T
    <3> HIDE DEF T
    <3> QED BY <1>2, <2>1, NatInd
  <2>3. n \in 0 .. n
    BY <1>0
  <2> QED BY <1>0, <2>2, <2>3
<1>5. PICK its, p : ItemsAt(s, n, its, p, C) /\ r[n] = ScanOf(its, p, Item(s, p, n + 1))
  BY <1>4
<1> DEFINE last == Item(s, p, n + 1)
<1>6. Items(s) = Append(its, last)
  BY <1>1, <1>5 DEF ScanOf
<1>7. /\ p \in Cuts(s) \cup {0} /\ \A j \in Cuts(s) : j <= p
      /\ its \in Seq(Seq(C)) /\ Len(its) = Cardinality(Cuts(s))
      /\ \A o \in (Cuts(s) \cup {0}) \ {p} :
            its[Cardinality(CutsTo(s, o)) + 1] = Item(s, o, CutBehind(s, o))
  BY <1>0, <1>5, CutsStep DEF ItemsAt
<1>8. p \in Nat /\ p <= n /\ last \in Seq(C)
  <2>1. Cuts(s) \subseteq 1 .. n
    BY <1>0, CutsFinite
  <2>2. p \in Nat /\ p <= n
    BY <1>0, <1>7, <2>1
  <2> HIDE DEF n
  <2>3. last = <<>> \/ last \in Seq(C)
    <3>1. n <= Len(s)
      BY <1>0 DEF n
    <3> QED BY <1>0, <2>2, <3>1, ItemFirst
  <2> QED BY <2>2, <2>3, EmptySeq
<1>9. /\ Cardinality(CutsTo(s, p)) = Cardinality(Cuts(s))
      /\ \A o \in (Cuts(s) \cup {0}) \ {p} : Cardinality(CutsTo(s, o)) + 1 \in 1 .. Cardinality(Cuts(s))
      /\ CutBehind(s, p) = n + 1
  <2>1. CutsTo(s, n) = Cuts(s) /\ n \in 0 .. Len(s) /\ n + 1 \in Cuts(s) \cup {Len(s) + 1}
    BY <1>0, CutsStep
  <2> HIDE DEF n
  <2>2. /\ Cardinality(CutsTo(s, p)) = Cardinality(CutsTo(s, n))
        /\ \A o \in (CutsTo(s, n) \cup {0}) \ {p} :
              Cardinality(CutsTo(s, o)) + 1 \in 1 .. Cardinality(CutsTo(s, n))
        /\ n + 1 \in Cuts(s) \cup {Len(s) + 1} => CutBehind(s, p) = n + 1
    BY <1>7, <2>1, CutNumber
  <2> QED BY <2>1, <2>2
<1> DEFINE X == Seq(C)
           all == Append(its, last)
<1>10. its \in Seq(X) /\ last \in X
  BY <1>7, <1>8
<1> HIDE DEF X, last
<1>11. /\ all \in Seq(X) /\ Len(all) = Len(its) + 1 /\ all[Len(its) + 1] = last
       /\ \A m \in 1 .. Len(its) : all[m] = its[m]
  BY <1>10, AppendProperties
<1> HIDE DEF all
<1>12. ASSUME NEW o \in Cuts(s) \cup {0}
       PROVE  all[Cardinality(CutsTo(s, o)) + 1] = Item(s, o, CutBehind(s, o))
  <2>1. CASE o = p
    BY <1>7, <1>9, <1>11, <2>1 DEF last
  <2>2. CASE o # p
    BY <1>7, <1>9, <1>11, <2>2
  <2> QED BY <2>1, <2>2
<1>13. SplitInto(s, all) /\ all \in Seq(Seq(C))
  BY <1>7, <1>11, <1>12 DEF SplitInto, X
<1> QED BY <1>6, <1>13 DEF all

(* A list without quotes is split at its cuts: it never has more items than *)
(* the array has room for.                                                  *)
THEOREM ListSplit ==
  ASSUME NEW C, NEW s \in Seq(C), Plain(s)
  PROVE  delistify(s) = Items(s) /\ SplitInto(s, delistify(s)) /\ delistify(s) \in Seq(Seq(C))
<1> DEFINE scan == Scan(s)
           c == Cardinality(Commas(s, Len(s)))
<1>1. scan = [q |-> "none", seps |-> c, quotes |-> 0]
  BY ScanPlain
<1>2. Items(s) \in Seq(Seq(C)) /\ SplitInto(s, Items(s))
  BY ItemsPlain
<1>3. c \in Nat /\ Cardinality(Cuts(s)) <= c /\ Cardinality(Cuts(s)) \in Nat
  BY CommasStep, CutsFinite, LenProperties
<1>4. ~(Len(Items(s)) > c + 1)
  BY <1>2, <1>3 DEF SplitInto
<1>5. "none" \notin Quotes
  BY DEF Quotes
<1> HIDE DEF scan, c
<1>6. scan.q \notin Quotes /\ scan.seps = c /\ scan.quotes = 0
  BY <1>1, <1>5
<1>7. delistify(s) = Items(s)
  <2> DEFINE opened == scan.q \in Quotes /\ s[Len(s)] = scan.q
             quotes == scan.quotes + (IF opened THEN 1 ELSE 0)
  <2>1. ~opened
    BY <1>6
  <2>2. quotes = 0
    BY <1>6, <2>1
  <2>3. ~((scan.q \in Quotes /\ ~opened) \/ quotes % 2 # 0)
    BY <1>6, <2>2
  <2>4. ~(opened \/ (scan.seps < 3 /\ Len(Items(s)) > scan.seps + 1))
    BY <1>4, <1>6, <2>1
  <2>5. delistify(s) = IF (scan.q \in Quotes /\ ~opened) \/ quotes % 2 # 0 THEN NULL
                       ELSE IF opened \/ (scan.seps < 3 /\ Len(Items(s)) > scan.seps + 1) THEN Overrun
                       ELSE Items(s)
    BY DEF delistify, scan
  <2> HIDE DEF opened, quotes
  <2> QED BY <2>3, <2>4, <2>5
<1> QED BY <1>2, <1>7

Inputs == [kind : {"line"}, of : Lines] \cup [kind : {"list"}, of : Lists]
            \cup [kind : {"conf"}, of : Confs] \cup [kind : {"written"}, of : Written]

\* What a hook or a program gets of a line.
AskedOf(raw) == mkargv(Asked, [raw |-> raw, modes |-> {}, network |-> <<"N">>])
LineRead(msg) == [sender |-> get_sender(msg, 512), command |-> get_command(msg, 32),
                  tail |-> get_tail(msg, 512),
                  params |-> [n \in 1..4 |-> get_param(msg, 512, n)], argv |-> AskedOf(msg)]

(* What was read is what there is to read, and is read as the code does.     *)
ReadInv ==
  /\ input \in Inputs
  /\ Done("line") => output = LineRead(Raw(input.of))
  /\ Done("list") => output = delistify(input.of)
  /\ Done("written") =>
        LET ops == mod_watcher(Text(input.of))
        IN output = [i \in DOMAIN ops |-> process_op(ops[i], <<"prog">>, NULL, Here)]

(* What was read of a line is what the functions of ircparser.c find in it, *)
(* a list that was read is what delistify makes of it, and what a program   *)
(* wrote is what process_op makes of what the watcher takes it apart to.    *)
THEOREM ReadRight == Spec => []ReadInv
<1>1. Init => ReadInv
  BY DEF Init, ReadInv, Inputs, Done
<1>2. ReadInv /\ [Next]_vars => ReadInv'
  <2> SUFFICES ASSUME ReadInv, [Next]_vars PROVE ReadInv'
    OBVIOUS
  <2>1. CASE UNCHANGED vars
    BY <2>1 DEF ReadInv, vars, Done
  <2>2. CASE Next
    <3>1. input' = input
      BY <2>2 DEF Next
    <3>2. CASE ReadLine
      BY <3>1, <3>2 DEF ReadInv, ReadLine, Is, Done, LineRead, AskedOf, Asked
    <3>3. CASE ReadList
      BY <3>1, <3>3 DEF ReadInv, ReadList, Is, Done
    <3>4. CASE ReadConf
      BY <3>1, <3>4 DEF ReadInv, ReadConf, Is, Done
    <3>5. CASE ReadWritten
      BY <3>1, <3>5 DEF ReadInv, ReadWritten, Is, Done
    <3> QED BY <2>2, <3>2, <3>3, <3>4, <3>5 DEF Next
  <2> QED BY <2>1, <2>2
<1> QED BY <1>1, <1>2, PTL DEF Spec

(* A list of the run has no quotes.                                         *)
LEMMA ListsPlain ==
  ASSUME NEW s \in Lists
  PROVE  s \in Seq({"a", Comma, Space, "\\"}) /\ Plain(s)
<1> DEFINE C == {"a", Comma, Space, "\\"}
<1>1. PICK k \in 0 .. MaxList - 1 : \E t \in [1 .. k -> C] : s = <<"a">> \o t
  BY DEF Lists, UpTo
<1>t. PICK t \in [1 .. k -> C] : s = <<"a">> \o t
  BY <1>1
<1>2. "a" \notin {Space, Comma} /\ \A c \in C : c \notin Quotes
  BY Zenon DEF Space, Comma, Quotes
<1>3. t \in Seq(C) /\ <<"a">> \in Seq(C) /\ Len(t) = k /\ Len(<<"a">>) = 1 /\ <<"a">>[1] = "a"
  <2>1. "a" \in C
    OBVIOUS
  <2> HIDE DEF C
  <2> QED BY <1>t, <2>1
<1> HIDE DEF C
<1>4. /\ s \in Seq(C) /\ Len(s) = 1 + Len(t)
      /\ \A i \in 1 .. 1 + Len(t) : s[i] = IF i <= 1 THEN <<"a">>[i] ELSE t[i - 1]
  BY <1>t, <1>3, ConcatProperties
<1>5. s[1] = "a" /\ s # <<>>
  <2>1. Len(s) # 0 /\ 1 \in 1 .. 1 + Len(t)
    BY <1>3, <1>4
  <2> QED BY <1>3, <1>4, <2>1, EmptySeq
<1>6. \A i \in DOMAIN s : s[i] \notin Quotes
  BY <1>2, <1>4
<1> QED BY <1>2, <1>4, <1>5, <1>6 DEF Plain, C

(* Every list without quotes is cut at the commas no backslash is before,   *)
(* however long the lists are.                                              *)
THEOREM ListsAreSplit == Spec => []ListsSplit
<1>1. ReadInv => ListsSplit
  <2> SUFFICES ASSUME ReadInv, Done("list") PROVE ListsSplit
    BY DEF ListsSplit
  <2> DEFINE s == input.of
  <2>1. input.kind = "list" /\ output = delistify(s)
    BY DEF ReadInv, Done
  <2>2. s \in Lists
    BY <2>1 DEF ReadInv, Inputs
  <2> HIDE DEF s
  <2>3. SplitInto(s, output)
    BY <2>1, <2>2, ListsPlain, ListSplit
  <2> QED BY <2>3 DEF ListsSplit, SplitInto, CutsTo, s
<1> QED BY <1>1, ReadRight, PTL

(* The watcher reads one character after the other.                        *)
Ends == LineEnd \cup {"NUL"}
WatchState(C) == [buf : Seq(C), ops : Seq(Seq(C))]
NoWatch == [buf |-> <<>>, ops |-> <<>>]

WatchStep(st, c) == IF c \notin Ends THEN [st EXCEPT !.buf = Append(@, c)]
                    ELSE IF st.buf = <<>> THEN st
                    ELSE [buf |-> <<>>, ops |-> Append(st.ops, st.buf)]

St(buf, ops) == [buf |-> buf, ops |-> ops]

Watched(text, r) == r[0] = NoWatch /\ \A k \in 1 .. Len(text) : r[k] = WatchStep(r[k - 1], text[k])

\* p has no end of a line, e has nothing else, and p is in text behind m.
Endless(p) == \A i \in 1 .. Len(p) : p[i] \notin Ends
AllEnds(e) == e # <<>> /\ \A i \in 1 .. Len(e) : e[i] \in Ends
Behind(text, m, p) == m + Len(p) <= Len(text) /\ \A i \in 1 .. Len(p) : text[m + i] = p[i]

(* Until is behind the end of a text that has none of the characters.      *)
LEMMA UntilNone ==
  ASSUME NEW C, NEW s \in Seq(C), NEW from \in Nat, NEW chars,
         \A k \in from .. Len(s) : s[k] \notin chars
  PROVE  Until(s, from, chars) = Len(s) + 1
<1> DEFINE t == {k \in from .. Len(s) : s[k] \in chars} \cup {Len(s) + 1}
<1>1. t = {Len(s) + 1}
  OBVIOUS
<1>2. Len(s) + 1 \in t /\ t \in SUBSET Nat /\ \A y \in t : Len(s) + 1 <= y
  BY <1>1
<1> HIDE DEF t
<1>3. Min(t) = Len(s) + 1
  BY <1>2, MinIs
<1> QED BY <1>3 DEF Until, t

(* Until finds the first of the characters where there is one.             *)
LEMMA UntilAt ==
  ASSUME NEW C, NEW s \in Seq(C), NEW from \in Nat, NEW chars,
         NEW m \in from .. Len(s), s[m] \in chars, \A k \in from .. m - 1 : s[k] \notin chars
  PROVE  Until(s, from, chars) = m
<1> DEFINE t == {k \in from .. Len(s) : s[k] \in chars} \cup {Len(s) + 1}
<1>1. m \in t
  OBVIOUS
<1>2. t \in SUBSET Nat
  OBVIOUS
<1>3. ASSUME NEW y \in t PROVE m <= y
  <2>1. CASE y = Len(s) + 1
    BY <2>1
  <2>2. CASE y \in from .. Len(s) /\ s[y] \in chars
    <3>1. y \notin from .. m - 1
      BY <2>2
    <3> QED BY <2>2, <3>1
  <2> QED BY <2>1, <2>2
<1> HIDE DEF t
<1>4. Min(t) = m
  BY <1>1, <1>2, <1>3, MinIs
<1> QED BY <1>4 DEF Until, t

(* A sequence over a set is one over a greater set.                        *)
LEMMA SeqWiden ==
  ASSUME NEW A, NEW B, A \subseteq B, NEW s \in Seq(A)
  PROVE  s \in Seq(B)
<1>1. Len(s) \in Nat /\ \A k \in 1 .. Len(s) : s[k] \in B
  OBVIOUS
<1>2. s \in [1 .. Len(s) -> B]
  <2>1. s = [k \in 1 .. Len(s) |-> s[k]]
    OBVIOUS
  <2> QED BY <1>1, <2>1
<1> QED BY <1>1, <1>2

(* What stands behind a position is a subsequence.                         *)
LEMMA SubSeqBehind ==
  ASSUME NEW C, NEW m \in Seq(C), NEW p \in Nat, NEW w \in Seq(C), Behind(m, p, w)
  PROVE  SubSeq(m, p + 1, p + Len(w)) = w
<1> DEFINE z == SubSeq(m, p + 1, p + Len(w))
           l == Len(w)
<1>0. l \in Nat /\ Len(m) \in Nat /\ p + l <= Len(m) /\ \A i \in 1 .. l : m[p + i] = w[i]
  BY DEF Behind
<1>1. z \in Seq(C) /\ Len(z) = l /\ \A i \in 1 .. l : z[i] = m[p + i]
  <2> DEFINE a == p + 1
             c == p + l
  <2>1. a \in Nat /\ c \in Nat /\ a <= c + 1 /\ (\A i \in a .. c : i \in 1 .. Len(m)) /\ (c - a) + 1 = l
    BY <1>0
  <2>2. \A i \in a .. c : m[i] \in C
    BY <2>1
  <2>3. SubSeq(m, a, c) = [i \in 1 .. (c - a) + 1 |-> m[(i + a) - 1]]
    BY <2>1
  <2>4. \A i \in 1 .. l : (i + a) - 1 = p + i /\ p + i \in a .. c
    BY <1>0
  <2>5. z = [i \in 1 .. l |-> m[p + i]]
    <3>1. \A i \in 1 .. l : m[(i + a) - 1] = m[p + i]
      BY <2>4
    <3> HIDE DEF a
    <3> QED BY <2>1, <2>3, <3>1 DEF a
  <2>6. \A i \in 1 .. l : m[p + i] \in C
    BY <2>2, <2>4
  <2> HIDE DEF z, l
  <2> QED BY <1>0, <2>5, <2>6
<1> HIDE DEF z
<1>2. \A i \in 1 .. Len(z) : z[i] = w[i]
  BY <1>0, <1>1
<1>3. z = w
  BY <1>1, <1>2, SeqEqual
<1> QED BY <1>3 DEF z

(* Up to the byte that is EOF the watcher reads all that is written.        *)
LEMMA BytesRead ==
  ASSUME NEW C, Byte255 \notin C, NEW t \in Seq(C),
         NEW D, NEW rest \in Seq(D), rest = <<>> \/ rest[1] = Byte255
  PROVE  ReadBytes(t \o rest) = t
<1> DEFINE E == C \cup D
           s == t \o rest
           n == Len(t)
           l == Len(rest)
<1>1. t \in Seq(E) /\ rest \in Seq(E)
  BY SeqWiden
<1>2. n \in Nat /\ l \in Nat /\ \A i \in 1 .. n : t[i] # Byte255
  OBVIOUS
<1> HIDE DEF E
<1>3. /\ s \in Seq(E) /\ Len(s) = n + l
      /\ \A i \in 1 .. n + l : s[i] = IF i <= n THEN t[i] ELSE rest[i - n]
  BY <1>1, ConcatProperties
<1> HIDE DEF s
<1>4. \A i \in 1 .. n : s[i] = t[i] /\ s[i] \notin {Byte255}
  BY <1>2, <1>3
<1>5. Until(s, 1, {Byte255}) = n + 1
  <2>1. CASE rest = <<>>
    <3>1. Len(s) = n
      <4>1. l = 0
        BY <2>1
      <4> QED BY <1>2, <1>3, <4>1
    <3>2. \A k \in 1 .. Len(s) : s[k] \notin {Byte255}
      BY <1>4, <3>1
    <3> QED BY <1>3, <3>1, <3>2, UntilNone
  <2>2. CASE rest # <<>>
    <3> DEFINE m == n + 1
    <3>1. l # 0
      <4>1. Len(rest) = 0 => rest = <<>>
        BY <1>1, EmptySeq
      <4> QED BY <2>2, <4>1
    <3>2. m \in 1 .. Len(s) /\ s[m] \in {Byte255}
      <4>1. rest[1] = Byte255 /\ m \in 1 .. n + l /\ ~(m <= n) /\ m - n = 1
        BY <1>2, <2>2, <3>1
      <4>2. s[m] = rest[m - n]
        BY <1>3, <4>1
      <4> QED BY <1>3, <4>1, <4>2
    <3>3. \A k \in 1 .. m - 1 : s[k] \notin {Byte255}
      BY <1>2, <1>4
    <3> HIDE DEF m
    <3>4. Until(s, 1, {Byte255}) = m
      BY <1>3, <3>2, <3>3, UntilAt
    <3> QED BY <3>4 DEF m
  <2> QED BY <2>1, <2>2
<1>6. SubSeq(s, 1, n) = t
  <2>1. Behind(s, 0, t)
    <3>1. \A i \in 1 .. n : s[0 + i] = t[i]
      BY <1>4
    <3> QED BY <1>2, <1>3, <3>1 DEF Behind
  <2>2. SubSeq(s, 0 + 1, 0 + Len(t)) = t
    BY <1>1, <1>3, <2>1, SubSeqBehind
  <2> QED BY <1>2, <2>2
<1>7. ReadBytes(s) = SubSeq(s, 1, (n + 1) - 1)
  BY <1>5 DEF ReadBytes
<1> QED BY <1>2, <1>6, <1>7 DEF s

(* Its state is a fold over what it reads of what was written.              *)
LEMMA WatchFold ==
  ASSUME NEW C, NEW s \in Seq(C), NEW written, ReadBytes(written) = s
  PROVE  \E r : Watched(s, r) /\ mod_watcher(written) = r[Len(s)].ops
<1> DEFINE n == Len(s)
           G == [p \in (1 .. n) \X WatchState(C) |-> WatchStep(p[2], s[p[1]])]
           P(h) == h = [t \in SUBSET (1 .. n) |->
                          IF t = {} THEN NoWatch ELSE WatchStep(h[t \ {Max(t)}], s[Max(t)])]
<1>0. n \in Nat /\ DOMAIN s = 1 .. n
  OBVIOUS
<1>1. ASSUME NEW i \in 1 .. n, NEW x \in WatchState(C)
      PROVE  G[<<i, x>>] = WatchStep(x, s[i]) /\ G[<<i, x>>] \in WatchState(C)
  <2>1. G[<<i, x>>] = WatchStep(x, s[i])
    <3>1. <<i, x>> \in (1 .. n) \X WatchState(C) /\ <<i, x>>[1] = i /\ <<i, x>>[2] = x
      OBVIOUS
    <3> QED BY <3>1
  <2>2. s[i] \in C
    BY <1>0
  <2>3. x.buf \in Seq(C) /\ x.ops \in Seq(Seq(C)) /\ <<>> \in Seq(C)
    BY EmptySeq DEF WatchState
  <2>4. Append(x.buf, s[i]) \in Seq(C) /\ Append(x.ops, x.buf) \in Seq(Seq(C))
    BY <2>2, <2>3, AppendProperties
  <2>5. [x EXCEPT !.buf = Append(@, s[i])] \in WatchState(C)
    BY <2>4 DEF WatchState
  <2>6. [buf |-> <<>>, ops |-> Append(x.ops, x.buf)] \in WatchState(C)
    BY <2>3, <2>4 DEF WatchState
  <2>7. WatchStep(x, s[i]) \in WatchState(C)
    BY <2>5, <2>6 DEF WatchStep
  <2> QED BY <2>1, <2>7
<1>2. NoWatch \in WatchState(C)
  <2>1. <<>> \in Seq(C) /\ <<>> \in Seq(Seq(C))
    BY EmptySeq
  <2> QED BY <2>1 DEF NoWatch, WatchState
<1> HIDE DEF G, n
<1>3. PICK g : Folding(g, n, NoWatch, G) /\ \A t \in SUBSET (1 .. n) : g[t] \in WatchState(C)
  BY <1>0, <1>1, <1>2, FoldExists
<1>4. P(g)
  <2>1. ASSUME NEW t \in SUBSET (1 .. n), t # {}
        PROVE  G[<<Max(t), g[t \ {Max(t)}]>>] = WatchStep(g[t \ {Max(t)}], s[Max(t)])
    <3>1. Max(t) \in 1 .. n
      BY <1>0, <2>1, MaxIn
    <3>2. g[t \ {Max(t)}] \in WatchState(C)
      BY <1>3
    <3> QED BY <1>0, <1>1, <3>1, <3>2
  <2>2. g = [t \in SUBSET (1 .. n) |-> IF t = {} THEN NoWatch ELSE G[<<Max(t), g[t \ {Max(t)}]>>]]
    BY <1>3 DEF Folding
  <2> QED BY <2>1, <2>2
<1> DEFINE f == CHOOSE h : P(h)
<1>5. P(f)
  BY <1>4
<1>6. mod_watcher(written) = f[1 .. n].ops
  BY <1>0 DEF mod_watcher, FoldLeft, MapThenFoldSet, NoWatch, WatchStep, Ends
<1> HIDE DEF f
<1>7. f[1 .. 0] = NoWatch
  <2>1. {} \in SUBSET (1 .. n) /\ 1 .. 0 = {}
    OBVIOUS
  <2> QED BY <1>5, <2>1
<1>8. ASSUME NEW k \in 1 .. n PROVE f[1 .. k] = WatchStep(f[1 .. (k - 1)], s[k])
  <2>1. /\ 1 .. k \in SUBSET (1 .. n) /\ 1 .. k # {}
        /\ Max(1 .. k) = k /\ (1 .. k) \ {k} = 1 .. (k - 1)
    BY <1>0, Positions
  <2>2. f[1 .. k] = WatchStep(f[(1 .. k) \ {Max(1 .. k)}], s[Max(1 .. k)])
    BY <1>5, <2>1
  <2> QED BY <2>1, <2>2
<1> DEFINE r == [k \in 0 .. n |-> f[1 .. k]]
<1>9. r[0] = NoWatch /\ (\A k \in 1 .. n : r[k] = WatchStep(r[k - 1], s[k])) /\ r[n] = f[1 .. n]
  <2>1. 0 \in 0 .. n /\ n \in 0 .. n /\ \A k \in 1 .. n : k \in 0 .. n /\ k - 1 \in 0 .. n
    BY <1>0
  <2> QED BY <1>7, <1>8, <2>1
<1> HIDE DEF r
<1> QED BY <1>6, <1>9 DEF n, Watched

(* The first i characters and the next one are the first i + 1.            *)
LEMMA SubSeqGrows ==
  ASSUME NEW C, NEW p \in Seq(C), NEW i \in Nat, i + 1 <= Len(p)
  PROVE  Append(SubSeq(p, 1, i), p[i + 1]) = SubSeq(p, 1, i + 1)
<1>1. i \in 0 .. Len(p) /\ i + 1 \in 1 .. Len(p) /\ p[i + 1] \in C
  OBVIOUS
<1> DEFINE a == SubSeq(p, 1, i)
           b == SubSeq(p, 1, i + 1)
           x == p[i + 1]
<1>2. a \in Seq(C) /\ Len(a) = i /\ \A k \in 1 .. i : a[k] = p[k]
  BY <1>1, SubSeqProperties
<1>3. b \in Seq(C) /\ Len(b) = i + 1 /\ \A k \in 1 .. i + 1 : b[k] = p[k]
  BY <1>1, SubSeqProperties
<1> HIDE DEF a, b
<1>4. /\ Append(a, x) \in Seq(C) /\ Len(Append(a, x)) = i + 1
      /\ Append(a, x)[i + 1] = x /\ \A k \in 1 .. i : Append(a, x)[k] = a[k]
  BY <1>1, <1>2, AppendProperties
<1>5. \A k \in 1 .. i + 1 : Append(a, x)[k] = b[k]
  BY <1>2, <1>3, <1>4
<1>6. Append(a, x) = b
  BY <1>3, <1>4, <1>5, SeqEqual
<1> QED BY <1>6 DEF a, b

(* Characters that end no line are kept in the buffer.                     *)
LEMMA WatchRun ==
  ASSUME NEW C, NEW text \in Seq(C), NEW r, Watched(text, r),
         NEW m \in Nat, NEW p \in Seq(C), Endless(p), Behind(text, m, p),
         NEW ops, r[m] = St(<<>>, ops)
  PROVE  r[m + Len(p)] = St(p, ops)
<1> DEFINE n == Len(p)
           At(k) == [buf |-> SubSeq(p, 1, k), ops |-> ops]
           T == {i \in Nat : i \in 0 .. n => r[m + i] = At(i)}
<1>0. n \in Nat /\ m + n <= Len(text) /\ \A i \in 1 .. n : text[m + i] = p[i] /\ p[i] \notin Ends
  BY DEF Endless, Behind
<1>1. 0 \in T
  <2>1. SubSeq(p, 1, 0) = <<>> /\ m + 0 = m
    BY SubSeqProperties
  <2> QED BY <2>1 DEF St
<1>2. ASSUME NEW i \in Nat, i \in T, i + 1 \in 0 .. n
      PROVE  r[m + (i + 1)] = At(i + 1)
  <2>1. i \in 0 .. n /\ i + 1 \in 1 .. n /\ (m + (i + 1)) - 1 = m + i /\ m + (i + 1) \in 1 .. Len(text)
    BY <1>0, <1>2
  <2>2. r[m + i] = [buf |-> SubSeq(p, 1, i), ops |-> ops]
    BY <1>2, <2>1
  <2>3. r[m + (i + 1)] = WatchStep(r[(m + (i + 1)) - 1], text[m + (i + 1)])
    BY <2>1 DEF Watched
  <2>4. text[m + (i + 1)] = p[i + 1] /\ p[i + 1] \notin Ends
    BY <1>0, <2>1
  <2>5. Append(SubSeq(p, 1, i), p[i + 1]) = SubSeq(p, 1, i + 1)
    BY <2>1, SubSeqGrows
  <2> DEFINE st == r[m + i]
  <2>6. r[m + (i + 1)] = [st EXCEPT !.buf = Append(@, p[i + 1])]
    <3>1. r[m + (i + 1)] = WatchStep(st, p[i + 1])
      BY <2>1, <2>3, <2>4
    <3> HIDE DEF st
    <3> QED BY <2>4, <3>1 DEF WatchStep
  <2> DEFINE b == SubSeq(p, 1, i)
             x == p[i + 1]
  <2>7. [[buf |-> b, ops |-> ops] EXCEPT !.buf = Append(@, x)] = [buf |-> Append(b, x), ops |-> ops]
    <3> DEFINE y == Append(b, x)
               w == [buf |-> b, ops |-> ops]
    <3>1. w.buf = b
      OBVIOUS
    <3>2. [w EXCEPT !.buf = Append(@, x)] = [w EXCEPT !.buf = y]
      BY <3>1
    <3>3. [w EXCEPT !.buf = y] = [buf |-> y, ops |-> ops]
      <4> HIDE DEF y
      <4> QED OBVIOUS
    <3> QED BY <3>2, <3>3
  <2> QED BY <2>2, <2>5, <2>6, <2>7
<1>3. \A i \in Nat : i \in T
  <2>1. \A i \in Nat : i \in T => i + 1 \in T
    <3> HIDE DEF At
    <3> QED BY <1>2
  <2> HIDE DEF T
  <2> QED BY <1>1, <2>1, NatInd
<1>4. SubSeq(p, 1, n) = p
  OBVIOUS
<1> QED BY <1>0, <1>3, <1>4 DEF St

(* An end of a line empties the buffer of the watcher, into an operation   *)
(* unless it is empty.                                                     *)
LEMMA EndStep ==
  ASSUME NEW c \in Ends, NEW buf, NEW ops
  PROVE  WatchStep([buf |-> buf, ops |-> ops], c)
           = [buf |-> <<>>, ops |-> IF buf = <<>> THEN ops ELSE Append(ops, buf)]
<1> DEFINE st == [buf |-> buf, ops |-> ops]
<1>1. st.buf = buf /\ st.ops = ops
  OBVIOUS
<1>2. CASE buf = <<>>
  BY <1>1, <1>2 DEF WatchStep
<1>3. CASE buf # <<>>
  BY <1>1, <1>3 DEF WatchStep
<1> QED BY <1>2, <1>3

(* Any number of ends of a line makes one operation, of a buffer that is   *)
(* not empty.                                                              *)
LEMMA WatchEnd ==
  ASSUME NEW C, NEW text \in Seq(C), NEW r, Watched(text, r),
         NEW m \in Nat, NEW e \in Seq(C), AllEnds(e), Behind(text, m, e),
         NEW buf, NEW ops, r[m] = St(buf, ops)
  PROVE  r[m + Len(e)] = St(<<>>, IF buf = <<>> THEN ops ELSE Append(ops, buf))
<1> DEFINE n == Len(e)
           new == [buf |-> <<>>, ops |-> IF buf = <<>> THEN ops ELSE Append(ops, buf)]
           T == {i \in Nat : i + 1 \in 1 .. n => r[m + (i + 1)] = new}
<1>0. n \in Nat \ {0} /\ m + n <= Len(text) /\ \A i \in 1 .. n : text[m + i] = e[i] /\ e[i] \in Ends
  BY EmptySeq DEF AllEnds, Behind
<1>1. 0 \in T
  <2>1. 1 \in 1 .. n /\ m + 1 \in 1 .. Len(text) /\ (m + 1) - 1 = m
    BY <1>0
  <2>2. r[m + 1] = WatchStep(r[(m + 1) - 1], text[m + 1])
    BY <2>1 DEF Watched
  <2>3. text[m + 1] \in Ends
    BY <1>0, <2>1
  <2>4. r[m + 1] = WatchStep([buf |-> buf, ops |-> ops], text[m + 1])
    BY <2>1, <2>2 DEF St
  <2>5. r[m + 1] = new
    BY <2>3, <2>4, EndStep
  <2> QED BY <2>5
<1>2. ASSUME NEW i \in Nat, i \in T, (i + 1) + 1 \in 1 .. n
      PROVE  r[m + ((i + 1) + 1)] = new
  <2>1. i + 1 \in 1 .. n /\ (m + ((i + 1) + 1)) - 1 = m + (i + 1) /\ m + ((i + 1) + 1) \in 1 .. Len(text)
    BY <1>0, <1>2
  <2>2. r[m + (i + 1)] = new
    BY <1>2, <2>1
  <2> DEFINE j == m + ((i + 1) + 1)
  <2>3. r[j] = WatchStep(r[j - 1], text[j])
    BY <2>1 DEF Watched
  <2>4. text[j] \in Ends
    BY <1>0, <1>2
  <2>5. r[j - 1] = new
    BY <2>1, <2>2
  <2> HIDE DEF j
  <2>6. r[j] = new
    <3>1. new.buf = <<>>
      OBVIOUS
    <3> HIDE DEF new
    <3> QED BY <2>3, <2>4, <2>5, <3>1 DEF WatchStep
  <2> QED BY <2>6 DEF j
<1>3. \A i \in Nat : i \in T
  <2>1. \A i \in Nat : i \in T => i + 1 \in T
    <3> HIDE DEF new
    <3> QED BY <1>2
  <2> HIDE DEF T
  <2> QED BY <1>1, <2>1, NatInd
<1>4. (n - 1) + 1 \in 1 .. n /\ n - 1 \in Nat /\ (n - 1) + 1 = n
  BY <1>0
<1> QED BY <1>3, <1>4 DEF St

(* The members of a set of positions up to k, and how many there are.      *)
Among(S, n) == \A j \in S : j \in 1 .. n
Below(S, k) == {j \in S : j <= k}
NumBelow(S, k) == Cardinality(Below(S, k))

(* The members up to k are positions.                                      *)
LEMMA BelowIs ==
  ASSUME NEW n \in Nat, NEW S, Among(S, n), NEW k \in Nat
  PROVE  \A j : j \in Below(S, k) <=> j \in S /\ j \in 1 .. n /\ j <= k
BY DEF Below, Among

(* There are finitely many of them.                                        *)
LEMMA BelowFinite ==
  ASSUME NEW n \in Nat, NEW S, Among(S, n), NEW k \in Nat
  PROVE  IsFiniteSet(Below(S, k)) /\ NumBelow(S, k) \in Nat
<1>1. IsFiniteSet(1 .. n)
  BY FS_Interval
<1>2. Below(S, k) \in SUBSET (1 .. n)
  BY BelowIs
<1>3. IsFiniteSet(Below(S, k))
  BY <1>1, <1>2, FS_Subset
<1>4. Cardinality(Below(S, k)) \in Nat
  BY <1>3, FS_CardinalityType
<1> QED BY <1>3, <1>4 DEF NumBelow

(* There is one more member up to k + 1 than up to k if k + 1 is one, and  *)
(* as many if it is not.                                                   *)
LEMMA BelowStep ==
  ASSUME NEW n \in Nat, NEW S, Among(S, n), NEW k \in Nat
  PROVE  /\ NumBelow(S, k) \in Nat /\ NumBelow(S, 0) = 0 /\ Below(S, 0) = {}
         /\ k + 1 \in S => /\ Below(S, k + 1) = Below(S, k) \cup {k + 1}
                           /\ NumBelow(S, k + 1) = NumBelow(S, k) + 1
         /\ k + 1 \notin S => Below(S, k + 1) = Below(S, k) /\ NumBelow(S, k + 1) = NumBelow(S, k)
         /\ \A j \in Below(S, k) : NumBelow(S, j) \in 1 .. NumBelow(S, k)
         /\ Below(S, n) = S
<1>0. IsFiniteSet(Below(S, k)) /\ NumBelow(S, k) \in Nat /\ k + 1 \in Nat /\ 0 \in Nat
  BY BelowFinite
<1>1. Below(S, 0) = {} /\ Below(S, n) = S
  BY BelowIs DEF Among
<1>2. NumBelow(S, 0) = 0
  BY <1>1, FS_EmptySet DEF NumBelow
<1>3. ASSUME k + 1 \in S
      PROVE  /\ Below(S, k + 1) = Below(S, k) \cup {k + 1}
             /\ NumBelow(S, k + 1) = NumBelow(S, k) + 1
  <2>0. k + 1 \in 1 .. n
    BY <1>3 DEF Among
  <2>1. Below(S, k + 1) = Below(S, k) \cup {k + 1}
    BY <1>0, <1>3, <2>0, BelowIs
  <2>2. k + 1 \notin Below(S, k)
    BY <1>0, BelowIs
  <2>3. Cardinality(Below(S, k) \cup {k + 1}) = Cardinality(Below(S, k)) + 1
    BY <1>0, <2>2, FS_AddElement
  <2> QED BY <2>1, <2>3 DEF NumBelow
<1>4. ASSUME k + 1 \notin S
      PROVE  Below(S, k + 1) = Below(S, k) /\ NumBelow(S, k + 1) = NumBelow(S, k)
  <2>0. ASSUME NEW j PROVE j \in Below(S, k + 1) <=> j \in Below(S, k)
    <3>1. j \in Below(S, k + 1) <=> j \in S /\ j \in 1 .. n /\ j <= k + 1
      BY <1>0, BelowIs
    <3>2. j \in Below(S, k) <=> j \in S /\ j \in 1 .. n /\ j <= k
      BY <1>0, BelowIs
    <3>3. j \in S => j # k + 1
      BY <1>4
    <3> QED BY <3>1, <3>2, <3>3
  <2>1. Below(S, k + 1) = Below(S, k)
    BY <2>0
  <2> QED BY <2>1 DEF NumBelow
<1>5. ASSUME NEW j \in Below(S, k) PROVE NumBelow(S, j) \in 1 .. NumBelow(S, k)
  <2>0. j \in Nat /\ j \in S /\ j \in 1 .. n /\ j <= k
    BY BelowIs
  <2>1. j \in Below(S, j) /\ Below(S, j) \in SUBSET Below(S, k)
    BY <2>0, BelowIs
  <2>2. IsFiniteSet(Below(S, j)) /\ NumBelow(S, j) \in Nat
    BY <2>0, BelowFinite
  <2>3. Cardinality(Below(S, j)) <= Cardinality(Below(S, k))
    BY <1>0, <2>1, FS_Subset
  <2>4. Cardinality(Below(S, j)) # 0
    BY <2>1, <2>2, FS_EmptySet
  <2>5. NumBelow(S, j) <= NumBelow(S, k) /\ NumBelow(S, j) # 0
    BY <2>3, <2>4 DEF NumBelow
  <2> QED BY <1>0, <2>2, <2>5
<1> QED BY <1>0, <1>1, <1>2, <1>3, <1>4, <1>5

(* The first case of it alone.                                             *)
LEMMA BelowMore ==
  ASSUME NEW n \in Nat, NEW S, Among(S, n), NEW k \in Nat, k + 1 \in S
  PROVE  /\ Below(S, k + 1) = Below(S, k) \cup {k + 1} /\ NumBelow(S, k + 1) = NumBelow(S, k) + 1
         /\ \A j \in Below(S, k) : NumBelow(S, j) \in 1 .. NumBelow(S, k)
         /\ NumBelow(S, k) \in Nat
BY BelowStep

(* The lines up to k, each with its end, and the operations they make.     *)
Laid(puts, end, n, r) == r[0] = <<>> /\ \A k \in 1 .. n : r[k] = (r[k - 1] \o puts[k]) \o end

FullOf(puts, n) == {j \in 1 .. n : puts[j] # <<>>}

OpsAt(puts, n, k, ops, C) ==
  LET full == FullOf(puts, n)
  IN /\ ops \in Seq(Seq(C)) /\ Len(ops) = NumBelow(full, k)
     /\ \A j \in Below(full, k) : ops[NumBelow(full, j)] = puts[j]

(* A line more makes one operation more, unless it is empty.               *)
LEMMA OpsStep ==
  ASSUME NEW C, NEW n \in Nat, NEW puts \in [1 .. n -> Seq(C)], NEW k \in Nat, k + 1 \in 1 .. n,
         NEW ops, OpsAt(puts, n, k, ops, C)
  PROVE  OpsAt(puts, n, k + 1, IF puts[k + 1] = <<>> THEN ops ELSE Append(ops, puts[k + 1]), C)
<1> DEFINE S == FullOf(puts, n)
           X == Seq(C)
           p == puts[k + 1]
           new == Append(ops, p)
<1>1. /\ ops \in Seq(X) /\ Len(ops) = NumBelow(S, k)
      /\ \A j \in Below(S, k) : ops[NumBelow(S, j)] = puts[j]
  BY DEF OpsAt
<1>2a. Among(S, n)
  BY DEF FullOf, Among
<1>2. (k + 1 \in S <=> p # <<>>) /\ p \in X
  BY DEF FullOf, Among
<1> HIDE DEF S, X, p
<1>3. CASE p = <<>>
  <2>0. k + 1 \notin S
    BY <1>2, <1>3
  <2>1. Below(S, k + 1) = Below(S, k) /\ NumBelow(S, k + 1) = NumBelow(S, k)
    BY <1>2a, <2>0, BelowStep
  <2> QED BY <1>1, <1>3, <2>1 DEF OpsAt, S, X, p
<1>4. CASE p # <<>>
  <2>0. k + 1 \in S
    BY <1>2, <1>4
  <2>1. /\ Below(S, k + 1) = Below(S, k) \cup {k + 1} /\ NumBelow(S, k + 1) = NumBelow(S, k) + 1
        /\ \A j \in Below(S, k) : NumBelow(S, j) \in 1 .. NumBelow(S, k)
        /\ NumBelow(S, k) \in Nat
    BY <1>2a, <2>0, BelowMore
  <2>2. /\ new \in Seq(X) /\ Len(new) = Len(ops) + 1 /\ new[Len(ops) + 1] = p
        /\ \A i \in 1 .. Len(ops) : new[i] = ops[i]
    BY <1>1, <1>2, AppendProperties
  <2> HIDE DEF new
  <2>3. ASSUME NEW j \in Below(S, k + 1) PROVE new[NumBelow(S, j)] = puts[j]
    <3>1. CASE j = k + 1
      BY <1>1, <2>1, <2>2, <3>1 DEF p
    <3>2. CASE j \in Below(S, k)
      BY <1>1, <2>1, <2>2, <3>2
    <3> QED BY <2>1, <3>1, <3>2
  <2>4. new \in Seq(X) /\ Len(new) = NumBelow(S, k + 1)
    BY <1>1, <2>1, <2>2
  <2> QED BY <1>4, <2>3, <2>4 DEF OpsAt, S, X, p, new
<1> QED BY <1>3, <1>4

Puts(puts, end, n, r, C) ==
  /\ n \in Nat /\ puts \in [1 .. n -> Seq(C)] /\ \A i \in 1 .. n : Endless(puts[i])
  /\ end \in Seq(C) /\ AllEnds(end) /\ Laid(puts, end, n, r)

(* A text that goes on has been watched up to where it went on.            *)
LEMMA WatchedBefore ==
  ASSUME NEW C, NEW a \in Seq(C), NEW b \in Seq(C), NEW r, Watched(a \o b, r)
  PROVE  Watched(a, r) /\ Behind(a \o b, Len(a), b)
<1> DEFINE t == a \o b
<1>1. /\ Len(a) \in Nat /\ Len(b) \in Nat /\ Len(t) = Len(a) + Len(b)
      /\ \A i \in 1 .. Len(a) + Len(b) : t[i] = IF i <= Len(a) THEN a[i] ELSE b[i - Len(a)]
  BY ConcatProperties
<1> HIDE DEF t
<1>2. Watched(t, r)
  BY DEF t
<1>3. ASSUME NEW i \in 1 .. Len(a) PROVE i \in 1 .. Len(t) /\ t[i] = a[i]
  BY <1>1
<1>4. Watched(a, r)
  BY <1>2, <1>3 DEF Watched
<1>5. ASSUME NEW i \in 1 .. Len(b) PROVE t[Len(a) + i] = b[i]
  <2>1. Len(a) + i \in 1 .. Len(a) + Len(b) /\ ~(Len(a) + i <= Len(a)) /\ (Len(a) + i) - Len(a) = i
    BY <1>1
  <2> QED BY <1>1, <2>1
<1> QED BY <1>1, <1>4, <1>5 DEF Behind, t

(* Behind k lines the buffer is empty and each of them that is not empty   *)
(* is an operation.                                                        *)
LEMMA LinesWatched ==
  ASSUME NEW C, NEW n, NEW puts, NEW end, NEW r, Puts(puts, end, n, r, C), NEW u, Watched(r[n], u)
  PROVE  r[n] \in Seq(C) /\ \E ops : OpsAt(puts, n, n, ops, C) /\ u[Len(r[n])] = St(<<>>, ops)
<1> DEFINE Good(k) == /\ r[k] \in Seq(C)
                      /\ Watched(r[k], u) =>
                            \E ops : OpsAt(puts, n, k, ops, C) /\ u[Len(r[k])] = St(<<>>, ops)
           T == {k \in Nat : k \in 0 .. n => Good(k)}
<1>0. /\ n \in Nat /\ puts \in [1 .. n -> Seq(C)] /\ \A i \in 1 .. n : Endless(puts[i])
      /\ end \in Seq(C) /\ AllEnds(end) /\ Laid(puts, end, n, r)
  BY DEF Puts
<1>1. 0 \in T
  <2>1. r[0] = <<>> /\ <<>> \in Seq(C) /\ Len(<<>>) = 0
    BY <1>0, EmptySeq DEF Laid
  <2>2. OpsAt(puts, n, 0, <<>>, C)
    <3> DEFINE S == FullOf(puts, n)
    <3>1. Among(S, n)
      BY DEF FullOf, Among
    <3> HIDE DEF S
    <3>2. NumBelow(S, 0) = 0 /\ Below(S, 0) = {}
      BY <1>0, <3>1, BelowStep
    <3>3. <<>> \in Seq(Seq(C)) /\ Len(<<>>) = 0
      BY EmptySeq
    <3> QED BY <3>2, <3>3 DEF OpsAt, S
  <2>3. Watched(r[0], u) => u[0] = St(<<>>, <<>>)
    BY DEF Watched, NoWatch, St
  <2> QED BY <2>1, <2>2, <2>3
<1>2. ASSUME NEW k \in Nat, k \in T, k + 1 \in 0 .. n PROVE Good(k + 1)
  <2>1. k \in 0 .. n /\ k + 1 \in 1 .. n /\ (k + 1) - 1 = k
    BY <1>0, <1>2
  <2>2. Good(k)
    BY <1>2, <2>1
  <2> DEFINE a == r[k]
             p == puts[k + 1]
             t == r[k + 1]
  <2>3. t = (a \o p) \o end /\ a \in Seq(C) /\ p \in Seq(C)
    BY <1>0, <2>1, <2>2 DEF Laid
  <2>4. Endless(p)
    BY <1>0, <2>1
  <2>5. Watched(a, u) => \E ops : OpsAt(puts, n, k, ops, C) /\ u[Len(a)] = St(<<>>, ops)
    BY <2>2
  <2> HIDE DEF a, p, t
  <2> DEFINE b == a \o p
  <2>6. b \in Seq(C) /\ Len(b) = Len(a) + Len(p) /\ b \o end \in Seq(C)
        /\ Len(b \o end) = Len(b) + Len(end)
    BY <1>0, <2>3, ConcatProperties
  <2>7. t \in Seq(C)
    BY <2>3, <2>6
  <2>8. ASSUME Watched(t, u)
        PROVE  \E ops : OpsAt(puts, n, k + 1, ops, C) /\ u[Len(t)] = St(<<>>, ops)
    <3>1. Watched(b, u) /\ Behind(t, Len(b), end)
      <4> HIDE DEF b
      <4>1. Watched(b \o end, u)
        BY <2>3, <2>8 DEF b
      <4> QED BY <1>0, <2>3, <2>6, <4>1, WatchedBefore DEF b
    <3>2. Watched(a, u) /\ Behind(b, Len(a), p)
      BY <2>3, <3>1, WatchedBefore
    <3>3. PICK ops : OpsAt(puts, n, k, ops, C) /\ u[Len(a)] = St(<<>>, ops)
      BY <2>5, <3>2
    <3> HIDE DEF b
    <3>4. u[Len(a) + Len(p)] = St(p, ops)
      <4>1. Len(a) \in Nat
        BY <2>3
      <4> QED BY <2>3, <2>4, <2>6, <3>1, <3>2, <3>3, <4>1, WatchRun
    <3> DEFINE new == IF p = <<>> THEN ops ELSE Append(ops, p)
    <3>5. u[Len(b) + Len(end)] = St(<<>>, new)
      <4>1. Len(b) \in Nat /\ u[Len(b)] = St(p, ops)
        BY <2>6, <3>4
      <4> QED BY <1>0, <2>7, <2>8, <3>1, <4>1, WatchEnd
    <3>6. OpsAt(puts, n, k + 1, new, C)
      BY <1>0, <2>1, <3>3, OpsStep DEF p
    <3>7. Len(t) = Len(b) + Len(end)
      BY <2>3, <2>6 DEF b
    <3> QED BY <3>5, <3>6, <3>7
  <2> QED BY <2>7, <2>8 DEF t
<1>3. \A k \in Nat : k \in T
  <2>1. \A k \in Nat : k \in T => k + 1 \in T
    <3> HIDE DEF Good
    <3> QED BY <1>2
  <2> HIDE DEF T
  <2> QED BY <1>1, <2>1, NatInd
<1>4. Good(n)
  <2>1. n \in 0 .. n /\ n \in Nat
    BY <1>0
  <2> HIDE DEF Good
  <2> QED BY <1>3, <2>1
<1> QED BY <1>4

(* Lines that are put down are a text.                                      *)
LEMMA LaidText ==
  ASSUME NEW C, NEW n \in Nat, NEW puts \in [1 .. n -> Seq(C)], NEW end \in Seq(C),
         NEW r, Laid(puts, end, n, r)
  PROVE  r[n] \in Seq(C)
<1>1. r[0] = <<>> /\ <<>> \in Seq(C)
  BY EmptySeq DEF Laid
<1> DEFINE T == {k \in Nat : k \in 0 .. n => r[k] \in Seq(C)}
<1>2. 0 \in T
  BY <1>1
<1>3. ASSUME NEW k \in Nat, k \in T, k + 1 \in 0 .. n PROVE r[k + 1] \in Seq(C)
  <2>1. k \in 0 .. n /\ k + 1 \in 1 .. n /\ (k + 1) - 1 = k
    BY <1>3
  <2>2. r[k] \in Seq(C) /\ puts[k + 1] \in Seq(C) /\ r[k + 1] = (r[k] \o puts[k + 1]) \o end
    BY <1>3, <2>1 DEF Laid
  <2> QED BY <2>2, ConcatProperties
<1>4. \A k \in Nat : k \in T
  <2>1. \A k \in Nat : k \in T => k + 1 \in T
    BY <1>3
  <2> HIDE DEF T
  <2> QED BY <1>2, <2>1, NatInd
<1> QED BY <1>4

(***************************************************************************)
(* watcher.c:48-79: each line that is not empty becomes one operation, in  *)
(* the order of the lines, whichever ends they have, and what no end        *)
(* follows becomes none.  The byte 255 is taken for the end of what is      *)
(* written: nothing from there on is read.  No line is longer than the      *)
(* buffer takes.                                                            *)
(***************************************************************************)
THEOREM WatcherLines ==
  ASSUME NEW C, Byte255 \notin C, NEW n \in Nat, NEW puts \in [1 .. n -> Seq(C)],
         \A i \in 1 .. n : Endless(puts[i]), NEW end \in Seq(C), AllEnds(end),
         NEW last \in Seq(C), Endless(last),
         NEW D, NEW rest \in Seq(D), rest = <<>> \/ rest[1] = Byte255,
         NEW r, Laid(puts, end, n, r)
  PROVE  OpsAt(puts, n, n, mod_watcher((r[n] \o last) \o rest), C)
<1> DEFINE a == r[n]
           t == a \o last
<1>0. a \in Seq(C)
  BY LaidText
<1> HIDE DEF a
<1>1. t \in Seq(C) /\ Len(t) = Len(a) + Len(last)
  BY <1>0, ConcatProperties
<1>2. PICK u : Watched(t, u) /\ mod_watcher(t \o rest) = u[Len(t)].ops
  <2> HIDE DEF t
  <2>1. ReadBytes(t \o rest) = t
    BY <1>1, BytesRead
  <2> DEFINE w == t \o rest
  <2> HIDE DEF w
  <2>2. \E u : Watched(t, u) /\ mod_watcher(w) = u[Len(t)].ops
    BY <1>1, <2>1, WatchFold DEF w
  <2> QED BY <2>2 DEF w
<1>3. Watched(a, u) /\ Behind(t, Len(a), last)
  BY <1>0, <1>2, WatchedBefore
<1>4. PICK ops : OpsAt(puts, n, n, ops, C) /\ u[Len(a)] = St(<<>>, ops)
  <2>1. Watched(r[n], u)
    BY <1>3 DEF a
  <2>2. Puts(puts, end, n, r, C)
    BY DEF Puts
  <2>3. \E ops : OpsAt(puts, n, n, ops, C) /\ u[Len(r[n])] = St(<<>>, ops)
    BY <2>1, <2>2, LinesWatched, Z3
  <2> QED BY <2>3 DEF a
<1>5. u[Len(a) + Len(last)] = St(last, ops)
  <2>1. Len(a) \in Nat
    BY <1>0
  <2> HIDE DEF t
  <2> QED BY <1>1, <1>2, <1>3, <1>4, <2>1, WatchRun
<1>6. mod_watcher(t \o rest) = ops
  BY <1>1, <1>2, <1>5 DEF St
<1> QED BY <1>4, <1>6 DEF a

(* A text of two characters or more has a second one, and only the first   *)
(* before it.                                                              *)
LEMMA TwoOf ==
  ASSUME NEW n \in Nat, n # 0, n # 1
  PROVE  2 \in 1 .. n /\ \A k \in 1 .. 2 - 1 : k = 1
OBVIOUS

(* The first space of an operation is behind its word of one character.    *)
LEMMA FirstSpace ==
  ASSUME NEW C, NEW op \in Seq(C), op # <<>>, op[1] # Space, Len(op) = 1 \/ op[2] = Space
  PROVE  Until(op, 1, {Space}) = 2 /\ Len(op) \in Nat /\ Len(op) # 0
<1>0. Len(op) \in Nat /\ Len(op) # 0
  BY EmptySeq
<1>1. Until(op, 1, {Space}) = 2
  <2>1. CASE Len(op) = 1
    <3>1. \A k \in 1 .. Len(op) : op[k] \notin {Space}
      BY <2>1
    <3>2. Until(op, 1, {Space}) = Len(op) + 1
      BY <3>1, UntilNone
    <3> QED BY <2>1, <3>2
  <2>2. CASE Len(op) # 1
    <3> DEFINE m == 2
               first == {Space}
    <3>0. m \in 1 .. Len(op) /\ \A k \in 1 .. m - 1 : k = 1
      BY <1>0, <2>2, TwoOf
    <3>a. op[m] = Space /\ op[1] # Space
      BY <2>2
    <3>1. op[m] \in first /\ \A k \in 1 .. m - 1 : op[k] \notin first
      BY <3>0, <3>a, Zenon
    <3> HIDE DEF m, first
    <3>2. Until(op, 1, first) = m
      BY <3>0, <3>1, UntilAt
    <3> QED BY <3>2 DEF m, first
  <2> QED BY <2>1, <2>2
<1> QED BY <1>0, <1>1

(* The word of an operation is what is before its first space.             *)
LEMMA WordOf ==
  ASSUME NEW C, NEW op \in Seq(C), op # <<>>, op[1] # Space, Len(op) = 1 \/ op[2] = Space
  PROVE  get_cmd_index(op) = <<op[1]>>
<1>0. Len(op) \in Nat /\ Len(op) # 0
  BY FirstSpace
<1>1. Until(op, 1, {Space}) = 2
  BY FirstSpace
<1> DEFINE a == SubSeq(op, 1, 1)
           b == <<op[1]>>
<1>2. op[1] \in C
  BY <1>0
<1>3. a \in Seq(C) /\ Len(a) = 1 /\ a[1] = op[1]
  BY <1>0, SubSeqProperties
<1>4. b \in Seq(C) /\ Len(b) = 1 /\ b[1] = op[1]
  BY <1>2
<1>5. a = b
  <2> HIDE DEF a, b
  <2>1. \A i \in 1 .. Len(a) : a[i] = b[i]
    BY <1>3, <1>4
  <2> QED BY <1>3, <1>4, <2>1, SeqEqual
<1>6. 2 - 1 = 1
  OBVIOUS
<1> QED BY <1>1, <1>5, <1>6 DEF get_cmd_index

(* The argument begins behind the space.                                   *)
LEMMA ArgOf ==
  ASSUME NEW C, NEW op \in Seq(C), Len(op) >= 3, op[1] # Space, op[2] = Space, op[3] # Space
  PROVE  index_to_arg(op, 1) = 3
<1> DEFINE spaces == {k \in 1 .. Len(op) : op[k] = Space}
           To(k) == {j \in spaces : j <= k}
           nth == {k \in spaces : Cardinality(To(k)) = 1}
           rest == {k \in 1 .. Len(op) : op[k] # Space /\ \E j \in nth : j < k}
<1>1. To(2) = {2}
  <2>1. \A j : j \in To(2) <=> j = 2
    BY DEF To
  <2> HIDE DEF To
  <2> QED BY <2>1
<1>2. Cardinality({2}) = 1
  BY FS_Singleton
<1>3. 2 \in nth
  BY <1>1, <1>2
<1>4. \A j \in nth : j \in 1 .. Len(op)
  OBVIOUS
<1> HIDE DEF nth
<1>5. 3 \in rest /\ rest \in SUBSET Nat
  BY <1>3
<1>6. \A k \in rest : 3 <= k
  <2> SUFFICES ASSUME NEW k \in rest PROVE 3 <= k
    OBVIOUS
  <2>1. k \in 1 .. Len(op) /\ op[k] # Space /\ \E j \in nth : j < k
    OBVIOUS
  <2>2. k # 2 /\ k # 1
    BY <1>4, <2>1
  <2> QED BY <2>1, <2>2
<1>7. index_to_arg(op, 1) = IF rest = {} THEN 0 ELSE Min(rest)
  BY DEF index_to_arg, Quantify, nth
<1> HIDE DEF rest
<1>8. Min(rest) = 3
  BY <1>5, <1>6, MinIs
<1> QED BY <1>5, <1>7, <1>8

(* A word without a space has no argument.                                 *)
LEMMA NoArgOf ==
  ASSUME NEW C, NEW op \in Seq(C), Len(op) = 1, op[1] # Space
  PROVE  index_to_arg(op, 1) = 0
<1> DEFINE spaces == {k \in 1 .. Len(op) : op[k] = Space}
           nth == {k \in spaces : Cardinality({j \in spaces : j <= k}) = 1}
           rest == {k \in 1 .. Len(op) : op[k] # Space /\ \E j \in nth : j < k}
<1>1. spaces = {}
  OBVIOUS
<1>2. nth = {}
  BY <1>1
<1>3. rest = {}
  <2> HIDE DEF nth
  <2> QED BY <1>2
<1>4. index_to_arg(op, 1) = IF rest = {} THEN 0 ELSE Min(rest)
  BY DEF index_to_arg, Quantify
<1> HIDE DEF rest
<1> QED BY <1>3, <1>4

(* process_op takes an operation without an end of a line as a whole.      *)
LEMMA LineWhole ==
  ASSUME NEW C, NEW op \in Seq(C), Endless(op)
  PROVE  SubSeq(op, 1, Until(op, 1, LineEnd) - 1) = op
<1>1. \A k \in 1 .. Len(op) : op[k] \notin LineEnd
  BY DEF Endless, Ends
<1>2. Until(op, 1, LineEnd) = Len(op) + 1
  BY <1>1, UntilNone
<1>3. (Len(op) + 1) - 1 = Len(op)
  OBVIOUS
<1>4. SubSeq(op, 1, Len(op)) = op
  OBVIOUS
<1> QED BY <1>2, <1>3, <1>4

(* handlers.c, process_op: what begins with no known word is a reply.      *)
LEMMA ReplyMade ==
  ASSUME NEW C, NEW op \in Seq(C), Endless(op), op # <<>>, op[1] # Space,
         Len(op) = 1 \/ op[2] = Space, op[1] \notin Commands,
         NEW name, NEW path, NEW channel, channel # NULL
  PROVE  process_op(op, name, path, channel) = {[do |-> "REPLY", with |-> op]}
<1>1. SubSeq(op, 1, Until(op, 1, LineEnd) - 1) = op
  BY LineWhole
<1>2. get_cmd_index(op) = <<op[1]>>
  BY WordOf
<1>3. <<op[1]>> \notin {<<c>> : c \in Commands}
  OBVIOUS
<1> QED BY <1>1, <1>2, <1>3, Zenon DEF process_op

(* A known word without an argument does nothing.                          *)
LEMMA NothingMade ==
  ASSUME NEW C, NEW op \in Seq(C), Endless(op), Len(op) = 1, op[1] # Space, op[1] \in Commands,
         NEW name, NEW path, NEW channel
  PROVE  process_op(op, name, path, channel) = {NULL}
<1>0. op # <<>>
  <2>1. Len(<<>>) = 0
    OBVIOUS
  <2>2. Len(op) # Len(<<>>)
    BY <2>1
  <2> QED BY <2>2
<1>1. SubSeq(op, 1, Until(op, 1, LineEnd) - 1) = op
  BY LineWhole
<1>2. get_cmd_index(op) = <<op[1]>>
  BY <1>0, WordOf
<1>3. <<op[1]>> \in {<<c>> : c \in Commands}
  OBVIOUS
<1>4. index_to_arg(op, 1) = 0
  BY NoArgOf
<1>5. index_to_arg(SubSeq(op, 1, Until(op, 1, LineEnd) - 1), 1) = 0
  BY <1>1, <1>4
<1>6. get_cmd_index(SubSeq(op, 1, Until(op, 1, LineEnd) - 1)) \in {<<c>> : c \in Commands}
  BY <1>1, <1>2, <1>3
<1> QED BY <1>5, <1>6, ZenonT(60) DEF process_op

(* A known word with an argument is its operation: the words that send take*)
(* a target from it.                                                       *)
LEMMA OperationMade ==
  ASSUME NEW C, NEW op \in Seq(C), Endless(op), Len(op) >= 3, op[1] # Space, op[2] = Space, op[3] # Space,
         op[1] \in Commands \ Makers, NEW name, NEW path, NEW channel
  PROVE  LET rest == SubSeq(op, 3, Len(op))
         IN process_op(op, name, path, channel)
              = {[do |-> op[1], with |-> w] : w \in IF op[1] \in Sending THEN sendto(rest) ELSE {rest}}
<1>0. op # <<>> /\ 3 # 0
  BY EmptySeq
<1>1. SubSeq(op, 1, Until(op, 1, LineEnd) - 1) = op
  BY LineWhole
<1>2. get_cmd_index(op) = <<op[1]>>
  BY <1>0, WordOf
<1>3. <<op[1]>> \in {<<c>> : c \in Commands} /\ <<op[1]>>[1] = op[1]
  OBVIOUS
<1>4. index_to_arg(op, 1) = 3
  BY ArgOf
<1> DEFINE rest == From(op, 3)
<1>5. process_op(op, name, path, channel)
        = {[do |-> <<op[1]>>[1], with |-> w] :
             w \in IF <<op[1]>>[1] \in Makers THEN {cmd_maker(name, path, rest)}
                   ELSE IF <<op[1]>>[1] \in Sending THEN sendto(rest)
                   ELSE {rest}}
  BY <1>0, <1>1, <1>2, <1>3, <1>4, Zenon DEF process_op
<1>6. rest = SubSeq(op, 3, Len(op))
  BY DEF From
<1> HIDE DEF rest
<1>7. process_op(op, name, path, channel)
        = {[do |-> op[1], with |-> w] : w \in IF op[1] \in Sending THEN sendto(rest) ELSE {rest}}
  BY <1>3, <1>5
<1> QED BY <1>6, <1>7

(* The characters of a line, and all that are written.                      *)
LineChars == {"REPLY", "SEND", "RAW", "x", "t", "y", Space}
WrittenChars == LineChars \cup Ends

(* No character of a line ends it, and no word is a space.                 *)
LEMMA LineCharsApart ==
  /\ Byte255 \notin WrittenChars
  /\ \A c \in LineChars : c \notin Ends
  /\ \A c \in {"REPLY", "SEND", "RAW", "x"} : c # Space /\ c \in LineChars /\ c # "none"
  /\ "t" # Space /\ "t" \in LineChars /\ "y" \in LineChars /\ Space \in LineChars
<1>1. \A c \in LineChars : c \notin Ends
  BY Zenon DEF LineChars, Ends, LineEnd, Space
<1>2. \A c \in {"REPLY", "SEND", "RAW", "x"} : c # Space
  BY Zenon DEF Space
<1>3. \A c \in {"REPLY", "SEND", "RAW", "x"} : c \in LineChars /\ c # "none"
  BY DEF LineChars
<1>4. "t" # Space
  BY Zenon DEF Space
<1>5. "t" \in LineChars /\ "y" \in LineChars /\ Space \in LineChars
  BY DEF LineChars
<1>6. Byte255 \notin WrittenChars
  BY Zenon DEF WrittenChars, LineChars, Ends, LineEnd, Space, Byte255
<1> QED BY <1>1, <1>2, <1>3, <1>4, <1>5, <1>6

(* A line that begins with a word and a space.                             *)
LEMMA WordSpace ==
  ASSUME NEW C, NEW w \in C, NEW b \in C, NEW r \in Seq(C), r # <<>>
  PROVE  LET p == <<w>> \o (<<b>> \o r)
         IN /\ p \in Seq(C) /\ Len(p) = Len(r) + 2 /\ Len(p) >= 3
            /\ p[1] = w /\ p[2] = b /\ p[3] = r[1] /\ SubSeq(p, 3, Len(p)) = r
<1> DEFINE q == <<b>> \o r
           p == <<w>> \o q
           n == Len(r)
<1>0. n \in Nat /\ n # 0
  BY EmptySeq
<1>1. <<w>> \in Seq(C) /\ <<b>> \in Seq(C) /\ Len(<<w>>) = 1 /\ Len(<<b>>) = 1 /\ <<w>>[1] = w /\ <<b>>[1] = b
  OBVIOUS
<1>2. /\ q \in Seq(C) /\ Len(q) = 1 + n
      /\ \A i \in 1 .. 1 + n : q[i] = IF i <= 1 THEN <<b>>[i] ELSE r[i - 1]
  BY <1>1, ConcatProperties
<1> HIDE DEF q
<1>3. /\ p \in Seq(C) /\ Len(p) = 1 + (1 + n)
      /\ \A i \in 1 .. 1 + (1 + n) : p[i] = IF i <= 1 THEN <<w>>[i] ELSE q[i - 1]
  BY <1>1, <1>2, ConcatProperties
<1> HIDE DEF p
<1>4. p[1] = w /\ p[2] = b /\ \A i \in 1 .. n : p[i + 2] = r[i]
  <2>1. /\ 1 \in 1 .. 1 + (1 + n) /\ 2 \in 1 .. 1 + (1 + n) /\ ~(2 <= 1) /\ 2 - 1 = 1 /\ 1 \in 1 .. 1 + n
        /\ 1 <= 1
    BY <1>0
  <2>2. p[1] = w /\ p[2] = b
    BY <1>1, <1>2, <1>3, <2>1
  <2>3. ASSUME NEW i \in 1 .. n PROVE p[i + 2] = r[i]
    <3>1. /\ i + 2 \in 1 .. 1 + (1 + n) /\ ~(i + 2 <= 1) /\ (i + 2) - 1 = i + 1
          /\ i + 1 \in 1 .. 1 + n /\ ~(i + 1 <= 1) /\ (i + 1) - 1 = i
      BY <1>0
    <3> QED BY <1>2, <1>3, <3>1
  <2> QED BY <2>2, <2>3
<1>5. Len(p) = n + 2 /\ n + 2 >= 3 /\ p[3] = r[1]
  <2>1. 1 \in 1 .. n /\ 1 + 2 = 3
    BY <1>0
  <2>2. p[1 + 2] = r[1]
    BY <1>4, <2>1
  <2> QED BY <1>0, <1>3, <2>1, <2>2
<1>6. SubSeq(p, 3, n + 2) = r
  <2> DEFINE t == SubSeq(p, 3, n + 2)
  <2>1. t \in Seq(C) /\ Len(t) = n /\ \A i \in 1 .. n : t[i] = p[(3 + i) - 1]
    <3>1. 3 \in 1 .. Len(p) + 1 /\ n + 2 \in 3 - 1 .. Len(p)
      BY <1>0, <1>5
    <3>2. /\ t \in Seq(C) /\ Len(t) = (n + 2) - 3 + 1
          /\ \A i \in 1 .. (n + 2) - 3 + 1 : t[i] = p[3 + i - 1]
      BY <1>3, <3>1, SubSeqProperties
    <3> QED BY <1>0, <3>2
  <2> HIDE DEF t
  <2>2. ASSUME NEW i \in 1 .. n PROVE t[i] = r[i]
    <3>1. (3 + i) - 1 = i + 2
      BY <1>0
    <3> QED BY <1>4, <2>1, <3>1
  <2>3. t = r
    BY <2>1, <2>2, SeqEqual
  <2> QED BY <2>3 DEF t
<1> QED BY <1>3, <1>4, <1>5, <1>6 DEF p, q

Words == {"REPLY", "SEND", "RAW", "x"}
Short == <<"t">>
Long == <<"t", Space, Space, "x", Space, "y">>

(* What is behind the word of a line begins with the word t.               *)
LEMMA RestIs ==
  ASSUME NEW r \in {Short, Long}
  PROVE  r \in Seq(LineChars) /\ r # <<>> /\ r[1] = "t"
<1> DEFINE D == LineChars
<1>1. "t" \in D /\ "x" \in D /\ "y" \in D /\ Space \in D
  BY LineCharsApart
<1> HIDE DEF D
<1>2. Short \in Seq(D) /\ Len(Short) = 1 /\ Short[1] = "t"
  BY <1>1 DEF Short
<1>3. Long \in Seq(D) /\ Len(Long) = 6 /\ Long[1] = "t"
  BY <1>1 DEF Long
<1>4. r \in Seq(D) /\ Len(r) # 0 /\ r[1] = "t"
  BY <1>2, <1>3
<1>5. r # <<>>
  <2>1. Len(<<>>) = 0
    OBVIOUS
  <2> QED BY <1>4, <2>1
<1> QED BY <1>4, <1>5 DEF D

(* A line is empty, a word, or a word with a rest.                         *)
LEMMA LinesAre ==
  ASSUME NEW l \in OutputLines
  PROVE  \/ l.word = "none" /\ Put(l) = <<>>
         \/ l.word \in Words /\ l.word # "none" /\ l.rest = <<>> /\ Put(l) = <<l.word>>
         \/ /\ l.word \in Words /\ l.word # "none" /\ l.rest \in {Short, Long} /\ l.rest # <<>>
            /\ Put(l) = <<l.word>> \o (<<Space>> \o l.rest)
<1>1. CASE l.word = "none"
  BY <1>1 DEF Put
<1>2. CASE l.word # "none"
  <2>1. l.word \in Words /\ l.rest \in {<<>>, Short, Long}
    BY <1>2 DEF OutputLines, Words, Long, Short
  <2>2. CASE l.rest = <<>>
    <3>1. <<l.word>> \o <<>> = <<l.word>>
      OBVIOUS
    <3> QED BY <1>2, <2>1, <2>2, <3>1 DEF Put
  <2>3. CASE l.rest # <<>>
    BY <1>2, <2>1, <2>3 DEF Put
  <2> QED BY <2>2, <2>3
<1> QED BY <1>1, <1>2

(* A line has no end in it.                                                *)
LEMMA EndlessLine ==
  ASSUME NEW s \in Seq(LineChars)
  PROVE  Endless(s) /\ s \in Seq(WrittenChars)
<1>1. \A k \in 1 .. Len(s) : s[k] \in LineChars
  OBVIOUS
<1>2. Endless(s)
  BY <1>1, LineCharsApart DEF Endless
<1>3. LineChars \subseteq WrittenChars
  BY DEF WrittenChars
<1> QED BY <1>2, <1>3, SeqWiden

(* What is put down of a line is a text, and not empty unless the line is. *)
LEMMA PutIs ==
  ASSUME NEW l \in OutputLines
  PROVE  Put(l) \in Seq(LineChars) /\ (Put(l) # <<>> <=> l.word # "none")
<1>1. CASE l.word = "none" /\ Put(l) = <<>>
  BY <1>1, EmptySeq
<1>2. CASE l.word \in Words /\ l.word # "none" /\ l.rest = <<>> /\ Put(l) = <<l.word>>
  <2>1. l.word \in LineChars
    BY <1>2, LineCharsApart DEF Words
  <2> QED BY <1>2, <2>1
<1>3. CASE /\ l.word \in Words /\ l.word # "none" /\ l.rest \in {Short, Long}
           /\ Put(l) = <<l.word>> \o (<<Space>> \o l.rest)
  <2>1. l.word \in LineChars /\ Space \in LineChars
    BY <1>3, LineCharsApart DEF Words
  <2>2. l.rest \in Seq(LineChars) /\ l.rest # <<>>
    BY <1>3, RestIs
  <2> DEFINE p == <<l.word>> \o (<<Space>> \o l.rest)
  <2>3. p \in Seq(LineChars) /\ Len(p) >= 3
    BY <2>1, <2>2, WordSpace
  <2> HIDE DEF p
  <2>4. p # <<>>
    <3>1. Len(<<>>) = 0 /\ ~(0 >= 3)
      OBVIOUS
    <3> QED BY <2>3, <3>1
  <2> QED BY <1>3, <2>3, <2>4 DEF p
<1> QED BY <1>1, <1>2, <1>3, LinesAre

(* Where the next word of such a rest starts.                              *)
LEMMA NextIs ==
  ASSUME NEW r \in {Short, Long}
  PROVE  LET text == SelectInSubSeq(r, 2, Len(r), LAMBDA c : c # Space)
         IN /\ \/ r = Short /\ text = 0 /\ Len(r) = 1
               \/ r = Long /\ text = 4
            /\ (IF text = 0 THEN Len(r) ELSE text - 1) \in {1, 3}
<1> DEFINE text == SelectInSubSeq(r, 2, Len(r), LAMBDA c : c # Space)
           I == {i \in 2 .. Len(r) : r[i] # Space}
<1>1. text = IF I # {} THEN Min(I) ELSE 0
  BY DEF SelectInSubSeq
<1>2. CASE r = Short
  <2>1. Len(r) = 1
    BY <1>2 DEF Short
  <2>2. I = {}
    BY <2>1
  <2>3. text = 0
    BY <1>1, <2>2
  <2> HIDE DEF text
  <2> QED BY <1>2, <2>1, <2>3 DEF text
<1>3. CASE r = Long
  <2>1. Len(r) = 6 /\ r[2] = Space /\ r[3] = Space /\ r[4] = "x"
    BY <1>3 DEF Long
  <2>2. "x" # Space
    BY LineCharsApart
  <2>3. 4 \in I
    BY <2>1, <2>2
  <2>4. \A y \in I : y \in 2 .. 6 /\ y # 2 /\ y # 3
    BY <2>1
  <2>5. \A y \in I : 4 <= y
    BY <2>4
  <2>6. I \in SUBSET Nat
    OBVIOUS
  <2> HIDE DEF I
  <2>7. Min(I) = 4 /\ I # {}
    BY <2>3, <2>5, <2>6, MinIs
  <2>8. text = 4
    BY <1>1, <2>7
  <2> HIDE DEF text
  <2> QED BY <1>3, <2>8 DEF text
<1> QED BY <1>2, <1>3

(* The target of such a rest: its word and bytes of which nothing is known. *)
LEMMA TargetIs ==
  ASSUME NEW r \in {Short, Long}
  PROVE  \E m \in Nat : get_next_word(r) = {<<"t">> \o [i \in 1 .. k |-> "?"] : k \in 0 .. m}
<1> DEFINE D == LineChars
           word == SubSeq(r, 1, Until(r, 1, {Space}) - 1)
           rest == SelectInSubSeq(r, Len(word) + 1, Len(r), LAMBDA c : c # Space)
           next == IF rest = 0 THEN Len(r) ELSE rest - 1
           Bytes(k) == [i \in 1 .. k |-> "?"]
           m == next + 1 - Len(word)
<1>1. r \in Seq(D) /\ r # <<>> /\ r[1] = "t" /\ "t" # Space /\ "t" \in D
  BY RestIs, LineCharsApart
<1>2. Len(r) = 1 \/ r[2] = Space
  BY DEF Long, Short
<1>3. Until(r, 1, {Space}) = 2
  BY <1>1, <1>2, FirstSpace
<1>4. word = <<"t">>
  <2>1. get_cmd_index(r) = <<r[1]>>
    BY <1>1, <1>2, WordOf
  <2> QED BY <1>1, <2>1 DEF get_cmd_index
<1>5. Len(word) = 1 /\ Len(word) + 1 = 2
  <2> HIDE DEF word
  <2> QED BY <1>4
<1>6. next \in {1, 3}
  <2>1. rest = SelectInSubSeq(r, 2, Len(r), LAMBDA c : c # Space)
    BY <1>5
  <2> QED BY <2>1, NextIs
<1>7. get_next_word(r) = {word \o Bytes(k) : k \in 0 .. m} \cup {w \in {Overrun} : next + 1 >= PointerSize}
  BY DEF get_next_word
<1> HIDE DEF word, next, Bytes
<1>8. ~(next + 1 >= PointerSize) /\ m \in Nat
  BY <1>5, <1>6 DEF PointerSize
<1> HIDE DEF m
<1>9. get_next_word(r) = {word \o Bytes(k) : k \in 0 .. m}
  BY <1>7, <1>8
<1> QED BY <1>4, <1>8, <1>9 DEF Bytes

(* SEND: the rest of its line is a target and a text.                      *)
LEMMA SentTo ==
  ASSUME NEW r \in {Short, Long}, NEW w \in sendto(r)
  PROVE  IsPrefix(<<"t">>, w.target) /\ w.text = From(r, 4)
<1> DEFINE D == LineChars
<1>1. r \in Seq(D) /\ r # <<>> /\ r[1] = "t" /\ "t" # Space /\ "t" \in D
  BY RestIs, LineCharsApart
<1>2. Len(r) = 1 \/ r[2] = Space
  BY DEF Long, Short
<1>3. Until(r, 1, {Space}) = 2
  BY <1>1, <1>2, FirstSpace
<1>4. w.target \in get_next_word(r)
  BY DEF sendto
<1>6. PICK k \in Nat : w.target = <<"t">> \o [i \in 1 .. k |-> "?"]
  <2> DEFINE Word(k) == <<"t">> \o [i \in 1 .. k |-> "?"]
  <2>1. PICK m \in Nat : get_next_word(r) = {Word(k) : k \in 0 .. m}
    BY TargetIs
  <2> HIDE DEF Word
  <2>2. \E k \in Nat : w.target = Word(k)
    BY <1>4, <2>1
  <2> QED BY <2>2 DEF Word
<1>7. IsPrefix(<<"t">>, w.target)
  <2> DEFINE E == {"t", "?"}
             a == <<"t">>
             q == [i \in 1 .. k |-> "?"]
             b == a \o q
  <2>1. "t" \in E /\ "?" \in E
    OBVIOUS
  <2>0. q \in Seq(E) /\ Len(q) = k
    OBVIOUS
  <2> HIDE DEF E, q
  <2>2. a \in Seq(E) /\ Len(a) = 1 /\ a[1] = "t"
    BY <2>1
  <2> HIDE DEF a
  <2>3. b \in Seq(E) /\ Len(b) >= 1 /\ b[1] = "t"
    <3>1. /\ b \in Seq(E) /\ Len(b) = Len(a) + Len(q)
          /\ \A i \in 1 .. Len(a) + Len(q) : b[i] = IF i <= Len(a) THEN a[i] ELSE q[i - Len(a)]
      BY <2>0, <2>2, ConcatProperties
    <3>2. 1 \in 1 .. Len(a) + Len(q) /\ 1 <= Len(a)
      BY <2>0, <2>2
    <3> HIDE DEF b
    <3> QED BY <2>0, <2>2, <3>1, <3>2
  <2> HIDE DEF b
  <2>4. ASSUME NEW x \in {a, b} PROVE SubSeq(a, 1, 1) = SubSeq(x, 1, 1) /\ 1 <= Len(x)
    <3>1. x \in Seq(E) /\ Len(x) >= 1 /\ x[1] = "t" /\ Len(x) \in Nat
      BY <2>2, <2>3
    <3>2. /\ SubSeq(x, 1, 1) \in Seq(E) /\ Len(SubSeq(x, 1, 1)) = 1 /\ SubSeq(x, 1, 1)[1] = "t"
          /\ SubSeq(a, 1, 1) \in Seq(E) /\ Len(SubSeq(a, 1, 1)) = 1 /\ SubSeq(a, 1, 1)[1] = "t"
      BY <2>2, <3>1, SubSeqProperties
    <3> DEFINE y == SubSeq(x, 1, 1)
               z == SubSeq(a, 1, 1)
    <3>3. y = z
      <4> HIDE DEF y, z
      <4>1. /\ y \in Seq(E) /\ Len(y) = 1 /\ y[1] = "t"
            /\ z \in Seq(E) /\ Len(z) = 1 /\ z[1] = "t"
        BY <3>2 DEF y, z
      <4>2. \A i \in 1 .. Len(y) : y[i] = z[i]
        BY <4>1
      <4> QED BY <4>1, <4>2, SeqEqual
    <3> QED BY <3>1, <3>3
  <2>5. w.target \in {a, b}
    BY <1>6 DEF a, b, q
  <2> HIDE DEF a
  <2>6. IsPrefix(a, w.target)
    BY <2>2, <2>4, <2>5 DEF IsPrefix
  <2> QED BY <2>6 DEF a
<1>8. w.text = From(r, 4)
  <2> DEFINE text == SelectInSubSeq(r, 2, Len(r), LAMBDA c : c # Space)
  <2>1. w.text = IF text = 0 THEN <<>> ELSE From(r, text)
    BY <1>3 DEF sendto
  <2>2. \/ r = Short /\ text = 0 /\ Len(r) = 1
        \/ r = Long /\ text = 4
    BY NextIs
  <2>3. CASE r = Short /\ text = 0 /\ Len(r) = 1
    <3>1. SubSeq(r, 4, 1) = <<>>
      BY <2>3 DEF Short
    <3> QED BY <2>1, <2>3, <3>1 DEF From
  <2> HIDE DEF text
  <2> QED BY <2>1, <2>2, <2>3
<1> QED BY <1>7, <1>8

(* There is always something sendto may do.                                *)
LEMMA SomeSent ==
  ASSUME NEW r \in {Short, Long}
  PROVE  sendto(r) # {}
<1> DEFINE space == Until(r, 1, {Space})
           text == SelectInSubSeq(r, space, Len(r), LAMBDA c : c # Space)
           all == {IF text = 0 THEN <<>> ELSE From(r, text)}
           to == get_next_word(r)
<1>1. PICK a \in to : TRUE
  <2> DEFINE Word(k) == <<"t">> \o [i \in 1 .. k |-> "?"]
  <2>1. PICK m \in Nat : to = {Word(k) : k \in 0 .. m}
    BY TargetIs
  <2> HIDE DEF Word, to
  <2>2. Word(0) \in to
    BY <2>1
  <2> QED BY <2>2
<1>2. PICK b \in all : TRUE
  OBVIOUS
<1>3. sendto(r) = [target : to, text : all]
  BY DEF sendto
<1> HIDE DEF all, to
<1>4. [target |-> a, text |-> b] \in [target : to, text : all]
  OBVIOUS
<1> QED BY <1>3, <1>4

(* A line that is not empty is acted on.                                   *)
LEMMA LineActedOn ==
  ASSUME NEW l \in OutputLines, l.word # "none", NEW name
  PROVE  LET made == process_op(Put(l), name, NULL, Here)
         IN made # {} /\ \A did \in made : Acted(l, did)
<1> DEFINE op == Put(l)
           made == process_op(op, name, NULL, Here)
<1>0. op \in Seq(LineChars) /\ op # <<>> /\ Endless(op)
  BY PutIs, EndlessLine
<1>1. l.word \in Words /\ l.word # Space /\ l.word \in LineChars /\ Here # NULL
  <2>1. l.word \in Words
    BY LinesAre
  <2> QED BY <2>1, LineCharsApart, NullIsNoChannel DEF Words
<1>2. CASE l.rest = <<>> /\ op = <<l.word>>
  <2>1. Len(op) = 1 /\ op[1] = l.word
    BY <1>2
  <2> HIDE DEF op
  <2>2. CASE l.word = "x"
    <3>1. op[1] \notin Commands
      BY <2>1, <2>2 DEF Commands, Makers, Sending
    <3>2. made = {[do |-> "REPLY", with |-> op]}
      BY <1>0, <1>1, <2>1, <3>1, ReplyMade
    <3> QED BY <2>2, <3>2 DEF Acted, op
  <2>3. CASE l.word # "x"
    <3>1. op[1] \in Commands
      BY <1>1, <2>1, <2>3 DEF Commands, Makers, Sending, Words
    <3>2. made = {NULL}
      BY <1>0, <1>1, <2>1, <3>1, NothingMade
    <3> QED BY <1>2, <2>3, <3>2 DEF Acted, op
  <2> QED BY <2>2, <2>3
<1>3. CASE /\ l.rest \in {Short, Long} /\ l.rest # <<>>
           /\ op = <<l.word>> \o (<<Space>> \o l.rest)
  <2> DEFINE r == l.rest
  <2>1. r \in Seq(LineChars) /\ r # <<>> /\ r[1] = "t" /\ "t" # Space /\ Space \in LineChars
    BY <1>3, RestIs, LineCharsApart
  <2>2. /\ Len(op) >= 3 /\ op[1] = l.word /\ op[2] = Space /\ op[3] = "t"
        /\ SubSeq(op, 3, Len(op)) = r
    <3> HIDE DEF op, r
    <3> DEFINE w == l.word
    <3>1. w \in LineChars /\ op = <<w>> \o (<<Space>> \o r)
      BY <1>1, <1>3 DEF r
    <3> HIDE DEF w
    <3>2. /\ Len(op) >= 3 /\ op[1] = w /\ op[2] = Space /\ op[3] = r[1]
          /\ SubSeq(op, 3, Len(op)) = r
      BY <2>1, <3>1, WordSpace
    <3> QED BY <2>1, <3>2 DEF w
  <2> HIDE DEF op, r
  <2>3. CASE l.word = "x"
    <3>1. op[1] \notin Commands
      BY <2>2, <2>3 DEF Commands, Makers, Sending
    <3>2. made = {[do |-> "REPLY", with |-> op]}
      BY <1>0, <1>1, <2>2, <3>1, ReplyMade
    <3> QED BY <2>3, <3>2 DEF Acted, op
  <2>4. CASE l.word # "x"
    <3>1. op[1] \in Commands \ Makers /\ (op[1] \in Sending <=> l.word = "SEND")
      BY <1>1, <2>2, <2>4 DEF Commands, Makers, Sending, Words
    <3>2. op[1] # Space /\ op[3] # Space
      BY <1>1, <2>1, <2>2
    <3>3. made = {[do |-> op[1], with |-> w] :
                    w \in IF op[1] \in Sending THEN sendto(SubSeq(op, 3, Len(op))) ELSE {SubSeq(op, 3, Len(op))}}
      BY <1>0, <2>2, <3>1, <3>2, OperationMade
    <3> HIDE DEF made
    <3>4. CASE l.word = "SEND"
      <4>1. made = {[do |-> "SEND", with |-> w] : w \in sendto(r)}
        BY <2>2, <3>1, <3>3, <3>4
      <4>2. r \in {Short, Long}
        BY <1>3 DEF r
      <4>3. sendto(r) # {}
        BY <4>2, SomeSent
      <4>3b. made # {}
        BY <4>1, <4>3
      <4>4. ASSUME NEW did \in made PROVE Acted(l, did)
        <5>1. PICK w \in sendto(r) : did = [do |-> "SEND", with |-> w]
          BY <4>1
        <5>2. IsPrefix(Short, w.target) /\ w.text = From(r, 4)
          BY <4>2, SentTo DEF Short
        <5>3. did.do = "SEND" /\ did.with = w
          BY <5>1
        <5> QED BY <1>3, <2>4, <3>4, <5>2, <5>3 DEF Acted, r, Short
      <4> QED BY <4>3b, <4>4 DEF made, op
    <3>5. CASE l.word # "SEND"
      <4>1. made = {[do |-> l.word, with |-> r]}
        BY <2>2, <3>1, <3>3, <3>5
      <4>1b. made # {}
        BY <4>1
      <4>2. ASSUME NEW did \in made PROVE Acted(l, did)
        <5>1. did = [do |-> l.word, with |-> r]
          BY <4>1
        <5> QED BY <1>3, <2>4, <3>5, <5>1 DEF Acted, r
      <4> QED BY <4>1b, <4>2 DEF made, op
    <3> QED BY <3>4, <3>5
  <2> QED BY <2>3, <2>4
<1> QED BY <1>2, <1>3, LinesAre

TextStep(s, l, end) == (s \o Put(l)) \o end
LinesText(w) == FoldLeft(LAMBDA s, l : s \o Put(l) \o w.end, <<>>, w.lines)

(* What a program writes are its lines, each with its end.                 *)
LEMMA TextLaid ==
  ASSUME NEW w, NEW n \in Nat, w.lines \in [1 .. n -> OutputLines], w.end \in Seq(WrittenChars)
  PROVE  \E r : Laid([i \in 1 .. n |-> Put(w.lines[i])], w.end, n, r) /\ LinesText(w) = r[n]
<1> DEFINE X == Seq(WrittenChars)
           s == w.lines
           e == w.end
           G == [p \in (1 .. n) \X X |-> TextStep(p[2], s[p[1]], e)]
           P(h) == h = [t \in SUBSET (1 .. n) |->
                          IF t = {} THEN <<>> ELSE TextStep(h[t \ {Max(t)}], s[Max(t)], e)]
<1>0. DOMAIN s = 1 .. n /\ \A i \in 1 .. n : s[i] \in OutputLines
  OBVIOUS
<1>1. ASSUME NEW i \in 1 .. n, NEW x \in X
      PROVE  G[<<i, x>>] = TextStep(x, s[i], e) /\ G[<<i, x>>] \in X
  <2>1. G[<<i, x>>] = TextStep(x, s[i], e)
    <3>1. <<i, x>> \in (1 .. n) \X X /\ <<i, x>>[1] = i /\ <<i, x>>[2] = x
      OBVIOUS
    <3> QED BY <3>1
  <2>2. Put(s[i]) \in X
    BY <1>0, PutIs, EndlessLine
  <2>3. x \o Put(s[i]) \in X
    BY <2>2, ConcatProperties
  <2>4. (x \o Put(s[i])) \o e \in X
    BY <2>3, ConcatProperties
  <2> QED BY <2>1, <2>4 DEF TextStep
<1>2. <<>> \in X
  BY EmptySeq
<1> HIDE DEF G, X
<1>3. PICK g : Folding(g, n, <<>>, G) /\ \A t \in SUBSET (1 .. n) : g[t] \in X
  BY <1>0, <1>1, <1>2, FoldExists
<1>4. P(g)
  <2>1. ASSUME NEW t \in SUBSET (1 .. n), t # {}
        PROVE  G[<<Max(t), g[t \ {Max(t)}]>>] = TextStep(g[t \ {Max(t)}], s[Max(t)], e)
    <3>1. Max(t) \in 1 .. n
      BY <1>0, <2>1, MaxIn
    <3>2. g[t \ {Max(t)}] \in X
      BY <1>3
    <3> QED BY <1>0, <1>1, <3>1, <3>2
  <2>2. g = [t \in SUBSET (1 .. n) |-> IF t = {} THEN <<>> ELSE G[<<Max(t), g[t \ {Max(t)}]>>]]
    BY <1>3 DEF Folding
  <2> QED BY <2>1, <2>2
<1> DEFINE f == CHOOSE h : P(h)
<1>5. P(f)
  BY <1>4
<1>6. LinesText(w) = f[1 .. n]
  BY <1>0 DEF LinesText, FoldLeft, MapThenFoldSet, TextStep
<1> HIDE DEF f
<1>7. f[1 .. 0] = <<>>
  <2>1. {} \in SUBSET (1 .. n) /\ 1 .. 0 = {}
    OBVIOUS
  <2> QED BY <1>5, <2>1
<1>8. ASSUME NEW k \in 1 .. n PROVE f[1 .. k] = TextStep(f[1 .. (k - 1)], s[k], e)
  <2>1. /\ 1 .. k \in SUBSET (1 .. n) /\ 1 .. k # {}
        /\ Max(1 .. k) = k /\ (1 .. k) \ {k} = 1 .. (k - 1)
    BY Positions
  <2>2. f[1 .. k] = TextStep(f[(1 .. k) \ {Max(1 .. k)}], s[Max(1 .. k)], e)
    BY <1>5, <2>1
  <2> QED BY <2>1, <2>2
<1> DEFINE r == [k \in 0 .. n |-> f[1 .. k]]
           puts == [i \in 1 .. n |-> Put(s[i])]
<1>9. r[0] = <<>> /\ (\A k \in 1 .. n : r[k] = TextStep(r[k - 1], s[k], e)) /\ r[n] = f[1 .. n]
  <2>1. 0 \in 0 .. n /\ n \in 0 .. n /\ \A k \in 1 .. n : k \in 0 .. n /\ k - 1 \in 0 .. n
    OBVIOUS
  <2> QED BY <1>7, <1>8, <2>1
<1> HIDE DEF r
<1>10. \A k \in 1 .. n : r[k] = (r[k - 1] \o puts[k]) \o e
  BY <1>9 DEF TextStep
<1>11. Laid(puts, e, n, r)
  <2> HIDE DEF puts, e
  <2> QED BY <1>9, <1>10 DEF Laid
<1> QED BY <1>6, <1>9, <1>11

(* What a program writes has lines, ends of them, and a rest without an    *)
(* end or one that is not read.                                            *)
LEMMA WrittenIs ==
  ASSUME NEW w \in Written
  PROVE  /\ \E n \in Nat : w.lines \in [1 .. n -> OutputLines]
         /\ w.end \in Seq(WrittenChars) /\ AllEnds(w.end)
         /\ \/ w.last \in Seq(LineChars)
            \/ w.last # <<>> /\ w.last[1] = Byte255 /\ w.last \in Seq({Byte255, "x", "\n"})
<1>1. \E n \in Nat : w.lines \in [1 .. n -> OutputLines]
  <2>1. w.lines \in UpTo(OutputLines, MaxLines)
    BY DEF Written
  <2>2. PICK k \in 0 .. MaxLines : w.lines \in [1 .. k -> OutputLines]
    BY <2>1 DEF UpTo
  <2> QED BY <2>2
<1>2. w.end \in Seq(WrittenChars) /\ AllEnds(w.end)
  <2> DEFINE W == WrittenChars
  <2>1. w.end \in {<<"\n">>, <<"\r", "\n">>, <<"NUL">>}
    BY DEF Written
  <2>2. /\ "\n" \in Ends /\ "\r" \in Ends /\ "NUL" \in Ends
        /\ Ends \subseteq W
    BY Zenon DEF Ends, LineEnd, WrittenChars
  <2> HIDE DEF W
  <2>3. CASE w.end = <<"\n">>
    <3> DEFINE a == "\n"
    <3>1. w.end = <<a>> /\ a \in W /\ a \in Ends
      BY <2>2, <2>3
    <3> HIDE DEF a
    <3>2. w.end \in Seq(W) /\ Len(w.end) = 1 /\ w.end[1] = a
      BY <3>1
    <3> QED BY <3>1, <3>2 DEF AllEnds, W
  <2>4. CASE w.end = <<"\r", "\n">>
    <3> DEFINE a == "\r"
               b == "\n"
    <3>1. w.end = <<a, b>> /\ a \in W /\ a \in Ends /\ b \in W /\ b \in Ends
      BY <2>2, <2>4
    <3> HIDE DEF a, b
    <3>2. w.end \in Seq(W) /\ Len(w.end) = 2 /\ w.end[1] = a /\ w.end[2] = b
      BY <3>1
    <3> QED BY <3>1, <3>2 DEF AllEnds, W
  <2>5. CASE w.end = <<"NUL">>
    <3> DEFINE a == "NUL"
    <3>1. w.end = <<a>> /\ a \in W /\ a \in Ends
      BY <2>2, <2>5
    <3> HIDE DEF a
    <3>2. w.end \in Seq(W) /\ Len(w.end) = 1 /\ w.end[1] = a
      BY <3>1
    <3> QED BY <3>1, <3>2 DEF AllEnds, W
  <2> QED BY <2>1, <2>3, <2>4, <2>5
<1>3. \/ w.last \in Seq(LineChars)
      \/ w.last # <<>> /\ w.last[1] = Byte255 /\ w.last \in Seq({Byte255, "x", "\n"})
  <2>1. w.last \in {<<>>, <<"RAW", Space, "t">>, <<Byte255, "x", "\n">>}
    BY DEF Written
  <2> DEFINE D == LineChars
             x == "x"
             e == "\n"
             D2 == {Byte255, x, e}
             out == <<Byte255, x, e>>
  <2>2. "RAW" \in D /\ Space \in D /\ "t" \in D
    BY LineCharsApart
  <2> HIDE DEF D
  <2>3. <<>> \in Seq(D) /\ <<"RAW", Space, "t">> \in Seq(D)
    BY <2>2
  <2>4. out # <<>> /\ out[1] = Byte255 /\ out \in Seq(D2)
    <3> HIDE DEF x, e
    <3>1. Len(out) = 3 /\ Len(<<>>) = 0
      OBVIOUS
    <3>2. out # <<>>
      BY <3>1
    <3> QED BY <3>2
  <2>5. w.last = out => w.last # <<>> /\ w.last[1] = Byte255 /\ w.last \in Seq(D2)
    BY <2>4
  <2> QED BY <2>1, <2>3, <2>5 DEF D
<1> QED BY <1>1, <1>2, <1>3

(* The watcher makes an operation of each line of the run that is not      *)
(* empty.                                                                  *)
LEMMA WrittenLines ==
  ASSUME NEW w \in Written
  PROVE  \E n \in Nat :
           /\ w.lines \in [1 .. n -> OutputLines]
           /\ OpsAt([i \in 1 .. n |-> Put(w.lines[i])], n, n, mod_watcher(Text(w)), WrittenChars)
<1>1. PICK n \in Nat : w.lines \in [1 .. n -> OutputLines]
  BY WrittenIs
<1> DEFINE puts == [i \in 1 .. n |-> Put(w.lines[i])]
           end == w.end
           C == WrittenChars
           D == {Byte255, "x", "\n"}
<1>2. end \in Seq(C) /\ AllEnds(end) /\ Byte255 \notin C
  BY WrittenIs, LineCharsApart
<1>3. PICK last \in Seq(C), rest \in Seq(D) :
        /\ Endless(last) /\ (rest = <<>> \/ rest[1] = Byte255)
        /\ \A a \in Seq(C) : (a \o last) \o rest = a \o w.last
  <2> HIDE DEF C, D
  <2>1. <<>> \in Seq(C) /\ <<>> \in Seq(D) /\ Endless(<<>>)
    BY EmptySeq DEF Endless
  <2>2. CASE w.last \in Seq(LineChars)
    <3>1. w.last \in Seq(C) /\ Endless(w.last)
      BY <2>2, EndlessLine DEF C
    <3>2. ASSUME NEW a \in Seq(C) PROVE (a \o w.last) \o <<>> = a \o w.last
      <4>1. a \o w.last \in Seq(C)
        BY <3>1, ConcatProperties
      <4> QED BY <4>1, ConcatEmptySeq
    <3> QED BY <2>1, <3>1, <3>2
  <2>3. CASE w.last # <<>> /\ w.last[1] = Byte255 /\ w.last \in Seq({Byte255, "x", "\n"})
    <3>1. w.last \in Seq(D)
      BY <2>3 DEF D
    <3>2. ASSUME NEW a \in Seq(C) PROVE (a \o <<>>) \o w.last = a \o w.last
      BY ConcatEmptySeq
    <3> QED BY <2>1, <2>3, <3>1, <3>2
  <2> QED BY <2>2, <2>3, WrittenIs
<1>4. PICK r : Laid(puts, end, n, r) /\ LinesText(w) = r[n]
  BY <1>1, <1>2, TextLaid
<1>5. puts \in [1 .. n -> Seq(C)] /\ \A i \in 1 .. n : Endless(puts[i])
  <2>1. ASSUME NEW i \in 1 .. n PROVE Put(w.lines[i]) \in Seq(C) /\ Endless(Put(w.lines[i]))
    <3>1. w.lines[i] \in OutputLines
      BY <1>1
    <3> QED BY <3>1, PutIs, EndlessLine
  <2> QED BY <2>1
<1> HIDE DEF puts, end, C, D
<1>6. OpsAt(puts, n, n, mod_watcher((r[n] \o last) \o rest), C)
  BY <1>2, <1>3, <1>4, <1>5, WatcherLines
<1>7. r[n] \in Seq(C)
  BY <1>2, <1>4, <1>5, LaidText
<1>8. Text(w) = (r[n] \o last) \o rest
  BY <1>3, <1>4, <1>7 DEF Text, LinesText
<1> QED BY <1>1, <1>6, <1>8 DEF puts, C

(* Each of these operations is acted on.                                   *)
LEMMA WrittenActedOn ==
  ASSUME NEW w \in Written, NEW made,
         LET ops == mod_watcher(Text(w))
         IN made = [i \in DOMAIN ops |-> process_op(ops[i], <<"prog">>, NULL, Here)]
  PROVE  LET full == {i \in DOMAIN w.lines : w.lines[i].word # "none"}
         IN /\ Len(made) = Cardinality(full)
            /\ \A i \in full :
                  LET m == made[Cardinality({j \in full : j <= i})]
                  IN m # {} /\ \A did \in m : Acted(w.lines[i], did)
<1>1. PICK n \in Nat :
        /\ w.lines \in [1 .. n -> OutputLines]
        /\ OpsAt([i \in 1 .. n |-> Put(w.lines[i])], n, n, mod_watcher(Text(w)), WrittenChars)
  BY WrittenLines
<1> DEFINE lines == w.lines
           puts == [i \in 1 .. n |-> Put(lines[i])]
           ops == mod_watcher(Text(w))
           full == {i \in DOMAIN lines : lines[i].word # "none"}
           S == FullOf(puts, n)
           X == Seq(WrittenChars)
           Made(op) == process_op(op, <<"prog">>, NULL, Here)
<1>2. S = full
  <2>1. DOMAIN lines = 1 .. n
    BY <1>1
  <2>2. ASSUME NEW i \in 1 .. n PROVE puts[i] # <<>> <=> lines[i].word # "none"
    <3>1. lines[i] \in OutputLines
      BY <1>1
    <3> QED BY <3>1, PutIs
  <2> HIDE DEF puts, lines
  <2> QED BY <2>1, <2>2 DEF FullOf
<1>3. Among(S, n)
  BY DEF FullOf, Among
<1>4. /\ ops \in Seq(X) /\ Len(ops) = NumBelow(S, n)
      /\ \A j \in Below(S, n) : ops[NumBelow(S, j)] = puts[j]
  BY <1>1 DEF OpsAt
<1>5. made = [i \in DOMAIN ops |-> Made(ops[i])]
  OBVIOUS
<1> HIDE DEF ops, puts, S, X
<1>6. /\ Below(S, n) = S /\ NumBelow(S, n) \in Nat
      /\ \A j \in Below(S, n) : NumBelow(S, j) \in 1 .. NumBelow(S, n)
  BY <1>3, BelowStep
<1>7. Len(made) = Cardinality(full)
  <2> HIDE DEF Made, full
  <2>1. NumBelow(S, n) = Cardinality(full)
    BY <1>2, <1>6 DEF NumBelow
  <2>2. DOMAIN ops = 1 .. Len(ops) /\ Len(ops) \in Nat
    BY <1>4
  <2>3. Len(made) = Len(ops)
    BY <1>5, <2>2
  <2> QED BY <1>4, <2>1, <2>3
<1>8. ASSUME NEW i \in full
      PROVE  LET m == made[Cardinality({j \in full : j <= i})]
             IN m # {} /\ \A did \in m : Acted(lines[i], did)
  <2> DEFINE k == NumBelow(S, i)
  <2>1. i \in Below(S, n) /\ i \in 1 .. n
    BY <1>2, <1>3, <1>6 DEF Among
  <2>2. lines[i] \in OutputLines /\ lines[i].word # "none"
    BY <1>1, <2>1
  <2>3. k \in 1 .. Len(ops) /\ ops[k] = puts[i]
    BY <1>4, <1>6, <2>1
  <2>4. puts[i] = Put(lines[i])
    BY <2>1 DEF puts
  <2>5. k = Cardinality({j \in full : j <= i})
    BY <1>2 DEF NumBelow, Below
  <2>6. Made(Put(lines[i])) # {} /\ \A did \in Made(Put(lines[i])) : Acted(lines[i], did)
    BY <2>2, LineActedOn
  <2> HIDE DEF Made, k, full, lines
  <2>7. made[k] = Made(Put(lines[i]))
    <3>1. k \in DOMAIN ops
      BY <1>4, <2>3
    <3> QED BY <1>5, <2>3, <2>4, <3>1
  <2> QED BY <2>5, <2>6, <2>7
<1> QED BY <1>7, <1>8

(***************************************************************************)
(* Every line that is not empty is acted on once and in order, however     *)
(* many of them a program writes.                                          *)
(***************************************************************************)
THEOREM OutputIsActedOn == Spec => []OutputActedOn
<1>1. ReadInv => OutputActedOn
  <2> SUFFICES ASSUME ReadInv, Done("written") PROVE OutputActedOn
    BY DEF OutputActedOn
  <2> DEFINE w == input.of
             ops == mod_watcher(Text(w))
  <2>1. input.kind = "written" /\ output = [i \in DOMAIN ops |-> process_op(ops[i], <<"prog">>, NULL, Here)]
    BY DEF ReadInv, Done
  <2>2. w \in Written
    BY <2>1 DEF ReadInv, Inputs
  <2> HIDE DEF w
  <2>3. LET full == {i \in DOMAIN w.lines : w.lines[i].word # "none"}
        IN /\ Len(output) = Cardinality(full)
           /\ \A i \in full :
                 LET m == output[Cardinality({j \in full : j <= i})]
                 IN m # {} /\ \A did \in m : Acted(w.lines[i], did)
    BY <2>1, <2>2, WrittenActedOn
  <2> QED BY <2>3 DEF OutputActedOn, w
<1> QED BY <1>1, ReadRight, PTL

(* The member of a set of positions that has q of them up to it is the     *)
(* least position with that many.                                          *)
LEMMA NthMember ==
  ASSUME NEW n \in Nat, NEW S, Among(S, n), NEW c \in S
  PROVE  Min({k \in S : NumBelow(S, k) = NumBelow(S, c)}) = c
<1> DEFINE t == {k \in S : NumBelow(S, k) = NumBelow(S, c)}
<1>1. c \in t /\ c \in 1 .. n
  BY DEF Among
<1>2. t \in SUBSET Nat
  BY DEF Among
<1>3. ASSUME NEW y \in t PROVE c <= y
  <2> SUFFICES ASSUME ~(c <= y) PROVE FALSE
    OBVIOUS
  <2>1. y \in Nat /\ c \in Nat /\ y \in S /\ y < c /\ y \in 1 .. n
    <3>1. y \in S
      OBVIOUS
    <3>2. y \in 1 .. n
      BY <3>1 DEF Among
    <3> HIDE DEF t
    <3> QED BY <1>1, <3>1, <3>2
  <2> DEFINE d == c - 1
  <2>2. d \in Nat /\ d + 1 = c /\ y <= d
    BY <1>1, <2>1
  <2> HIDE DEF d
  <2>3. NumBelow(S, c) = NumBelow(S, d) + 1 /\ NumBelow(S, d) \in Nat
    BY <2>2, BelowStep
  <2>4. y \in Below(S, d)
    BY <2>1, <2>2 DEF Below
  <2>5. NumBelow(S, y) \in 1 .. NumBelow(S, d)
    BY <2>2, <2>4, BelowStep
  <2>6. NumBelow(S, y) = NumBelow(S, c)
    OBVIOUS
  <2> HIDE DEF t
  <2> QED BY <2>3, <2>5, <2>6
<1> HIDE DEF t
<1>4. Min(t) = c
  BY <1>1, <1>2, <1>3, MinIs
<1> QED BY <1>4 DEF t

(* Where there are q members, there is one that is the q-th.               *)
LEMMA MemberReached ==
  ASSUME NEW n \in Nat, NEW S, Among(S, n), NEW q \in Nat \ {0}, ~(Cardinality(S) < q)
  PROVE  \E c \in S : NumBelow(S, c) = q
<1> DEFINE HoldsAt(k) == ~(NumBelow(S, k) < q) => \E c \in S : NumBelow(S, c) = q
           T == {k \in Nat : HoldsAt(k)}
<1>1. 0 \in T
  <2>1. NumBelow(S, 0) = 0
    BY BelowStep
  <2> QED BY <2>1
<1>2. ASSUME NEW k \in Nat, HoldsAt(k) PROVE HoldsAt(k + 1)
  <2> SUFFICES ASSUME ~(NumBelow(S, k + 1) < q) PROVE \E c \in S : NumBelow(S, c) = q
    OBVIOUS
  <2>1. CASE k + 1 \in S
    <3>1. NumBelow(S, k + 1) = NumBelow(S, k) + 1 /\ NumBelow(S, k) \in Nat
      BY <2>1, BelowStep
    <3>2. CASE NumBelow(S, k) < q
      <4>1. NumBelow(S, k + 1) = q
        BY <3>1, <3>2
      <4> QED BY <2>1, <4>1
    <3> QED BY <1>2, <3>2
  <2>2. CASE k + 1 \notin S
    <3>1. NumBelow(S, k + 1) = NumBelow(S, k)
      BY <2>2, BelowStep
    <3> QED BY <1>2, <3>1
  <2> QED BY <2>1, <2>2
<1>3. \A k \in Nat : k \in T
  <2>1. \A k \in Nat : k \in T => k + 1 \in T
    <3> HIDE DEF HoldsAt
    <3> QED BY <1>2
  <2> HIDE DEF T
  <2> QED BY <1>1, <2>1, NatInd
<1>4. NumBelow(S, n) = Cardinality(S)
  <2>1. Below(S, n) = S
    BY BelowStep
  <2> QED BY <2>1 DEF NumBelow
<1>5. HoldsAt(n)
  <2> HIDE DEF HoldsAt
  <2> QED BY <1>3
<1> QED BY <1>4, <1>5

(* Where there are no members, their number stays.                         *)
LEMMA NoneBetween ==
  ASSUME NEW n \in Nat, NEW S, Among(S, n), NEW a \in Nat, NEW c \in Nat, a <= c,
         \A k \in a + 1 .. c : k \notin S
  PROVE  Below(S, c) = Below(S, a) /\ NumBelow(S, c) = NumBelow(S, a)
<1>1. ASSUME NEW j PROVE j \in Below(S, c) <=> j \in Below(S, a)
  <2>1. j \in Below(S, c) <=> j \in S /\ j \in 1 .. n /\ j <= c
    BY BelowIs
  <2>2. j \in Below(S, a) <=> j \in S /\ j \in 1 .. n /\ j <= a
    BY BelowIs
  <2>3. j \in 1 .. n /\ j <= c /\ ~(j <= a) => j \in a + 1 .. c
    OBVIOUS
  <2>4. j \in 1 .. n /\ j <= a => j <= c
    OBVIOUS
  <2> QED BY <2>1, <2>2, <2>3, <2>4
<1>2. Below(S, c) = Below(S, a)
  BY <1>1
<1> QED BY <1>2 DEF NumBelow

(***************************************************************************)
(* Words with one character between them: word k stands behind b[k], and   *)
(* at b[k] there is the space before it.                                   *)
(***************************************************************************)
Spaces(m) == {k \in 1 .. Len(m) : m[k] = Space}

IsWord(w, C) == /\ w \in Seq(C) /\ w # <<>>
                /\ \A i \in 1 .. Len(w) : w[i] # Space /\ w[i] \notin LineEnd

WordAt(m, words, b, k) ==
  /\ b[k] \in Nat /\ Behind(m, b[k], words[k])
  /\ b[k + 1] = b[k] + Len(words[k]) + 1
  /\ k = 1 => b[k] = 0
  /\ k # 1 => m[b[k]] = Space

LineOf(m, words, n, b, C) ==
  /\ n \in Nat \ {0} /\ m \in Seq(C) /\ b[1] = 0
  /\ \A k \in 1 .. n : IsWord(words[k], C) /\ WordAt(m, words, b, k)
  /\ \A k \in 2 .. n : words[k][1] # ":"

\* Position p is in word k, or before it.
InWord(words, b, p, k) ==
  \/ b[k] < p /\ p <= b[k] + Len(words[k])
  \/ k # 1 /\ p = b[k]

(* Where a word of a line is, character by character.                      *)
LEMMA WordPlaces ==
  ASSUME NEW C, NEW m, NEW words, NEW n, NEW b, LineOf(m, words, n, b, C), NEW k \in 1 .. n
  PROVE  /\ b[k] \in Nat /\ b[k + 1] \in Nat /\ Len(words[k]) \in Nat \ {0} /\ Len(m) \in Nat
         /\ b[k + 1] = b[k] + Len(words[k]) + 1 /\ b[k] + Len(words[k]) <= Len(m)
         /\ \A i \in 1 .. Len(words[k]) :
               m[b[k] + i] = words[k][i] /\ words[k][i] # Space /\ words[k][i] \notin LineEnd
         /\ k # 1 => m[b[k]] = Space /\ words[k][1] # ":"
<1>1. IsWord(words[k], C) /\ WordAt(m, words, b, k) /\ m \in Seq(C)
  BY DEF LineOf
<1>2. Len(words[k]) \in Nat \ {0} /\ Len(m) \in Nat
  BY <1>1, EmptySeq DEF IsWord
<1>3. /\ b[k] \in Nat /\ b[k + 1] = b[k] + Len(words[k]) + 1
      /\ b[k] + Len(words[k]) <= Len(m)
      /\ \A i \in 1 .. Len(words[k]) : m[b[k] + i] = words[k][i]
      /\ k # 1 => m[b[k]] = Space
  BY <1>1 DEF WordAt, Behind
<1>4. \A i \in 1 .. Len(words[k]) : words[k][i] # Space /\ words[k][i] \notin LineEnd
  BY <1>1 DEF IsWord
<1>5. k # 1 => words[k][1] # ":"
  <2>1. k # 1 => k \in 2 .. n
    BY DEF LineOf
  <2> QED BY <2>1 DEF LineOf
<1>6. b[k + 1] \in Nat
  BY <1>2, <1>3
<1> QED BY <1>2, <1>3, <1>4, <1>5, <1>6

(* Each position before the end of a word is in it or in one before it.    *)
LEMMA InSomeWord ==
  ASSUME NEW C, NEW m, NEW words, NEW n, NEW b, LineOf(m, words, n, b, C), NEW q \in 0 .. n
  PROVE  b[q + 1] \in Nat /\ \A p \in 1 .. b[q + 1] - 1 : \E k \in 1 .. q : InWord(words, b, p, k)
<1> DEFINE HoldsAt(i) == /\ b[i + 1] \in Nat
                         /\ \A p \in 1 .. b[i + 1] - 1 : \E k \in 1 .. i : InWord(words, b, p, k)
           T == {i \in Nat : i \in 0 .. n => HoldsAt(i)}
<1>0. n \in Nat /\ b[1] = 0
  BY DEF LineOf
<1>1. 0 \in T
  BY <1>0
<1>2. ASSUME NEW i \in Nat, i \in T, i + 1 \in 0 .. n PROVE HoldsAt(i + 1)
  <2>1. i \in 0 .. n /\ i + 1 \in 1 .. n
    BY <1>0, <1>2
  <2>2. HoldsAt(i)
    BY <1>2, <2>1
  <2> DEFINE j == i + 1
  <2>3. /\ b[j] \in Nat /\ b[j + 1] \in Nat /\ Len(words[j]) \in Nat
        /\ b[j + 1] = b[j] + Len(words[j]) + 1
    BY <2>1, WordPlaces
  <2>4. ASSUME NEW p \in 1 .. b[j + 1] - 1 PROVE \E k \in 1 .. j : InWord(words, b, p, k)
    <3>0. j \in 1 .. j /\ j \in Nat
      OBVIOUS
    <3>1. CASE p \in 1 .. b[j] - 1
      <4>1. PICK k \in 1 .. i : InWord(words, b, p, k)
        BY <2>2, <3>1
      <4>2. k \in 1 .. j
        OBVIOUS
      <4> QED BY <4>1, <4>2
    <3>2. CASE p = b[j]
      <4>1. j # 1
        BY <1>0, <3>2
      <4>2. InWord(words, b, p, j)
        BY <3>2, <4>1 DEF InWord
      <4> QED BY <3>0, <4>2
    <3>3. CASE b[j] < p
      <4>1. b[j] < p /\ p <= b[j] + Len(words[j])
        BY <2>3, <3>3
      <4>2. InWord(words, b, p, j)
        BY <4>1 DEF InWord
      <4> QED BY <3>0, <4>2
    <3>4. p \in 1 .. b[j] - 1 \/ p = b[j] \/ b[j] < p
      BY <2>3
    <3> QED BY <3>1, <3>2, <3>3, <3>4
  <2> QED BY <2>3, <2>4
<1>3. \A i \in Nat : i \in T
  <2>1. \A i \in Nat : i \in T => i + 1 \in T
    <3> HIDE DEF HoldsAt
    <3> QED BY <1>2
  <2> HIDE DEF T
  <2> QED BY <1>1, <2>1, NatInd
<1>4. HoldsAt(q)
  <2> HIDE DEF HoldsAt
  <2>1. q \in Nat
    BY <1>0
  <2> QED BY <1>3, <2>1
<1> QED BY <1>4

(* What is at a position of a word, or before it.                          *)
LEMMA AtWord ==
  ASSUME NEW C, NEW m, NEW words, NEW n, NEW b, LineOf(m, words, n, b, C), NEW k \in 1 .. n,
         NEW p \in Nat, InWord(words, b, p, k)
  PROVE  \/ k # 1 /\ p = b[k] /\ m[p] = Space /\ m[p + 1] = words[k][1] /\ words[k][1] # ":"
         \/ \E i \in 1 .. Len(words[k]) : p = b[k] + i /\ m[p] = words[k][i] /\ m[p] # Space /\ m[p] \notin LineEnd
<1>1. /\ b[k] \in Nat /\ Len(words[k]) \in Nat \ {0}
      /\ \A i \in 1 .. Len(words[k]) :
            m[b[k] + i] = words[k][i] /\ words[k][i] # Space /\ words[k][i] \notin LineEnd
      /\ k # 1 => m[b[k]] = Space /\ words[k][1] # ":"
  BY WordPlaces
<1>2. CASE k # 1 /\ p = b[k]
  <2>1. 1 \in 1 .. Len(words[k])
    BY <1>1
  <2> QED BY <1>1, <1>2, <2>1
<1>3. CASE b[k] < p /\ p <= b[k] + Len(words[k])
  <2> DEFINE i == p - b[k]
  <2>1. i \in 1 .. Len(words[k]) /\ p = b[k] + i
    BY <1>1, <1>3
  <2> HIDE DEF i
  <2> QED BY <1>1, <2>1
<1> QED BY <1>2, <1>3 DEF InWord

(* Behind a word there is one space more, if it is a space.                *)
LEMMA SpaceBehind ==
  ASSUME NEW C, NEW m, NEW words, NEW n, NEW b, LineOf(m, words, n, b, C), NEW k \in 1 .. n,
         b[k + 1] <= Len(m)
  PROVE  /\ Among(Spaces(m), Len(m)) /\ Len(m) \in Nat /\ NumBelow(Spaces(m), b[k]) \in Nat
         /\ NumBelow(Spaces(m), b[k + 1] - 1) = NumBelow(Spaces(m), b[k])
         /\ m[b[k + 1]] = Space => /\ NumBelow(Spaces(m), b[k + 1]) = NumBelow(Spaces(m), b[k]) + 1
                                   /\ b[k + 1] \in Spaces(m)
<1> DEFINE S == Spaces(m)
           a == b[k]
           e == b[k + 1]
           d == e - 1
<1>1. /\ a \in Nat /\ e \in Nat /\ Len(words[k]) \in Nat \ {0} /\ Len(m) \in Nat
      /\ e = a + Len(words[k]) + 1
  BY WordPlaces
<1>2. Among(S, Len(m))
  BY DEF Among, Spaces
<1>3. \A p \in a + 1 .. d : p \notin S
  <2> SUFFICES ASSUME NEW p \in a + 1 .. d PROVE p \notin S
    OBVIOUS
  <2>1. p \in Nat /\ a < p /\ p <= a + Len(words[k])
    BY <1>1
  <2>2. InWord(words, b, p, k)
    BY <2>1 DEF InWord
  <2>3. m[p] # Space
    BY <2>1, <2>2, AtWord
  <2> QED BY <2>3 DEF Spaces
<1>4. d \in Nat /\ a <= d /\ d + 1 = e /\ e \in 1 .. Len(m)
  BY <1>1
<1> HIDE DEF d, a, e, S
<1>5. NumBelow(S, d) = NumBelow(S, a)
  BY <1>1, <1>2, <1>3, <1>4, NoneBetween
<1>6. NumBelow(S, a) \in Nat
  BY <1>1, <1>2, BelowFinite
<1>7. ASSUME m[e] = Space PROVE NumBelow(S, e) = NumBelow(S, a) + 1 /\ e \in S
  <2>1. e \in S
    BY <1>4, <1>7 DEF S, Spaces
  <2>2. NumBelow(S, d + 1) = NumBelow(S, d) + 1
    BY <1>1, <1>2, <1>4, <2>1, BelowStep
  <2> QED BY <1>4, <1>5, <2>1, <2>2
<1> QED BY <1>1, <1>2, <1>5, <1>6, <1>7 DEF S, a, e, d

(* Word q has q - 1 spaces before it.                                      *)
LEMMA SpacesBefore ==
  ASSUME NEW C, NEW m, NEW words, NEW n, NEW b, LineOf(m, words, n, b, C), NEW q \in 1 .. n
  PROVE  NumBelow(Spaces(m), b[q]) = q - 1 /\ (q # 1 => b[q] \in Spaces(m))
<1> DEFINE S == Spaces(m)
           HoldsAt(i) == NumBelow(S, b[i + 1]) = i
           T == {i \in Nat : i \in 0 .. n - 1 => HoldsAt(i)}
<1>0. n \in Nat /\ b[1] = 0 /\ Len(m) \in Nat /\ Among(S, Len(m))
  BY WordPlaces DEF LineOf, Among, Spaces
<1>1. 0 \in T
  <2> HIDE DEF S
  <2>1. NumBelow(S, 0) = 0
    BY <1>0, BelowStep
  <2> QED BY <1>0, <2>1
<1>2. ASSUME NEW k \in 1 .. n, k + 1 \in 1 .. n
      PROVE  NumBelow(S, b[k + 1]) = NumBelow(S, b[k]) + 1 /\ b[k + 1] \in S
  <2> DEFINE j == k + 1
  <2>0. j # 1
    OBVIOUS
  <2>1. b[j] + Len(words[j]) <= Len(m) /\ b[j] \in Nat /\ Len(words[j]) \in Nat /\ m[b[j]] = Space
    <3> HIDE DEF j
    <3> QED BY <1>2, <2>0, WordPlaces DEF j
  <2>2. b[j] <= Len(m)
    BY <1>0, <2>1
  <2> QED BY <2>1, <2>2, SpaceBehind
<1>3. ASSUME NEW i \in Nat, i \in T, i + 1 \in 0 .. n - 1 PROVE HoldsAt(i + 1)
  <2> DEFINE k == i + 1
  <2>1. k \in 1 .. n /\ k + 1 \in 1 .. n /\ i \in 0 .. n - 1
    BY <1>0, <1>3
  <2>2. HoldsAt(i)
    BY <1>3, <2>1
  <2> HIDE DEF S
  <2>3. NumBelow(S, b[k + 1]) = NumBelow(S, b[k]) + 1
    BY <1>2, <2>1
  <2> QED BY <2>2, <2>3
<1>4. \A i \in Nat : i \in T
  <2>1. \A i \in Nat : i \in T => i + 1 \in T
    <3> HIDE DEF HoldsAt
    <3> QED BY <1>3
  <2> HIDE DEF T
  <2> QED BY <1>1, <2>1, NatInd
<1>5. NumBelow(S, b[q]) = q - 1
  <2> DEFINE i == q - 1
  <2>1. i \in Nat /\ i \in 0 .. n - 1 /\ i + 1 = q
    BY <1>0
  <2> HIDE DEF i
  <2>2. HoldsAt(i)
    <3> HIDE DEF HoldsAt
    <3> QED BY <1>4, <2>1
  <2> QED BY <2>1, <2>2 DEF i
<1>6. ASSUME q # 1 PROVE b[q] \in S
  <2> DEFINE i == q - 1
  <2>1. i \in 1 .. n /\ i + 1 = q /\ i + 1 \in 1 .. n
    BY <1>0, <1>6
  <2> HIDE DEF i, S
  <2> QED BY <1>2, <2>1
<1> QED BY <1>5, <1>6

NoColon(words, q) == \A k \in 1 .. q : \A i \in 1 .. Len(words[k]) : words[k][i] # ":"

(* A colon before the end of word q is in one of the words up to q.        *)
LEMMA ColonFree ==
  ASSUME NEW C, NEW m, NEW words, NEW n, NEW b, LineOf(m, words, n, b, C), NEW q \in 0 .. n, NoColon(words, q)
  PROVE  \A p \in 1 .. b[q + 1] - 1 : m[p] # ":"
<1> SUFFICES ASSUME NEW p \in 1 .. b[q + 1] - 1 PROVE m[p] # ":"
  OBVIOUS
<1>1. PICK k \in 1 .. q : InWord(words, b, p, k)
  BY InSomeWord
<1>2. k \in 1 .. n /\ p \in Nat
  BY DEF LineOf
<1>3. CASE m[p] = Space
  BY <1>3, Zenon DEF Space
<1>4. CASE \E i \in 1 .. Len(words[k]) : m[p] = words[k][i]
  BY <1>4 DEF NoColon
<1> QED BY <1>1, <1>2, <1>3, <1>4, AtWord

(* No tail begins before the end of the last word.                         *)
LEMMA NoTailBefore ==
  ASSUME NEW C, NEW m, NEW words, NEW n, NEW b, LineOf(m, words, n, b, C)
  PROVE  \A p \in 1 .. b[n + 1] - 1 : ~(m[p] = Space /\ m[p + 1] = ":")
<1> SUFFICES ASSUME NEW p \in 1 .. b[n + 1] - 1 PROVE ~(m[p] = Space /\ m[p + 1] = ":")
  OBVIOUS
<1>0. n \in 0 .. n
  BY DEF LineOf
<1>1. PICK k \in 1 .. n : InWord(words, b, p, k)
  BY <1>0, InSomeWord
<1>2. p \in Nat
  OBVIOUS
<1> QED BY <1>1, <1>2, AtWord

(* What is behind the words: a tail and the end of the line, or the end.   *)
TailAt(m, e, tail, C) ==
  /\ e \in Nat \ {0} /\ m[e] = Space /\ m[e + 1] = ":" /\ tail \in Seq(C) /\ Behind(m, e + 1, tail)
  /\ e + 1 + Len(tail) < Len(m) /\ m[e + 1 + Len(tail) + 1] \in LineEnd
  /\ \A i \in 1 .. Len(tail) : tail[i] \notin LineEnd

EndAt(m, e) == e \in Nat /\ Len(m) = e + 1 /\ m[e] \in LineEnd /\ m[e + 1] \in LineEnd

(* get_tail finds the tail.                                                *)
LEMMA TailTaken ==
  ASSUME NEW C, NEW m, NEW words, NEW n, NEW b, LineOf(m, words, n, b, C), NEW tail,
         TailAt(m, b[n + 1], tail, C), NEW size
  PROVE  get_tail(m, size) = Held(tail, IRC_MSG_MAX, size)
<1> DEFINE e == b[n + 1]
           tails == {k \in 1 .. (Len(m) - 1) : m[k] = Space /\ m[k + 1] = ":"}
           l == Len(tail)
<1>0. \A p \in 1 .. e - 1 : ~(m[p] = Space /\ m[p + 1] = ":")
  BY NoTailBefore
<1>1. m \in Seq(C) /\ Len(m) \in Nat
  BY DEF LineOf
<1> HIDE DEF e
<1>2. /\ e \in Nat \ {0} /\ m[e] = Space /\ m[e + 1] = ":" /\ tail \in Seq(C) /\ Behind(m, e + 1, tail)
      /\ e + 1 + l < Len(m) /\ m[e + 1 + l + 1] \in LineEnd /\ l \in Nat
      /\ \A i \in 1 .. l : tail[i] \notin LineEnd
  BY DEF TailAt, e
<1>3. Min(tails) = e /\ tails # {}
  <2>1. e \in tails
    BY <1>1, <1>2
  <2>2. tails \in SUBSET Nat
    OBVIOUS
  <2>3. ASSUME NEW y \in tails PROVE e <= y
    <3>1. y \notin 1 .. e - 1
      BY <1>0
    <3> QED BY <1>1, <1>2, <3>1
  <2> HIDE DEF tails
  <2> QED BY <2>1, <2>2, <2>3, MinIs
<1> DEFINE first == e + 2
           last == e + 1 + l + 1
<1>4. Until(m, first, LineEnd) = last
  <2>1. first \in Nat /\ last \in first .. Len(m) /\ m[last] \in LineEnd
    BY <1>1, <1>2
  <2>2. ASSUME NEW k \in first .. last - 1 PROVE m[k] \notin LineEnd
    <3> DEFINE i == k - (e + 1)
    <3>1. i \in 1 .. l /\ (e + 1) + i = k
      BY <1>2
    <3>2. m[(e + 1) + i] = tail[i]
      BY <1>2, <3>1 DEF Behind
    <3> QED BY <1>2, <3>1, <3>2
  <2> HIDE DEF first, last
  <2> QED BY <1>1, <2>1, <2>2, UntilAt
<1>5. SubSeq(m, first, last - 1) = tail
  <2> DEFINE p == e + 1
  <2>1. p \in Nat /\ p + 1 = first /\ p + l = last - 1
    BY <1>2
  <2>2. Behind(m, p, tail)
    BY <1>2
  <2> HIDE DEF p, first, last
  <2>3. SubSeq(m, p + 1, p + Len(tail)) = tail
    BY <1>1, <1>2, <2>1, <2>2, SubSeqBehind
  <2> QED BY <2>1, <2>3
<1> HIDE DEF tails
<1>6. get_tail(m, size) = IF tails = {} THEN NULL
        ELSE Held(SubSeq(m, Min(tails) + 2, Until(m, Min(tails) + 2, LineEnd) - 1), IRC_MSG_MAX, size)
  BY DEF get_tail, tails
<1> QED BY <1>3, <1>4, <1>5, <1>6

(* Where nothing follows the words get_tail finds no tail.                 *)
LEMMA NoTailTaken ==
  ASSUME NEW C, NEW m, NEW words, NEW n, NEW b, LineOf(m, words, n, b, C), EndAt(m, b[n + 1]), NEW size
  PROVE  get_tail(m, size) = NULL
<1> DEFINE e == b[n + 1]
           tails == {k \in 1 .. (Len(m) - 1) : m[k] = Space /\ m[k + 1] = ":"}
<1>0. \A p \in 1 .. e - 1 : ~(m[p] = Space /\ m[p + 1] = ":")
  BY NoTailBefore
<1>1. e \in Nat /\ Len(m) = e + 1 /\ m[e] \in LineEnd
  BY DEF EndAt
<1>2. m[e] # Space
  BY <1>1, Zenon DEF LineEnd, Space
<1> HIDE DEF e
<1>3. tails = {}
  <2> SUFFICES ASSUME NEW k \in tails PROVE FALSE
    OBVIOUS
  <2>1. k \in 1 .. e - 1 \/ k = e
    BY <1>1
  <2> QED BY <1>0, <1>2, <2>1
<1> QED BY <1>3 DEF get_tail

\* get_param, behind the sender.
Start(m, q) == Min({k \in Spaces(m) : NumBelow(Spaces(m), k) = q}) + 1

ParamIn(m, size, q) ==
  IF Cardinality(Spaces(m)) < q \/ \E k \in 1 .. Start(m, q) - 1 : m[k] = ":" THEN NULL
  ELSE IF Start(m, q) <= Len(m) /\ m[Start(m, q)] = ":" THEN get_tail(m, size)
  ELSE Cut(SubSeq(m, Start(m, q), Until(m, Start(m, q), LineEnd \cup {Space}) - 1), size)

(* get_param looks for parameters behind the sender.                       *)
LEMMA ParamBehind ==
  ASSUME NEW msg, NEW size, NEW q
  PROVE  get_param(msg, size, q) = IF HasSender(msg) /\ NoSpace(msg) THEN Overrun
                                   ELSE ParamIn(SkipSender(msg), size, q)
BY Zenon DEF get_param, ParamIn, Start, Spaces, NumBelow, Below, Quantify

(* Behind word q there is the q-th space, and parameter q begins there.    *)
LEMMA ParamStart ==
  ASSUME NEW C, NEW m, NEW words, NEW n, NEW b, LineOf(m, words, n, b, C), NEW q \in 1 .. n,
         b[q + 1] <= Len(m), m[b[q + 1]] = Space
  PROVE  /\ b[q + 1] \in Nat /\ b[q + 1] \in 1 .. Len(m) /\ q \in 0 .. n /\ q \in Nat
         /\ NumBelow(Spaces(m), b[q + 1]) = q /\ Among(Spaces(m), Len(m))
         /\ Start(m, q) = b[q + 1] + 1 /\ ~(Cardinality(Spaces(m)) < q)
<1> DEFINE S == Spaces(m)
           c == b[q + 1]
<1>0. Len(m) \in Nat /\ q \in 0 .. n /\ q \in Nat
  BY WordPlaces DEF LineOf
<1>1. /\ Among(S, Len(m)) /\ NumBelow(S, c) = NumBelow(S, b[q]) + 1 /\ c \in S
  BY SpaceBehind
<1>2. NumBelow(S, b[q]) = q - 1
  BY SpacesBefore
<1> HIDE DEF S, c
<1>3. NumBelow(S, c) = q /\ c \in Nat /\ c \in 1 .. Len(m)
  BY <1>0, <1>1, <1>2 DEF Among
<1>4. Min({k \in S : NumBelow(S, k) = NumBelow(S, c)}) = c
  BY <1>0, <1>1, NthMember
<1>5. Start(m, q) = c + 1
  BY <1>3, <1>4 DEF Start, S
<1>6. ~(Cardinality(S) < q)
  <2>1. Below(S, Len(m)) = S
    BY <1>0, <1>1, BelowStep
  <2>2. IsFiniteSet(Below(S, Len(m)))
    BY <1>0, <1>1, BelowFinite
  <2>3. Below(S, c) \in SUBSET S
    BY DEF Below
  <2>4. Cardinality(Below(S, c)) <= Cardinality(S) /\ Cardinality(S) \in Nat
    BY <2>1, <2>2, <2>3, FS_Subset, FS_CardinalityType
  <2> QED BY <1>0, <1>3, <2>4 DEF NumBelow
<1> QED BY <1>0, <1>1, <1>3, <1>5, <1>6 DEF S, c

(* Parameter q is the word behind the q-th space.                          *)
LEMMA ParamIsWord ==
  ASSUME NEW C, NEW m, NEW words, NEW n, NEW b, LineOf(m, words, n, b, C),
         b[n + 1] <= Len(m), m[b[n + 1]] \in LineEnd \cup {Space},
         NEW q \in 1 .. n - 1, NoColon(words, q), NEW size
  PROVE  ParamIn(m, size, q) = Cut(words[q + 1], size)
<1> DEFINE S == Spaces(m)
           j == q + 1
           c == b[j]
           w == words[j]
           start == c + 1
           stop == c + Len(w) + 1
<1>0. n \in Nat /\ m \in Seq(C) /\ Len(m) \in Nat
  BY DEF LineOf
<1>1. j \in 1 .. n /\ j # 1 /\ j - 1 = q /\ q \in 0 .. n /\ q \in Nat
  BY <1>0
<1>3. /\ c \in Nat /\ Len(w) \in Nat \ {0} /\ b[j + 1] = stop /\ c + Len(w) <= Len(m)
      /\ \A i \in 1 .. Len(w) : m[c + i] = w[i] /\ w[i] # Space /\ w[i] \notin LineEnd
      /\ w[1] # ":"
  <2> HIDE DEF j
  <2> QED BY <1>1, WordPlaces
<1>4. Start(m, q) = start /\ ~(Cardinality(S) < q) /\ m[c] = Space
  <2>1. m[c] = Space /\ c <= Len(m)
    <3>1. m[c] = Space
      <4> HIDE DEF j
      <4> QED BY <1>1, WordPlaces
    <3> QED BY <1>0, <1>3, <3>1
  <2>2. q \in 1 .. n
    BY <1>0
  <2> QED BY <2>1, <2>2, ParamStart
<1>6. ~ \E k \in 1 .. start - 1 : m[k] = ":"
  <2>1. \A p \in 1 .. b[q + 1] - 1 : m[p] # ":"
    BY <1>1, ColonFree
  <2>2. m[c] # ":"
    BY <1>4, Zenon DEF Space
  <2>3. \A k \in 1 .. start - 1 : k \in 1 .. b[q + 1] - 1 \/ k = c
    BY <1>3
  <2> QED BY <2>1, <2>2, <2>3
<1>7. m[start] # ":"
  <2>1. 1 \in 1 .. Len(w)
    BY <1>3
  <2> QED BY <1>3, <2>1
<1>8. stop <= Len(m) /\ m[stop] \in LineEnd \cup {Space}
  <2>1. CASE j = n
    BY <1>3, <2>1
  <2>2. CASE j # n
    <3> DEFINE i == j + 1
    <3>1. i \in 1 .. n /\ i # 1
      BY <1>0, <1>1, <2>2
    <3> HIDE DEF i
    <3>2. m[b[i]] = Space /\ b[i] \in Nat /\ Len(words[i]) \in Nat /\ b[i] + Len(words[i]) <= Len(m)
      BY <3>1, WordPlaces
    <3>3. b[i] = stop
      BY <1>3 DEF i
    <3> QED BY <1>0, <3>2, <3>3
  <2> QED BY <2>1, <2>2
<1> HIDE DEF S, c, w, j
<1>9. Until(m, start, LineEnd \cup {Space}) = stop
  <2> DEFINE chars == LineEnd \cup {Space}
  <2>1. start \in Nat /\ stop \in start .. Len(m)
    BY <1>0, <1>3, <1>8
  <2>2. ASSUME NEW k \in start .. stop - 1 PROVE m[k] \notin chars
    <3> DEFINE i == k - c
    <3>1. i \in 1 .. Len(w) /\ c + i = k
      BY <1>3
    <3> HIDE DEF i
    <3> QED BY <1>3, <3>1
  <2>3. m[stop] \in chars
    BY <1>8
  <2> HIDE DEF chars, start, stop
  <2>4. Until(m, start, chars) = stop
    BY <1>0, <2>1, <2>2, <2>3, UntilAt
  <2> QED BY <2>4 DEF chars
<1>10. SubSeq(m, start, stop - 1) = w
  <2>1. Behind(m, c, w)
    BY <1>3 DEF Behind
  <2>2. stop - 1 = c + Len(w)
    BY <1>3
  <2>3. w \in Seq(C)
    <3>1. IsWord(words[j], C)
      BY <1>1 DEF LineOf
    <3> QED BY <3>1 DEF IsWord, w
  <2> QED BY <1>0, <1>3, <2>1, <2>2, <2>3, SubSeqBehind
<1>11. ParamIn(m, size, q) = Cut(SubSeq(m, start, stop - 1), size)
  <2> HIDE DEF start, stop
  <2> QED BY <1>4, <1>6, <1>7, <1>9 DEF ParamIn, S
<1> QED BY <1>10, <1>11 DEF w, j

(* The parameter behind the words is the tail.                             *)
LEMMA ParamIsTail ==
  ASSUME NEW C, NEW m, NEW words, NEW n, NEW b, LineOf(m, words, n, b, C), NEW tail,
         TailAt(m, b[n + 1], tail, C), NoColon(words, n), NEW size
  PROVE  ParamIn(m, size, n) = Held(tail, IRC_MSG_MAX, size)
<1> DEFINE c == b[n + 1]
<1>0. n \in 1 .. n /\ n \in 0 .. n /\ n \in Nat
  BY DEF LineOf
<1>1. c \in Nat /\ m[c] = Space /\ m[c + 1] = ":" /\ c + 1 <= Len(m) /\ c <= Len(m)
  <2>1. Len(tail) \in Nat /\ Len(m) \in Nat
    BY DEF TailAt, LineOf
  <2> HIDE DEF c
  <2> QED BY <2>1 DEF TailAt, c
<1>2. Start(m, n) = c + 1 /\ ~(Cardinality(Spaces(m)) < n)
  BY <1>0, <1>1, ParamStart
<1>3. ~ \E k \in 1 .. (c + 1) - 1 : m[k] = ":"
  <2>1. \A p \in 1 .. c - 1 : m[p] # ":"
    BY <1>0, ColonFree
  <2>2. m[c] # ":"
    BY <1>1, Zenon DEF Space
  <2> HIDE DEF c
  <2>3. \A k \in 1 .. (c + 1) - 1 : k \in 1 .. c - 1 \/ k = c
    BY <1>1
  <2> QED BY <2>1, <2>2, <2>3
<1>4. get_tail(m, size) = Held(tail, IRC_MSG_MAX, size)
  BY TailTaken
<1> HIDE DEF c
<1> QED BY <1>1, <1>2, <1>3, <1>4 DEF ParamIn

(* There is none behind the tail, whatever spaces it has.                  *)
LEMMA NoParamBehindTail ==
  ASSUME NEW C, NEW m, NEW words, NEW n, NEW b, LineOf(m, words, n, b, C), NEW tail,
         TailAt(m, b[n + 1], tail, C), NEW q \in Nat, n < q, NEW size
  PROVE  ParamIn(m, size, q) = NULL
<1> DEFINE c == b[n + 1]
           S == Spaces(m)
<1>0. n \in 1 .. n /\ n \in Nat \ {0} /\ Len(m) \in Nat
  BY DEF LineOf
<1>1. c \in Nat /\ m[c] = Space /\ m[c + 1] = ":" /\ c <= Len(m)
  <2>1. Len(tail) \in Nat
    BY DEF TailAt
  <2> HIDE DEF c
  <2> QED BY <1>0, <2>1 DEF TailAt, c
<1>2. NumBelow(S, c) = n /\ Among(S, Len(m))
  BY <1>0, <1>1, ParamStart
<1>3. CASE Cardinality(S) < q
  BY <1>3 DEF ParamIn
<1>4. CASE ~(Cardinality(S) < q)
  <2> DEFINE t == {k \in S : NumBelow(S, k) = q}
             s == Min(t)
  <2>1. t \in SUBSET Nat /\ t # {}
    <3>1. q \in Nat \ {0}
      BY <1>0
    <3> HIDE DEF S
    <3>2. \E k \in S : NumBelow(S, k) = q
      BY <1>0, <1>2, <1>4, <3>1, MemberReached
    <3> QED BY <1>2, <3>2 DEF Among
  <2>2. s \in t
    <3> HIDE DEF t
    <3> QED BY <2>1, MinIn
  <2>3. NumBelow(S, s) = q /\ s \in Nat /\ s \in S
    BY <2>1, <2>2
  <2> HIDE DEF s, t, S, c
  <2>4. c < s
    <3> SUFFICES ASSUME ~(c < s) PROVE FALSE
      OBVIOUS
    <3>1. s \in Below(S, c)
      BY <1>1, <2>3 DEF Below
    <3>2. NumBelow(S, s) \in 1 .. NumBelow(S, c)
      BY <1>0, <1>1, <1>2, <3>1, BelowStep
    <3> QED BY <1>0, <1>2, <2>3, <3>2
  <2>5. Start(m, q) = s + 1
    BY DEF Start, s, t, S
  <2>6. c + 1 \in 1 .. (s + 1) - 1
    BY <1>1, <2>3, <2>4
  <2> QED BY <1>1, <2>5, <2>6 DEF ParamIn
<1> QED BY <1>3, <1>4

(* Nor behind the last word of a line without a tail.                      *)
LEMMA NoParamBehindWords ==
  ASSUME NEW C, NEW m, NEW words, NEW n, NEW b, LineOf(m, words, n, b, C), EndAt(m, b[n + 1]),
         NEW q \in Nat, ~(q < n), NEW size
  PROVE  ParamIn(m, size, q) = NULL
<1> DEFINE c == b[n + 1]
           S == Spaces(m)
           d == c - 1
<1>0. n \in 1 .. n /\ n \in Nat \ {0} /\ b[n] \in Nat
  BY DEF LineOf, WordAt
<1>1. c \in Nat \ {0} /\ Len(m) = c + 1 /\ m[c] # Space /\ m[c + 1] # Space
  <2>1. \A x \in LineEnd : x # Space
    BY Zenon DEF LineEnd, Space
  <2>2. c # 0
    BY <1>0, WordPlaces
  <2> QED BY <2>1, <2>2 DEF EndAt
<1>2. NumBelow(S, d) = NumBelow(S, b[n]) /\ Among(S, Len(m)) /\ NumBelow(S, b[n]) = n - 1
  <2>1. c <= Len(m)
    BY <1>1
  <2>2. NumBelow(S, b[n]) = n - 1
    BY <1>0, SpacesBefore
  <2> QED BY <1>0, <2>1, <2>2, SpaceBehind
<1>3. \A k \in d + 1 .. Len(m) : k \notin S
  <2>1. \A k \in d + 1 .. Len(m) : k = c \/ k = c + 1
    BY <1>1
  <2> QED BY <1>1, <2>1 DEF Spaces
<1>4. d \in Nat /\ d <= Len(m) /\ Len(m) \in Nat
  BY <1>1
<1> HIDE DEF S, c, d
<1>5. NumBelow(S, Len(m)) = n - 1
  BY <1>2, <1>3, <1>4, NoneBetween
<1>6. Cardinality(S) < q
  <2>1. Below(S, Len(m)) = S
    BY <1>2, <1>4, BelowStep
  <2>2. Cardinality(S) = n - 1
    BY <1>5, <2>1 DEF NumBelow
  <2> QED BY <1>0, <2>2
<1> QED BY <1>6 DEF ParamIn, S

SenderPart(sender) == (<<":">> \o sender) \o <<Space>>

\* The words with the sender as the first of them, and where they stand.
WithSender(words, n, sender) == [k \in 1 .. n + 1 |-> IF k = 1 THEN <<":">> \o sender ELSE words[k - 1]]
Moved(b, n, d) == [k \in 1 .. n + 2 |-> IF k = 1 THEN 0 ELSE b[k - 1] + d]

IsSender(sender, C) == sender \in Seq(C) /\ \A i \in 1 .. Len(sender) : sender[i] # Space /\ sender[i] \notin LineEnd

(* The sender with its colon is a word, and a space follows it.            *)
LEMMA SenderIs ==
  ASSUME NEW C, ":" \in C, Space \in C, NEW sender, IsSender(sender, C)
  PROVE  /\ IsWord(<<":">> \o sender, C) /\ Len(<<":">> \o sender) = 1 + Len(sender)
         /\ (<<":">> \o sender)[1] = ":" /\ \A i \in 1 .. Len(sender) : (<<":">> \o sender)[1 + i] = sender[i]
         /\ SenderPart(sender) \in Seq(C) /\ Len(SenderPart(sender)) = Len(sender) + 2
         /\ SenderPart(sender)[Len(sender) + 2] = Space
         /\ \A i \in 1 .. 1 + Len(sender) : SenderPart(sender)[i] = (<<":">> \o sender)[i]
<1> DEFINE colon == ":"
           l == Len(sender)
           f == <<colon>> \o sender
           h == f \o <<Space>>
<1>0. sender \in Seq(C) /\ l \in Nat /\ \A i \in 1 .. l : sender[i] # Space /\ sender[i] \notin LineEnd
  BY DEF IsSender
<1>1. colon \in C /\ Space \in C /\ colon # Space /\ colon \notin LineEnd
  BY Zenon DEF Space, LineEnd
<1> HIDE DEF colon
<1>2. <<colon>> \in Seq(C) /\ Len(<<colon>>) = 1 /\ <<colon>>[1] = colon
  BY <1>1
<1>3. /\ f \in Seq(C) /\ Len(f) = 1 + l
      /\ \A i \in 1 .. 1 + l : f[i] = IF i <= 1 THEN <<colon>>[i] ELSE sender[i - 1]
  BY <1>0, <1>2, ConcatProperties
<1> HIDE DEF f
<1>4. f[1] = colon /\ \A i \in 1 .. l : f[1 + i] = sender[i]
  <2>1. 1 \in 1 .. 1 + l /\ \A i \in 1 .. l : 1 + i \in 1 .. 1 + l /\ ~(1 + i <= 1) /\ (1 + i) - 1 = i
    BY <1>0
  <2> QED BY <1>2, <1>3, <2>1
<1>5. \A i \in 1 .. Len(f) : f[i] # Space /\ f[i] \notin LineEnd
  <2> SUFFICES ASSUME NEW i \in 1 .. Len(f) PROVE f[i] # Space /\ f[i] \notin LineEnd
    OBVIOUS
  <2>1. CASE i = 1
    BY <1>1, <1>4, <2>1
  <2>2. CASE i # 1
    <3> DEFINE j == i - 1
    <3>1. j \in 1 .. l /\ 1 + j = i
      BY <1>0, <1>3, <2>2
    <3> QED BY <1>0, <1>4, <3>1
  <2> QED BY <2>1, <2>2
<1>6. IsWord(f, C)
  <2>1. f # <<>>
    <3>1. Len(f) # 0 /\ Len(<<>>) = 0
      BY <1>0, <1>3
    <3> QED BY <3>1
  <2> QED BY <1>3, <1>5, <2>1 DEF IsWord
<1>7. <<Space>> \in Seq(C) /\ Len(<<Space>>) = 1 /\ <<Space>>[1] = Space
  BY <1>1
<1>8. /\ h \in Seq(C) /\ Len(h) = (1 + l) + 1
      /\ \A i \in 1 .. (1 + l) + 1 : h[i] = IF i <= 1 + l THEN f[i] ELSE <<Space>>[i - (1 + l)]
  BY <1>3, <1>7, ConcatProperties
<1> HIDE DEF h
<1>9. h[l + 2] = Space /\ Len(h) = l + 2 /\ \A i \in 1 .. 1 + l : h[i] = f[i]
  <2>1. /\ l + 2 \in 1 .. (1 + l) + 1 /\ ~(l + 2 <= 1 + l) /\ (l + 2) - (1 + l) = 1
        /\ \A i \in 1 .. 1 + l : i \in 1 .. (1 + l) + 1 /\ i <= 1 + l
    BY <1>0
  <2> QED BY <1>0, <1>7, <1>8, <2>1
<1> QED BY <1>3, <1>4, <1>6, <1>8, <1>9 DEF SenderPart, f, h, colon

Carries(h, m, C) == \A p \in Nat, w \in Seq(C) : Behind(m, p, w) => Behind(h \o m, p + Len(h), w)

Extended(h, m, C) ==
    /\ h \o m \in Seq(C) /\ Len(h \o m) = Len(h) + Len(m) /\ Len(h) \in Nat /\ Len(m) \in Nat
    /\ \A i \in 1 .. Len(h) : (h \o m)[i] = h[i]
    /\ \A i \in 1 .. Len(m) : (h \o m)[i + Len(h)] = m[i]
    /\ Carries(h, m, C)

(* What stands behind a position in m stands behind it and d in what has   *)
(* d characters before m.                                                  *)
LEMMA BehindMoved ==
  ASSUME NEW C, NEW h \in Seq(C), NEW m \in Seq(C)
  PROVE  Extended(h, m, C)
<1> DEFINE t == h \o m
           d == Len(h)
           l == Len(m)
<1>0. d \in Nat /\ l \in Nat
  OBVIOUS
<1>1. /\ t \in Seq(C) /\ Len(t) = d + l
      /\ \A i \in 1 .. d + l : t[i] = IF i <= d THEN h[i] ELSE m[i - d]
  BY ConcatProperties
<1> HIDE DEF t, d, l
<1>2. \A i \in 1 .. d : t[i] = h[i]
  <2>1. \A i \in 1 .. d : i \in 1 .. d + l /\ i <= d
    BY <1>0
  <2> QED BY <1>1, <2>1
<1>3. \A i \in 1 .. l : t[i + d] = m[i]
  <2>1. \A i \in 1 .. l : i + d \in 1 .. d + l /\ ~(i + d <= d) /\ (i + d) - d = i
    BY <1>0
  <2> QED BY <1>1, <2>1
<1>4. ASSUME NEW p \in Nat, NEW w \in Seq(C), Behind(m, p, w) PROVE Behind(t, p + d, w)
  <2>1. p + Len(w) <= l /\ Len(w) \in Nat /\ \A i \in 1 .. Len(w) : m[p + i] = w[i]
    BY <1>4 DEF Behind, l
  <2>2. (p + d) + Len(w) <= Len(t)
    BY <1>0, <1>1, <2>1
  <2>3. ASSUME NEW i \in 1 .. Len(w) PROVE t[(p + d) + i] = w[i]
    <3>1. p + i \in 1 .. l /\ (p + i) + d = (p + d) + i
      BY <1>0, <2>1
    <3>2. t[(p + i) + d] = m[p + i]
      BY <1>3, <3>1
    <3> QED BY <2>1, <3>1, <3>2
  <2> QED BY <2>2, <2>3 DEF Behind
<1>5. Carries(h, m, C)
  BY <1>4 DEF Carries, t, d
<1> QED BY <1>0, <1>1, <1>2, <1>3, <1>5 DEF Extended, t, d, l

(* A line with a sender is a line whose first word is the sender.          *)
LEMMA LineWithSender ==
  ASSUME NEW C, ":" \in C, Space \in C, NEW sender, IsSender(sender, C),
         NEW m, NEW words, NEW n, NEW b, LineOf(m, words, n, b, C), words[1][1] # ":"
  PROVE  /\ LineOf(SenderPart(sender) \o m, WithSender(words, n, sender), n + 1, Moved(b, n, Len(sender) + 2), C)
         /\ Moved(b, n, Len(sender) + 2)[n + 2] = b[n + 1] + (Len(sender) + 2)
         /\ Len(sender) + 2 \in Nat /\ b[n + 1] \in Nat
<1> DEFINE h == SenderPart(sender)
           f == <<":">> \o sender
           d == Len(sender) + 2
           t == h \o m
           wor == WithSender(words, n, sender)
           at == Moved(b, n, d)
<1>0. n \in Nat \ {0} /\ m \in Seq(C) /\ b[1] = 0 /\ n \in 1 .. n /\ Len(sender) \in Nat /\ 1 \in 1 .. n
  BY DEF LineOf, IsSender
<1>1. /\ IsWord(f, C) /\ Len(f) = 1 + Len(sender)
      /\ h \in Seq(C) /\ Len(h) = d /\ h[d] = Space /\ \A i \in 1 .. Len(f) : h[i] = f[i]
  BY SenderIs
<1>2. /\ t \in Seq(C) /\ Len(t) = d + Len(m) /\ d \in Nat \ {0} /\ Len(m) \in Nat
      /\ \A i \in 1 .. d : t[i] = h[i]
      /\ \A i \in 1 .. Len(m) : t[i + d] = m[i]
      /\ \A p \in Nat, w \in Seq(C) : Behind(m, p, w) => Behind(t, p + d, w)
  <2>1. d \in Nat \ {0}
    BY <1>0
  <2>2. h \in Seq(C) /\ Len(h) = d
    BY <1>1
  <2> HIDE DEF h, d
  <2>4. Extended(h, m, C)
    BY <1>0, <2>2, BehindMoved
  <2>3. /\ h \o m \in Seq(C) /\ Len(h \o m) = Len(h) + Len(m) /\ Len(m) \in Nat
        /\ \A i \in 1 .. Len(h) : (h \o m)[i] = h[i]
        /\ \A i \in 1 .. Len(m) : (h \o m)[i + Len(h)] = m[i]
        /\ Carries(h, m, C)
    BY <2>4 DEF Extended
  <2> QED BY <2>1, <2>2, <2>3 DEF Carries
<1>3. /\ wor[1] = f /\ at[1] = 0 /\ \A k \in 1 .. n : wor[k + 1] = words[k]
      /\ \A k \in 1 .. n + 1 : at[k + 1] = b[k] + d
  <2>1. /\ 1 \in 1 .. n + 1 /\ 1 \in 1 .. n + 2
        /\ \A k \in 1 .. n : k + 1 \in 1 .. n + 1 /\ k + 1 # 1 /\ (k + 1) - 1 = k
        /\ \A k \in 1 .. n + 1 : k + 1 \in 1 .. n + 2 /\ k + 1 # 1 /\ (k + 1) - 1 = k
    BY <1>0
  <2>2. wor[1] = f /\ \A k \in 1 .. n : wor[k + 1] = words[k]
    <3>1. wor = [k \in 1 .. n + 1 |-> IF k = 1 THEN f ELSE words[k - 1]]
      BY DEF WithSender
    <3> HIDE DEF f, wor
    <3> QED BY <2>1, <3>1
  <2>3. at[1] = 0 /\ \A k \in 1 .. n + 1 : at[k + 1] = b[k] + d
    <3> HIDE DEF d
    <3> QED BY <2>1 DEF Moved
  <2> QED BY <2>2, <2>3
<1>4. b[n + 1] \in Nat
  BY <1>0, WordPlaces
<1> HIDE DEF h, f, d, t, wor, at
<1>5. IsWord(wor[1], C) /\ WordAt(t, wor, at, 1)
  <2>1. at[2] = d /\ at[1 + 1] = d
    <3>1. 1 \in 1 .. n + 1 /\ 1 + 1 = 2
      BY <1>0
    <3> QED BY <1>0, <1>2, <1>3, <3>1
  <2>2. at[1] + Len(wor[1]) + 1 = d
    BY <1>0, <1>1, <1>3 DEF d
  <2>3. Behind(t, at[1], wor[1])
    <3>1. Len(f) \in Nat /\ Len(f) <= d
      BY <1>0, <1>1 DEF d
    <3>2. \A i \in 1 .. Len(f) : i \in 1 .. d /\ 0 + i = i
      BY <1>2, <3>1
    <3>3. \A i \in 1 .. Len(f) : t[0 + i] = f[i]
      BY <1>1, <1>2, <3>2
    <3>4. 0 + Len(f) <= Len(t)
      BY <1>2, <3>1
    <3> QED BY <1>3, <3>3, <3>4 DEF Behind
  <2> QED BY <1>1, <1>3, <2>1, <2>2, <2>3 DEF WordAt
<1>6. ASSUME NEW k \in 1 .. n PROVE IsWord(wor[k + 1], C) /\ WordAt(t, wor, at, k + 1) /\ wor[k + 1][1] # ":"
  <2> DEFINE j == k + 1
             w == words[k]
  <2>0. IsWord(w, C) /\ WordAt(m, words, b, k) /\ k \in 1 .. n + 1 /\ k + 1 \in 1 .. n + 1 /\ j # 1
    BY <1>0 DEF LineOf
  <2>1. wor[j] = w /\ at[j] = b[k] + d /\ at[j + 1] = b[k + 1] + d
    BY <1>3, <2>0
  <2>2. b[k] \in Nat /\ b[k + 1] = b[k] + Len(w) + 1 /\ Len(w) \in Nat \ {0} /\ b[k] + Len(w) <= Len(m)
    BY WordPlaces
  <2>3. at[j] \in Nat /\ at[j + 1] = at[j] + Len(w) + 1
    BY <1>2, <2>1, <2>2
  <2>4. Behind(t, at[j], w)
    <3>1. w \in Seq(C) /\ Behind(m, b[k], w)
      BY <2>0 DEF IsWord, WordAt
    <3> HIDE DEF w
    <3> QED BY <1>2, <2>1, <2>2, <3>1
  <2>5. t[at[j]] = Space
    <3>1. CASE k = 1
      <4>1. at[j] = d /\ d \in 1 .. d
        BY <1>0, <1>2, <2>1, <3>1
      <4> QED BY <1>1, <1>2, <4>1
    <3>2. CASE k # 1
      <4>1. b[k] \in 1 .. Len(m) /\ m[b[k]] = Space
        <5>1. b[k] # 0
          <6>1. k - 1 \in 1 .. n /\ (k - 1) + 1 = k
            BY <1>0, <3>2
          <6> DEFINE i == k - 1
          <6> HIDE DEF i
          <6>2. b[i] \in Nat /\ b[i + 1] = b[i] + Len(words[i]) + 1 /\ Len(words[i]) \in Nat
            BY <6>1, WordPlaces DEF i
          <6>3. i + 1 = k
            BY <6>1 DEF i
          <6> QED BY <6>2, <6>3
        <5>2. m[b[k]] = Space
          BY <3>2, WordPlaces
        <5> QED BY <1>2, <2>2, <5>1, <5>2
      <4> QED BY <1>2, <2>1, <4>1
    <3> QED BY <3>1, <3>2
  <2>6. w[1] # ":"
    <3>1. k # 1 => w[1] # ":"
      BY WordPlaces
    <3> QED BY <3>1
  <2> HIDE DEF j, w
  <2>7. WordAt(t, wor, at, j)
    BY <2>0, <2>1, <2>3, <2>4, <2>5 DEF WordAt
  <2> QED BY <2>0, <2>1, <2>6, <2>7 DEF j, w
<1>7. LineOf(t, wor, n + 1, at, C)
  <2>1. n + 1 \in Nat \ {0}
    BY <1>0
  <2>2. ASSUME NEW j \in 1 .. n + 1 PROVE IsWord(wor[j], C) /\ WordAt(t, wor, at, j) /\ (j # 1 => wor[j][1] # ":")
    <3>1. CASE j = 1
      BY <1>5, <3>1
    <3>2. CASE j # 1
      <4> DEFINE k == j - 1
      <4>1. k \in 1 .. n /\ k + 1 = j
        BY <1>0, <3>2
      <4> HIDE DEF k
      <4> QED BY <1>6, <4>1
    <3> QED BY <3>1, <3>2
  <2>3. \A j \in 2 .. n + 1 : j \in 1 .. n + 1 /\ j # 1
    OBVIOUS
  <2> QED BY <1>2, <1>3, <2>1, <2>2, <2>3 DEF LineOf
<1>8. at[n + 2] = b[n + 1] + d
  <2>1. n + 1 \in 1 .. n + 1 /\ (n + 1) + 1 = n + 2
    BY <1>0
  <2> QED BY <1>3, <2>1
<1> QED BY <1>2, <1>4, <1>7, <1>8 DEF h, f, d, t, wor, at

(* Its tail and its end are where they were, d characters later.           *)
LEMMA EndsMoved ==
  ASSUME NEW C, NEW h \in Seq(C), NEW m \in Seq(C), NEW e
  PROVE  /\ \A tail : TailAt(m, e, tail, C) => TailAt(h \o m, e + Len(h), tail, C)
         /\ e # 0 /\ EndAt(m, e) => EndAt(h \o m, e + Len(h))
<1> DEFINE t == h \o m
           d == Len(h)
<1>1. /\ t \in Seq(C) /\ Len(t) = d + Len(m) /\ d \in Nat /\ Len(m) \in Nat
      /\ \A i \in 1 .. Len(m) : t[i + d] = m[i]
      /\ \A p \in Nat, w \in Seq(C) : Behind(m, p, w) => Behind(t, p + d, w)
  BY BehindMoved DEF Extended, Carries
<1> HIDE DEF t, d
<1>2. ASSUME NEW tail, TailAt(m, e, tail, C) PROVE TailAt(t, e + d, tail, C)
  <2> DEFINE l == Len(tail)
             z == e + 1 + l + 1
  <2>1. /\ e \in Nat \ {0} /\ m[e] = Space /\ m[e + 1] = ":" /\ tail \in Seq(C) /\ Behind(m, e + 1, tail)
        /\ e + 1 + l < Len(m) /\ m[z] \in LineEnd
        /\ \A i \in 1 .. Len(tail) : tail[i] \notin LineEnd
    BY <1>2 DEF TailAt
  <2>2. l \in Nat
    BY <2>1
  <2> HIDE DEF l
  <2>3. e \in 1 .. Len(m) /\ e + 1 \in 1 .. Len(m) /\ z \in 1 .. Len(m) /\ e + 1 \in Nat
    BY <1>1, <2>1, <2>2
  <2>4. /\ (e + 1) + d = (e + d) + 1 /\ z + d = (e + d) + 1 + l + 1 /\ e + d \in Nat \ {0}
        /\ (e + d) + 1 + l < Len(t)
    BY <1>1, <2>1, <2>2
  <2>5. t[e + d] = Space /\ t[(e + d) + 1] = ":" /\ t[(e + d) + 1 + l + 1] \in LineEnd
    <3> HIDE DEF z
    <3>1. t[e + d] = m[e] /\ t[(e + 1) + d] = m[e + 1] /\ t[z + d] = m[z]
      BY <1>1, <2>3
    <3> QED BY <2>1, <2>4, <3>1
  <2>6. Behind(t, (e + d) + 1, tail)
    <3>1. Behind(t, (e + 1) + d, tail)
      BY <1>1, <2>1, <2>3
    <3> QED BY <2>4, <3>1
  <2> QED BY <2>1, <2>4, <2>5, <2>6 DEF TailAt, l
<1>3. ASSUME e # 0, EndAt(m, e) PROVE EndAt(t, e + d)
  <2>1. e \in Nat /\ Len(m) = e + 1 /\ m[e] \in LineEnd /\ m[e + 1] \in LineEnd
    BY <1>3 DEF EndAt
  <2>2. e \in 1 .. Len(m) /\ e + 1 \in 1 .. Len(m) /\ (e + 1) + d = (e + d) + 1 /\ Len(t) = (e + d) + 1 /\ e + d \in Nat
    BY <1>1, <1>3, <2>1
  <2>3. t[e + d] = m[e] /\ t[(e + 1) + d] = m[e + 1]
    BY <1>1, <2>2
  <2> QED BY <2>1, <2>2, <2>3 DEF EndAt
<1> QED BY <1>2, <1>3 DEF t, d

\* Behind the words there is a tail, or there is none.
Ending(m, e, tail, C) == IF tail = NULL THEN EndAt(m, e) ELSE TailAt(m, e, tail, C)
HeldOf(s, room, size) == IF s = NULL THEN NULL ELSE Held(s, room, size)

(* Behind the last word is a space or the end of the line.                 *)
LEMMA EndingIs ==
  ASSUME NEW C, NEW m, NEW words, NEW n, NEW b, LineOf(m, words, n, b, C), NEW tail,
         Ending(m, b[n + 1], tail, C)
  PROVE  /\ b[n + 1] \in Nat \ {0} /\ b[n + 1] <= Len(m)
         /\ m[b[n + 1]] \in LineEnd \cup {Space}
<1> DEFINE e == b[n + 1]
<1>0. n \in Nat \ {0} /\ n \in 1 .. n /\ m \in Seq(C)
  BY DEF LineOf
<1>1. e \in Nat /\ e # 0
  <2>1. b[n] \in Nat /\ b[n + 1] = b[n] + Len(words[n]) + 1 /\ Len(words[n]) \in Nat
    BY <1>0, WordPlaces
  <2> QED BY <2>1
<1> HIDE DEF e
<1>2. CASE tail = NULL
  <2>1. EndAt(m, e)
    BY <1>2 DEF Ending, e
  <2> QED BY <1>1, <2>1 DEF EndAt, e
<1>3. CASE tail # NULL
  <2>1. TailAt(m, e, tail, C)
    BY <1>3 DEF Ending, e
  <2>2. m[e] = Space /\ tail \in Seq(C) /\ e + 1 + Len(tail) < Len(m)
    BY <2>1 DEF TailAt
  <2>3. Len(tail) \in Nat /\ Len(m) \in Nat
    BY <1>0, <2>2
  <2>4. e <= Len(m)
    BY <1>1, <2>2, <2>3
  <2> QED BY <1>1, <2>2, <2>4 DEF e
<1> QED BY <1>2, <1>3

(* get_command's word is the first one.                                    *)
LEMMA FirstWord ==
  ASSUME NEW C, NEW m, NEW words, NEW n, NEW b, LineOf(m, words, n, b, C), NEW tail,
         Ending(m, b[n + 1], tail, C)
  PROVE  SubSeq(m, 1, Until(m, 1, LineEnd \cup {Space}) - 1) = words[1]
<1> DEFINE w == words[1]
           e == b[2]
           ends == LineEnd \cup {Space}
<1>0. n \in Nat \ {0} /\ 1 \in 1 .. n /\ m \in Seq(C) /\ b[1] = 0
  BY DEF LineOf
<1>1. /\ Len(w) \in Nat \ {0} /\ e = Len(w) + 1 /\ Len(w) <= Len(m) /\ Len(m) \in Nat
      /\ \A i \in 1 .. Len(w) : m[i] = w[i] /\ m[i] \notin ends
  <2>1. /\ Len(w) \in Nat \ {0} /\ b[1 + 1] = b[1] + Len(w) + 1 /\ b[1] + Len(w) <= Len(m) /\ Len(m) \in Nat
        /\ \A i \in 1 .. Len(w) : m[b[1] + i] = w[i] /\ w[i] # Space /\ w[i] \notin LineEnd
    BY <1>0, WordPlaces
  <2>2. 1 + 1 = 2 /\ \A i \in 1 .. Len(w) : 0 + i = i
    OBVIOUS
  <2> QED BY <1>0, <2>1, <2>2
<1>2. w \in Seq(C)
  BY <1>0 DEF LineOf, IsWord
<1>3. e <= Len(m) /\ m[e] \in ends
  <2>1. CASE n = 1
    <3>1. n + 1 = 2
      BY <2>1
    <3> QED BY <3>1, EndingIs
  <2>2. CASE n # 1
    <3>1. 2 \in 1 .. n
      BY <1>0, <2>2
    <3>2. m[b[2]] = Space /\ b[2] + Len(words[2]) <= Len(m) /\ Len(words[2]) \in Nat /\ b[2] \in Nat
      BY <3>1, WordPlaces
    <3>3. Len(m) \in Nat
      BY <1>1
    <3> DEFINE l == Len(words[2])
    <3>4. b[2] <= Len(m)
      <4>1. b[2] + l <= Len(m) /\ l \in Nat /\ b[2] \in Nat
        BY <3>2
      <4> HIDE DEF l
      <4> QED BY <3>3, <4>1
    <3> QED BY <3>2, <3>4
  <2> QED BY <2>1, <2>2
<1> HIDE DEF w, e, ends
<1>4. Until(m, 1, ends) = e
  <2>1. e \in 1 .. Len(m) /\ \A k \in 1 .. e - 1 : k \in 1 .. Len(w)
    BY <1>1, <1>3
  <2>2. \A k \in 1 .. e - 1 : m[k] \notin ends
    BY <1>1, <2>1
  <2> QED BY <1>0, <1>3, <2>1, <2>2, UntilAt
<1>5. SubSeq(m, 0 + 1, 0 + Len(w)) = w
  <2>1. Behind(m, 0, w)
    <3>1. 0 + Len(w) <= Len(m) /\ \A i \in 1 .. Len(w) : 0 + i = i
      BY <1>1
    <3> QED BY <1>1, <3>1 DEF Behind
  <2> QED BY <1>0, <1>2, <2>1, SubSeqBehind
<1>6. 0 + 1 = 1 /\ 0 + Len(w) = e - 1
  BY <1>1
<1> QED BY <1>4, <1>5, <1>6 DEF w, ends

(* A line whose first word has no colon at its start has no sender.        *)
LEMMA NoSender ==
  ASSUME NEW C, NEW m, NEW words, NEW n, NEW b, LineOf(m, words, n, b, C), words[1][1] # ":"
  PROVE  ~HasSender(m) /\ SkipSender(m) = m /\ \A size : get_sender(m, size) = NULL
<1>0. n \in Nat \ {0} /\ 1 \in 1 .. n /\ b[1] = 0
  BY DEF LineOf
<1>1. Len(words[1]) \in Nat \ {0} /\ m[b[1] + 1] = words[1][1]
  <2>1. /\ Len(words[1]) \in Nat \ {0}
        /\ \A i \in 1 .. Len(words[1]) : m[b[1] + i] = words[1][i]
    BY <1>0, WordPlaces
  <2>2. 1 \in 1 .. Len(words[1])
    BY <2>1
  <2> QED BY <2>1, <2>2
<1>2. m[1] = words[1][1]
  <2>1. 0 + 1 = 1
    OBVIOUS
  <2> QED BY <1>0, <1>1, <2>1
<1>3. ~HasSender(m)
  BY <1>2 DEF HasSender
<1> QED BY <1>3 DEF SkipSender, get_sender

(* The sender of a line, and what is behind it.                            *)
LEMMA SenderTaken ==
  ASSUME NEW C, ":" \in C, Space \in C, NEW sender, IsSender(sender, C), NEW m \in Seq(C)
  PROVE  LET msg == SenderPart(sender) \o m
         IN /\ HasSender(msg) /\ ~NoSpace(msg) /\ SkipSender(msg) = m
            /\ \A size : get_sender(msg, size) = Held(sender, 512, size)
<1> DEFINE h == SenderPart(sender)
           f == <<":">> \o sender
           l == Len(sender)
           d == l + 2
           msg == h \o m
<1>0. l \in Nat /\ sender \in Seq(C)
  BY DEF IsSender
<1>1. /\ IsWord(f, C) /\ Len(f) = 1 + l /\ f[1] = ":" /\ \A i \in 1 .. l : f[1 + i] = sender[i]
      /\ h \in Seq(C) /\ Len(h) = d /\ h[d] = Space /\ \A i \in 1 .. 1 + l : h[i] = f[i]
  BY SenderIs
<1> HIDE DEF h, f
<1>2. Extended(h, m, C)
  BY <1>1, BehindMoved
<1>3. /\ msg \in Seq(C) /\ Len(msg) = d + Len(m) /\ Len(m) \in Nat
      /\ \A i \in 1 .. d : msg[i] = h[i]
      /\ \A i \in 1 .. Len(m) : msg[d + i] = m[i]
  <2>1. \A i \in 1 .. Len(m) : i + d = d + i
    BY <1>0
  <2> HIDE DEF d
  <2> QED BY <1>1, <1>2, <2>1 DEF Extended
<1> HIDE DEF msg
<1>4. msg[1] = ":" /\ msg[d] = Space /\ \A i \in 1 .. l : msg[1 + i] = sender[i]
  <2>1. 1 \in 1 .. d /\ 1 \in 1 .. 1 + l /\ d \in 1 .. d /\ \A i \in 1 .. l : 1 + i \in 1 .. d /\ 1 + i \in 1 .. 1 + l
    BY <1>0
  <2> QED BY <1>1, <1>3, <2>1
<1>5. msg # <<>>
  <2>1. Len(msg) # 0
    BY <1>0, <1>3
  <2> QED BY <2>1, EmptySeq
<1>6. Until(msg, 1, {Space}) = d
  <2> DEFINE first == {Space}
  <2>1. d \in 1 .. Len(msg) /\ msg[d] \in first
    BY <1>0, <1>3, <1>4
  <2>2. \A k \in 1 .. d - 1 : msg[k] \notin first
    <3>1. \A k \in 1 .. d - 1 : k \in 1 .. d /\ k \in 1 .. 1 + l /\ k \in 1 .. Len(f)
      BY <1>0, <1>1
    <3>2. \A k \in 1 .. Len(f) : f[k] # Space
      BY <1>1 DEF IsWord
    <3> QED BY <1>1, <1>3, <3>1, <3>2
  <2> HIDE DEF first, d
  <2>3. Until(msg, 1, first) = d
    BY <1>3, <2>1, <2>2, UntilAt
  <2> QED BY <2>3 DEF first
<1>7. ~(d > Len(msg)) /\ d - 1 = 1 + l /\ 1 + 1 = 2 /\ d \in Nat
  BY <1>0, <1>3
<1>8. SubSeq(msg, 2, d - 1) = sender
  <2>1. Behind(msg, 1, sender)
    <3>1. 1 + l <= Len(msg)
      BY <1>0, <1>3
    <3> QED BY <1>4, <3>1 DEF Behind
  <2>2. SubSeq(msg, 1 + 1, 1 + l) = sender
    BY <1>0, <1>3, <2>1, SubSeqBehind
  <2> QED BY <1>7, <2>2
<1>9. SubSeq(msg, d + 1, Len(msg)) = m
  <2>1. Behind(msg, d, m)
    <3>1. d + Len(m) <= Len(msg)
      BY <1>0, <1>3
    <3> QED BY <1>3, <3>1 DEF Behind
  <2> QED BY <1>3, <1>7, <2>1, SubSeqBehind
<1> HIDE DEF d
<1>10. HasSender(msg) /\ ~NoSpace(msg)
  BY <1>4, <1>5, <1>6, <1>7 DEF HasSender, NoSpace
<1>11. SkipSender(msg) = m
  BY <1>6, <1>9, <1>10 DEF SkipSender
<1>12. \A size : get_sender(msg, size) = Held(sender, 512, size)
  BY <1>6, <1>8, <1>10 DEF get_sender
<1> QED BY <1>10, <1>11, <1>12 DEF msg, h

LineText(sender, m) == IF sender = NULL THEN m ELSE SenderPart(sender) \o m

\* Words with no colon up to the q-th.
ColonFreeTo(words, n, q) == \A k \in 1 .. n : k <= q => \A i \in 1 .. Len(words[k]) : words[k][i] # ":"

\* What the functions of ircparser.c find in a line of n words and a tail.
ParamOf(words, n, tail, size, q) ==
  IF q < n THEN Cut(words[q + 1], size) ELSE IF q = n THEN HeldOf(tail, IRC_MSG_MAX, size) ELSE NULL
PartsOf(msg, sender, words, n, tail) ==
  \A size : /\ get_sender(msg, size) = HeldOf(sender, 512, size)
            /\ get_command(msg, size) = Held(words[1], 32, size)
            /\ get_tail(msg, size) = HeldOf(tail, IRC_MSG_MAX, size)
            /\ \A q \in Nat \ {0} : ColonFreeTo(words, n, q) =>
                  get_param(msg, size, q) = ParamOf(words, n, tail, size, q)

(* The tail, if there is one.                                              *)
LEMMA TailOf ==
  ASSUME NEW C, NEW m, NEW words, NEW n, NEW b, LineOf(m, words, n, b, C), NEW tail,
         Ending(m, b[n + 1], tail, C), NEW size
  PROVE  get_tail(m, size) = HeldOf(tail, IRC_MSG_MAX, size)
<1>1. CASE tail = NULL
  BY <1>1, NoTailTaken DEF Ending, HeldOf
<1>2. CASE tail # NULL
  BY <1>2, TailTaken DEF Ending, HeldOf
<1> QED BY <1>1, <1>2

(* The tail is the tail of the line with its sender, too.                  *)
LEMMA TailBehindSender ==
  ASSUME NEW C, ":" \in C, Space \in C, NEW sender, IsSender(sender, C),
         NEW m, NEW words, NEW n, NEW b, LineOf(m, words, n, b, C), words[1][1] # ":", NEW tail,
         Ending(m, b[n + 1], tail, C), NEW size
  PROVE  get_tail(SenderPart(sender) \o m, size) = HeldOf(tail, IRC_MSG_MAX, size)
<1> DEFINE h == SenderPart(sender)
           wor == WithSender(words, n, sender)
           d == Len(sender) + 2
           at == Moved(b, n, d)
           t == h \o m
           p == n + 1
<1>0. m \in Seq(C) /\ n \in Nat
  BY DEF LineOf
<1>1. LineOf(t, wor, p, at, C) /\ at[n + 2] = b[n + 1] + d
  BY LineWithSender
<1>2. h \in Seq(C) /\ Len(h) = d
  BY SenderIs
<1>3. b[n + 1] # 0
  BY EndingIs
<1>4. p + 1 = n + 2
  BY <1>0
<1> HIDE DEF h, wor, at, d, p
<1>5. Ending(t, at[p + 1], tail, C)
  <2> DEFINE e == b[n + 1]
  <2>1. at[p + 1] = e + Len(h)
    BY <1>1, <1>2, <1>4
  <2>2. Ending(m, e, tail, C) /\ e # 0
    BY <1>3
  <2> HIDE DEF e
  <2>3. CASE tail = NULL
    <3>1. EndAt(m, e)
      BY <2>2, <2>3 DEF Ending
    <3>2. EndAt(t, e + Len(h))
      BY <1>0, <1>2, <2>2, <3>1, EndsMoved
    <3> QED BY <2>1, <2>3, <3>2 DEF Ending
  <2>4. CASE tail # NULL
    <3>1. TailAt(m, e, tail, C)
      BY <2>2, <2>4 DEF Ending
    <3>2. TailAt(t, e + Len(h), tail, C)
      BY <1>0, <1>2, <3>1, EndsMoved
    <3> QED BY <2>1, <2>4, <3>2 DEF Ending
  <2> QED BY <2>3, <2>4
<1> HIDE DEF t
<1>6. get_tail(t, size) = HeldOf(tail, IRC_MSG_MAX, size)
  BY <1>1, <1>5, TailOf
<1> QED BY <1>6 DEF t, h

(* Parameter q of what is behind the sender: a word, the tail, or nothing. *)
LEMMA ParamsOf ==
  ASSUME NEW C, NEW m, NEW words, NEW n, NEW b, LineOf(m, words, n, b, C), NEW tail,
         Ending(m, b[n + 1], tail, C), NEW size, NEW q \in Nat \ {0}, ColonFreeTo(words, n, q)
  PROVE  ParamIn(m, size, q) = ParamOf(words, n, tail, size, q)
<1>0. n \in Nat \ {0}
  BY DEF LineOf
<1>1. q <= n => NoColon(words, q)
  <2> SUFFICES ASSUME q <= n PROVE NoColon(words, q)
    OBVIOUS
  <2>1. \A k \in 1 .. q : k \in 1 .. n /\ k <= q
    BY <1>0
  <2> QED BY <2>1 DEF ColonFreeTo, NoColon
<1>2. CASE q < n
  <2>1. q \in 1 .. n - 1 /\ q <= n
    BY <1>0, <1>2
  <2>2. b[n + 1] <= Len(m) /\ m[b[n + 1]] \in LineEnd \cup {Space}
    BY EndingIs
  <2>3. ParamIn(m, size, q) = Cut(words[q + 1], size)
    BY <1>1, <2>1, <2>2, ParamIsWord
  <2> QED BY <1>2, <2>3 DEF ParamOf
<1>3. CASE q = n
  <2>1. NoColon(words, n) /\ ~(q < n) /\ q \in Nat
    BY <1>0, <1>1, <1>3
  <2>2. CASE tail = NULL
    <3>1. EndAt(m, b[n + 1])
      BY <2>2 DEF Ending
    <3>2. ParamIn(m, size, q) = NULL
      BY <2>1, <3>1, NoParamBehindWords
    <3> QED BY <1>3, <2>1, <2>2, <3>2 DEF ParamOf, HeldOf
  <2>3. CASE tail # NULL
    <3>1. TailAt(m, b[n + 1], tail, C)
      BY <2>3 DEF Ending
    <3>2. ParamIn(m, size, n) = Held(tail, IRC_MSG_MAX, size)
      BY <2>1, <3>1, ParamIsTail
    <3> QED BY <1>3, <2>1, <2>3, <3>2 DEF ParamOf, HeldOf
  <2> QED BY <2>2, <2>3
<1>4. CASE q > n
  <2>1. ~(q < n) /\ q # n /\ n < q /\ q \in Nat
    BY <1>0, <1>4
  <2>2. CASE tail = NULL
    <3>1. EndAt(m, b[n + 1])
      BY <2>2 DEF Ending
    <3>2. ParamIn(m, size, q) = NULL
      BY <2>1, <3>1, NoParamBehindWords
    <3> QED BY <2>1, <3>2 DEF ParamOf
  <2>3. CASE tail # NULL
    <3>1. TailAt(m, b[n + 1], tail, C)
      BY <2>3 DEF Ending
    <3>2. ParamIn(m, size, q) = NULL
      BY <2>1, <3>1, NoParamBehindTail
    <3> QED BY <2>1, <3>2 DEF ParamOf
  <2> QED BY <2>2, <2>3
<1> QED BY <1>0, <1>2, <1>3, <1>4

(***************************************************************************)
(* Whatever the sender, the words and the tail of a line are, each of the  *)
(* functions finds its part, cut to the size asked for, and NULL for what  *)
(* is not there.  A sender of 512 characters, a command of 32 or a tail of *)
(* 513 is not cut: it is written behind the end of the local array it is   *)
(* copied to before (ircparser.c:13-22).                                   *)
(***************************************************************************)
THEOREM LineParts ==
  ASSUME NEW C, ":" \in C, Space \in C, NEW sender, sender = NULL \/ IsSender(sender, C),
         NEW m, NEW words, NEW n, NEW b, LineOf(m, words, n, b, C), words[1][1] # ":", NEW tail,
         Ending(m, b[n + 1], tail, C)
  PROVE  PartsOf(LineText(sender, m), sender, words, n, tail)
<1> DEFINE msg == LineText(sender, m)
<1>0. m \in Seq(C)
  BY DEF LineOf
<1>1. /\ ~(HasSender(msg) /\ NoSpace(msg)) /\ SkipSender(msg) = m
      /\ \A size : get_sender(msg, size) = HeldOf(sender, 512, size) /\ get_tail(msg, size) = HeldOf(tail, IRC_MSG_MAX, size)
  <2>1. CASE sender = NULL
    <3>1. msg = m
      BY <2>1 DEF LineText
    <3>2. \A size : HeldOf(sender, 512, size) = NULL
      BY <2>1 DEF HeldOf
    <3>3. ~HasSender(m) /\ SkipSender(m) = m /\ \A size : get_sender(m, size) = NULL
      BY NoSender
    <3>4. \A size : get_tail(m, size) = HeldOf(tail, IRC_MSG_MAX, size)
      BY TailOf
    <3> QED BY <3>1, <3>2, <3>3, <3>4
  <2>2. CASE sender # NULL
    <3>1. msg = SenderPart(sender) \o m /\ IsSender(sender, C)
      BY <2>2 DEF LineText
    <3>2. \A size : HeldOf(sender, 512, size) = Held(sender, 512, size)
      BY <2>2 DEF HeldOf
    <3>3. /\ HasSender(msg) /\ ~NoSpace(msg) /\ SkipSender(msg) = m
          /\ \A size : get_sender(msg, size) = Held(sender, 512, size)
      BY <1>0, <3>1, SenderTaken
    <3>4. \A size : get_tail(msg, size) = HeldOf(tail, IRC_MSG_MAX, size)
      BY <3>1, TailBehindSender
    <3> QED BY <3>2, <3>3, <3>4
  <2> QED BY <2>1, <2>2
<1> HIDE DEF msg
<1>2. ASSUME NEW size PROVE get_command(msg, size) = Held(words[1], 32, size)
  <2>1. SubSeq(m, 1, Until(m, 1, LineEnd \cup {Space}) - 1) = words[1]
    BY FirstWord
  <2> QED BY <1>1, <2>1 DEF get_command
<1>3. ASSUME NEW size, NEW q \in Nat \ {0}, ColonFreeTo(words, n, q)
      PROVE  get_param(msg, size, q) = ParamOf(words, n, tail, size, q)
  <2>1. get_param(msg, size, q) = ParamIn(m, size, q)
    BY <1>1, ParamBehind
  <2>2. ParamIn(m, size, q) = ParamOf(words, n, tail, size, q)
    BY <1>3, ParamsOf
  <2> QED BY <2>1, <2>2
<1> QED BY <1>1, <1>2, <1>3 DEF PartsOf, msg

\* Words joined one after the other.
JoinStep(s, i, words, sep) == (s \o (IF i = 1 THEN <<>> ELSE sep)) \o words[i]
Joined(words, sep, n, r) == r[0] = <<>> /\ \A k \in 1 .. n : r[k] = JoinStep(r[k - 1], k, words, sep)

(* Join is a fold over the words.                                          *)
LEMMA JoinLaid ==
  ASSUME NEW C, NEW words \in Seq(Seq(C)), NEW sep \in Seq(C)
  PROVE  \E r : Joined(words, sep, Len(words), r) /\ Join(words, sep) = r[Len(words)]
<1> DEFINE n == Len(words)
           X == Seq(C)
           id == [i \in DOMAIN words |-> i]
           G == [p \in (1 .. n) \X X |-> JoinStep(p[2], p[1], words, sep)]
           P(h) == h = [t \in SUBSET (1 .. n) |->
                          IF t = {} THEN <<>> ELSE JoinStep(h[t \ {Max(t)}], id[Max(t)], words, sep)]
<1>0. n \in Nat /\ DOMAIN words = 1 .. n
  OBVIOUS
<1>1. ASSUME NEW i \in 1 .. n, NEW x \in X
      PROVE  G[<<i, x>>] = JoinStep(x, i, words, sep) /\ G[<<i, x>>] \in X
  <2>1. G[<<i, x>>] = JoinStep(x, i, words, sep)
    <3>1. <<i, x>> \in (1 .. n) \X X /\ <<i, x>>[1] = i /\ <<i, x>>[2] = x
      OBVIOUS
    <3> QED BY <3>1
  <2> DEFINE s == IF i = 1 THEN <<>> ELSE sep
  <2>2. s \in X /\ words[i] \in X
    BY <1>0, EmptySeq
  <2> HIDE DEF s
  <2>3. x \o s \in X
    BY <2>2, ConcatProperties
  <2>4. (x \o s) \o words[i] \in X
    BY <2>2, <2>3, ConcatProperties
  <2> QED BY <2>1, <2>4 DEF JoinStep, s
<1>2. <<>> \in X
  BY EmptySeq
<1> HIDE DEF G, n, X
<1>3. PICK g : Folding(g, n, <<>>, G) /\ \A t \in SUBSET (1 .. n) : g[t] \in X
  BY <1>0, <1>1, <1>2, FoldExists
<1>4. P(g)
  <2>1. ASSUME NEW t \in SUBSET (1 .. n), t # {}
        PROVE  G[<<Max(t), g[t \ {Max(t)}]>>] = JoinStep(g[t \ {Max(t)}], id[Max(t)], words, sep)
    <3>1. Max(t) \in 1 .. n
      BY <1>0, <2>1, MaxIn
    <3>2. g[t \ {Max(t)}] \in X
      BY <1>3
    <3> QED BY <1>0, <1>1, <3>1, <3>2
  <2>2. g = [t \in SUBSET (1 .. n) |-> IF t = {} THEN <<>> ELSE G[<<Max(t), g[t \ {Max(t)}]>>]]
    BY <1>3 DEF Folding
  <2> QED BY <2>1, <2>2
<1> DEFINE f == CHOOSE h : P(h)
<1>5. P(f)
  BY <1>4
<1>6. Join(words, sep) = f[1 .. n]
  <2>1. DOMAIN id = DOMAIN words
    OBVIOUS
  <2> QED BY <1>0, <2>1 DEF Join, FoldLeftDomain, FoldLeft, MapThenFoldSet, JoinStep
<1> HIDE DEF f
<1>7. f[1 .. 0] = <<>>
  <2>1. {} \in SUBSET (1 .. n) /\ 1 .. 0 = {}
    OBVIOUS
  <2> QED BY <1>5, <2>1
<1>8. ASSUME NEW k \in 1 .. n PROVE f[1 .. k] = JoinStep(f[1 .. (k - 1)], k, words, sep)
  <2>1. /\ 1 .. k \in SUBSET (1 .. n) /\ 1 .. k # {}
        /\ Max(1 .. k) = k /\ (1 .. k) \ {k} = 1 .. (k - 1)
    BY <1>0, Positions
  <2>2. f[1 .. k] = JoinStep(f[(1 .. k) \ {Max(1 .. k)}], id[Max(1 .. k)], words, sep)
    BY <1>5, <2>1
  <2> QED BY <1>0, <2>1, <2>2
<1> DEFINE r == [k \in 0 .. n |-> f[1 .. k]]
<1>9. r[0] = <<>> /\ (\A k \in 1 .. n : r[k] = JoinStep(r[k - 1], k, words, sep)) /\ r[n] = f[1 .. n]
  <2>1. 0 \in 0 .. n /\ n \in 0 .. n /\ \A k \in 1 .. n : k \in 0 .. n /\ k - 1 \in 0 .. n
    BY <1>0
  <2> QED BY <1>7, <1>8, <2>1
<1> QED BY <1>6, <1>9 DEF n, Joined

(* What stands in h stands there in what h begins, and m stands behind h.  *)
Stays(h, m, C) ==
    /\ \A p \in Nat, w \in Seq(C) : Behind(h, p, w) => Behind(h \o m, p, w)
    /\ Behind(h \o m, Len(h), m)

(* What is put behind a text leaves it as it was.                          *)
LEMMA BehindStays ==
  ASSUME NEW C, NEW h \in Seq(C), NEW m \in Seq(C)
  PROVE  Stays(h, m, C)
<1> DEFINE t == h \o m
<1>1. /\ t \in Seq(C) /\ Len(t) = Len(h) + Len(m) /\ Len(h) \in Nat /\ Len(m) \in Nat
      /\ \A i \in 1 .. Len(h) : t[i] = h[i]
      /\ \A i \in 1 .. Len(m) : t[i + Len(h)] = m[i]
  BY BehindMoved DEF Extended
<1> HIDE DEF t
<1>2. ASSUME NEW p \in Nat, NEW w \in Seq(C), Behind(h, p, w) PROVE Behind(t, p, w)
  <2>1. p + Len(w) <= Len(h) /\ Len(w) \in Nat /\ \A i \in 1 .. Len(w) : h[p + i] = w[i]
    BY <1>2 DEF Behind
  <2>2. p + Len(w) <= Len(t) /\ \A i \in 1 .. Len(w) : p + i \in 1 .. Len(h)
    BY <1>1, <2>1
  <2>3. \A i \in 1 .. Len(w) : t[p + i] = w[i]
    BY <1>1, <2>1, <2>2
  <2> QED BY <2>2, <2>3 DEF Behind
<1>3. Behind(t, Len(h), m)
  <2>1. Len(h) + Len(m) <= Len(t) /\ \A i \in 1 .. Len(m) : Len(h) + i = i + Len(h)
    BY <1>1
  <2> QED BY <1>1, <2>1 DEF Behind
<1> QED BY <1>2, <1>3 DEF Stays, t

\* Where each word begins, less one.
Begins(r, n) == [k \in 1 .. n + 1 |-> IF k = 1 THEN 0 ELSE Len(r[k - 1]) + 1]

\* k words are joined.
JoinedTo(words, r, b, k, C) ==
  /\ r[k] \in Seq(C)
  /\ \A j \in 1 .. k : /\ b[j] \in Nat /\ Behind(r[k], b[j], words[j])
                       /\ b[j + 1] = b[j] + Len(words[j]) + 1
                       /\ j # 1 => b[j] \in 1 .. Len(r[k]) /\ r[k][b[j]] = Space

(* One word more is joined behind a space.                                 *)
LEMMA JoinOne ==
  ASSUME NEW C, Space \in C, NEW words \in Seq(Seq(C)), NEW n, n = Len(words), NEW r,
         Joined(words, <<Space>>, n, r), NEW k \in 0 .. n - 1, JoinedTo(words, r, Begins(r, n), k, C)
  PROVE  JoinedTo(words, r, Begins(r, n), k + 1, C)
<1> DEFINE b == Begins(r, n)
           s == IF k + 1 = 1 THEN <<>> ELSE <<Space>>
           a == r[k]
           u == a \o s
           w == words[k + 1]
           t == r[k + 1]
<1>0. /\ n \in Nat /\ k \in Nat /\ k + 1 \in 1 .. n /\ k + 1 \in 1 .. n + 1 /\ (k + 1) + 1 \in 1 .. n + 1
      /\ (k + 1) - 1 = k /\ ((k + 1) + 1) - 1 = k + 1 /\ (k + 1) + 1 # 1
  OBVIOUS
<1>1. t = u \o w /\ w \in Seq(C) /\ a \in Seq(C)
  <2>1. t = JoinStep(r[(k + 1) - 1], k + 1, words, <<Space>>)
    BY <1>0 DEF Joined
  <2>2. t = JoinStep(r[k], k + 1, words, <<Space>>)
    BY <1>0, <2>1
  <2>3. t = u \o w
    BY <2>2 DEF JoinStep
  <2>4. w \in Seq(C)
    BY <1>0
  <2>5. a \in Seq(C)
    BY DEF JoinedTo
  <2> QED BY <2>3, <2>4, <2>5
<1>2. s \in Seq(C) /\ Len(s) = (IF k = 0 THEN 0 ELSE 1) /\ (k # 0 => s[1] = Space)
  <2>1. CASE k = 0
    BY <2>1, EmptySeq
  <2>2. CASE k # 0
    <3>1. s = <<Space>>
      BY <1>0, <2>2
    <3> HIDE DEF s
    <3> QED BY <2>2, <3>1
  <2> QED BY <2>1, <2>2
<1>b. b[k + 1] = (IF k = 0 THEN 0 ELSE Len(a) + 1) /\ b[(k + 1) + 1] = Len(t) + 1
  <2>1. k + 1 = 1 <=> k = 0
    BY <1>0
  <2> QED BY <1>0, <2>1 DEF Begins
<1>c. k = 0 => a = <<>>
  BY DEF Joined
<1>h. \A j \in 1 .. k : /\ b[j] \in Nat /\ Behind(a, b[j], words[j])
                        /\ b[j + 1] = b[j] + Len(words[j]) + 1
                        /\ j # 1 => b[j] \in 1 .. Len(a) /\ a[b[j]] = Space
  BY DEF JoinedTo
<1> HIDE DEF s, b, a, w, t
<1>3. Extended(a, s, C) /\ Stays(a, s, C)
  BY <1>1, <1>2, BehindMoved, BehindStays
<1>4. /\ u \in Seq(C) /\ Len(u) = b[k + 1] /\ Len(u) \in Nat /\ Len(a) \in Nat /\ Len(a) <= Len(u)
      /\ (k # 0 => Len(u) \in 1 .. Len(u) /\ u[Len(u)] = Space) /\ \A i \in 1 .. Len(a) : u[i] = a[i]
  <2>1. u \in Seq(C) /\ Len(u) = Len(a) + Len(s) /\ Len(a) \in Nat /\ \A i \in 1 .. Len(a) : u[i] = a[i]
    BY <1>3 DEF Extended
  <2>2. \A i \in 1 .. Len(s) : u[i + Len(a)] = s[i]
    BY <1>3 DEF Extended
  <2> HIDE DEF u
  <2>3. CASE k = 0
    BY <1>b, <1>c, <1>2, <2>1, <2>3, EmptySeq
  <2>4. CASE k # 0
    <3>1. Len(u) = Len(a) + 1 /\ 1 \in 1 .. Len(s) /\ 1 + Len(a) = Len(u)
      BY <1>2, <2>1, <2>4
    <3>2. u[Len(u)] = Space
      BY <1>2, <2>2, <2>4, <3>1
    <3> QED BY <1>b, <2>1, <2>4, <3>1, <3>2
  <2> QED BY <2>3, <2>4
<1>5. \A j \in 1 .. k : words[j] \in Seq(C)
  BY <1>0
<1>6. \A j \in 1 .. k : Behind(u, b[j], words[j])
  BY <1>3, <1>5, <1>h DEF Stays
<1> HIDE DEF u
<1>7. Extended(u, w, C) /\ Stays(u, w, C)
  BY <1>1, <1>4, BehindMoved, BehindStays
<1>8. /\ t \in Seq(C) /\ Len(t) = Len(u) + Len(w) /\ Len(w) \in Nat /\ Len(u) <= Len(t)
      /\ \A i \in 1 .. Len(u) : t[i] = u[i]
  <2>1. t \in Seq(C) /\ Len(t) = Len(u) + Len(w) /\ Len(w) \in Nat /\ \A i \in 1 .. Len(u) : t[i] = u[i]
    BY <1>1, <1>7 DEF Extended
  <2> QED BY <1>4, <2>1
<1>9. ASSUME NEW j \in 1 .. k + 1
      PROVE  /\ b[j] \in Nat /\ Behind(t, b[j], words[j])
             /\ b[j + 1] = b[j] + Len(words[j]) + 1
             /\ j # 1 => b[j] \in 1 .. Len(t) /\ t[b[j]] = Space
  <2>1. CASE j = k + 1
    <3>1. b[j] = Len(u) /\ words[j] = w /\ b[j + 1] = Len(t) + 1
      BY <1>b, <1>4, <2>1 DEF w
    <3>2. Behind(t, Len(u), w)
      BY <1>1, <1>7 DEF Stays
    <3>3. b[j + 1] = b[j] + Len(words[j]) + 1
      BY <1>4, <1>8, <3>1
    <3>4. ASSUME j # 1 PROVE Len(u) \in 1 .. Len(t) /\ t[Len(u)] = Space
      <4>1. k # 0
        BY <2>1, <3>4
      <4>2. Len(u) \in 1 .. Len(u)
        BY <1>4, <4>1
      <4>3. Len(u) \in 1 .. Len(t)
        BY <1>4, <1>8, <4>2
      <4> QED BY <1>4, <1>8, <4>1, <4>2, <4>3
    <3> QED BY <1>4, <3>1, <3>2, <3>3, <3>4
  <2>2. CASE j # k + 1
    <3>1. j \in 1 .. k
      BY <1>0, <2>2
    <3>2. Behind(t, b[j], words[j])
      BY <1>1, <1>5, <1>6, <1>7, <1>h, <3>1 DEF Stays
    <3>3. ASSUME j # 1 PROVE b[j] \in 1 .. Len(t) /\ t[b[j]] = Space
      <4> DEFINE i == b[j]
      <4>1. i \in 1 .. Len(a) /\ a[i] = Space
        BY <1>h, <3>1, <3>3
      <4> HIDE DEF i
      <4>2. i \in 1 .. Len(u)
        BY <1>4, <4>1
      <4>3. i \in 1 .. Len(t)
        BY <1>4, <1>8, <4>2
      <4>4. t[i] = Space
        BY <1>4, <1>8, <4>1, <4>2
      <4> QED BY <4>3, <4>4 DEF i
    <3> QED BY <1>h, <3>1, <3>2, <3>3
  <2> QED BY <2>1, <2>2
<1> QED BY <1>8, <1>9 DEF JoinedTo, b, t

(* What Join makes of words has each of them in its place.                 *)
LEMMA WordsJoined ==
  ASSUME NEW C, Space \in C, NEW words \in Seq(Seq(C)), NEW n, n = Len(words)
  PROVE  \E r : Join(words, <<Space>>) = r[n] /\ JoinedTo(words, r, Begins(r, n), n, C)
<1>0. n \in Nat /\ <<Space>> \in Seq(C)
  OBVIOUS
<1>1. PICK r : Joined(words, <<Space>>, n, r) /\ Join(words, <<Space>>) = r[n]
  BY <1>0, JoinLaid
<1> DEFINE b == Begins(r, n)
           T == {k \in Nat : k \in 0 .. n => JoinedTo(words, r, b, k, C)}
<1>2. 0 \in T
  <2>1. r[0] = <<>> /\ <<>> \in Seq(C)
    BY <1>1, EmptySeq DEF Joined
  <2>2. \A j : j \notin 1 .. 0
    OBVIOUS
  <2> QED BY <2>1, <2>2 DEF JoinedTo
<1>3. ASSUME NEW k \in Nat, k \in T, k + 1 \in 0 .. n PROVE JoinedTo(words, r, b, k + 1, C)
  <2>1. k \in 0 .. n /\ k \in 0 .. n - 1
    BY <1>0, <1>3
  <2>2. JoinedTo(words, r, b, k, C)
    BY <1>3, <2>1
  <2> QED BY <1>1, <2>1, <2>2, JoinOne
<1>4. \A k \in Nat : k \in T
  <2>1. \A k \in Nat : k \in T => k + 1 \in T
    <3> HIDE DEF b
    <3> QED BY <1>3
  <2> HIDE DEF T
  <2> QED BY <1>2, <2>1, NatInd
<1>5. JoinedTo(words, r, b, n, C)
  <2>1. n \in 0 .. n /\ n \in Nat
    BY <1>0
  <2> HIDE DEF b
  <2> QED BY <1>4, <2>1
<1> QED BY <1>1, <1>5

\* What is behind the words.
IsTail(tail, C) == tail \in Seq(C) /\ \A i \in 1 .. Len(tail) : tail[i] \notin LineEnd
TailPart(tail) == IF tail = NULL THEN <<>> ELSE <<Space, ":">> \o tail
EndOfLine == <<"\r", "\n">>
Body(words, tail) == (Join(words, <<Space>>) \o TailPart(tail)) \o EndOfLine

(* The end of a line is made of two line ends.                             *)
LEMMA EndIs ==
  ASSUME NEW C, \A c \in LineEnd : c \in C
  PROVE  /\ EndOfLine \in Seq(C) /\ Len(EndOfLine) = 2
         /\ EndOfLine[1] \in LineEnd /\ EndOfLine[2] \in LineEnd
<1> DEFINE x == "\r"
           y == "\n"
<1>1. x \in LineEnd /\ y \in LineEnd
  BY Zenon DEF LineEnd
<1>2. EndOfLine = <<x, y>>
  BY DEF EndOfLine
<1> HIDE DEF x, y
<1>3. x \in C /\ y \in C
  BY <1>1
<1> QED BY <1>1, <1>2, <1>3

(* A tail with its space, its colon and the end of the line.               *)
LEMMA TailPartIs ==
  ASSUME NEW C, \A c \in LineEnd : c \in C, Space \in C, ":" \in C,
         NEW tail, IsTail(tail, C), tail # NULL
  PROVE  LET t == TailPart(tail) \o EndOfLine
             l == Len(tail)
         IN /\ TailPart(tail) \in Seq(C) /\ l \in Nat /\ t \in Seq(C) /\ Len(t) = l + 4
            /\ t[1] = Space /\ t[2] = ":" /\ (\A i \in 1 .. l : t[2 + i] = tail[i]) /\ t[l + 3] \in LineEnd
<1> DEFINE colon == ":"
           two == <<Space, colon>>
           u == two \o tail
           t == u \o EndOfLine
           l == Len(tail)
<1>0. colon \in C /\ tail \in Seq(C) /\ l \in Nat
  BY DEF IsTail
<1>1. TailPart(tail) = u
  BY DEF TailPart
<1>c. colon = ":"
  OBVIOUS
<1> HIDE DEF colon
<1>2. two \in Seq(C) /\ Len(two) = 2 /\ two[1] = Space /\ two[2] = colon
  BY <1>0
<1> HIDE DEF two
<1>3. Extended(two, tail, C)
  BY <1>0, <1>2, BehindMoved
<1>4. u \in Seq(C) /\ Len(u) = l + 2 /\ u[1] = Space /\ u[2] = colon /\ \A i \in 1 .. l : u[i + 2] = tail[i]
  <2>1. /\ u \in Seq(C) /\ Len(u) = Len(two) + l
        /\ \A i \in 1 .. Len(two) : u[i] = two[i]
        /\ \A i \in 1 .. l : u[i + Len(two)] = tail[i]
    BY <1>3 DEF Extended
  <2>2. Len(u) = l + 2
    BY <1>0, <1>2, <2>1
  <2>3. 1 \in 1 .. Len(two) /\ 2 \in 1 .. Len(two)
    BY <1>2
  <2>4. u[1] = Space /\ u[2] = colon
    BY <1>2, <2>1, <2>3
  <2> QED BY <1>2, <2>1, <2>2, <2>4
<1> HIDE DEF u
<1>5. EndOfLine \in Seq(C) /\ Len(EndOfLine) = 2 /\ EndOfLine[1] \in LineEnd
  BY EndIs
<1>6. Extended(u, EndOfLine, C)
  BY <1>4, <1>5, BehindMoved
<1>7. /\ t \in Seq(C) /\ Len(t) = Len(u) + 2
      /\ \A i \in 1 .. Len(u) : t[i] = u[i]
      /\ \A i \in 1 .. 2 : t[i + Len(u)] = EndOfLine[i]
  BY <1>5, <1>6 DEF Extended
<1> HIDE DEF t
<1>8. Len(t) = l + 4 /\ t[1] = Space /\ t[2] = colon /\ t[l + 3] \in LineEnd
  <2>1. /\ l + 2 + 2 = l + 4 /\ 1 \in 1 .. Len(u) /\ 2 \in 1 .. Len(u) /\ 1 \in 1 .. 2 /\ 1 + (l + 2) = l + 3
    BY <1>0, <1>4
  <2>2. t[1 + Len(u)] \in LineEnd
    BY <1>5, <1>7, <2>1
  <2> QED BY <1>4, <1>7, <2>1, <2>2
<1>9. \A i \in 1 .. l : t[2 + i] = tail[i]
  <2>1. \A i \in 1 .. l : 2 + i \in 1 .. Len(u) /\ i + 2 = 2 + i
    BY <1>0, <1>4
  <2> QED BY <1>4, <1>7, <2>1
<1> QED BY <1>0, <1>1, <1>4, <1>7, <1>8, <1>9, <1>c DEF t

\* Words a line may have.
AreWords(words, C) ==
  /\ words \in Seq(Seq(C)) /\ words # <<>>
  /\ \A k \in 1 .. Len(words) : IsWord(words[k], C) /\ words[k][1] # ":"

(* Words and a tail make a line.                                           *)
LEMMA BodyIs ==
  ASSUME NEW C, \A c \in LineEnd : c \in C, Space \in C, ":" \in C,
         NEW words, AreWords(words, C), NEW tail, tail = NULL \/ IsTail(tail, C)
  PROVE  LET m == Body(words, tail)
             n == Len(words)
         IN \E b : LineOf(m, words, n, b, C) /\ Ending(m, b[n + 1], tail, C)
<1> DEFINE n == Len(words)
           J == Join(words, <<Space>>)
           t == TailPart(tail) \o EndOfLine
           m == Body(words, tail)
<1>0. n \in Nat \ {0} /\ n \in 0 .. n /\ n \in 1 .. n /\ n + 1 \in 1 .. n + 1 /\ 1 \in 1 .. n + 1
  <2>1. n # 0
    BY EmptySeq DEF AreWords
  <2> QED BY <2>1 DEF AreWords
<1>1. PICK r : J = r[n] /\ JoinedTo(words, r, Begins(r, n), n, C)
  BY WordsJoined DEF AreWords
<1> DEFINE b == Begins(r, n)
           e == b[n + 1]
<1>2. /\ J \in Seq(C) /\ e = Len(J) + 1 /\ b[1] = 0
      /\ \A j \in 1 .. n : /\ b[j] \in Nat /\ Behind(J, b[j], words[j])
                           /\ b[j + 1] = b[j] + Len(words[j]) + 1
                           /\ j # 1 => b[j] \in 1 .. Len(J) /\ J[b[j]] = Space
  <2>1. e = Len(r[n]) + 1 /\ b[1] = 0
    <3>1. (n + 1) - 1 = n /\ n + 1 # 1
      BY <1>0
    <3> QED BY <1>0, <3>1 DEF Begins
  <2> HIDE DEF b
  <2> QED BY <1>1, <2>1 DEF JoinedTo, b
<1> HIDE DEF b, J
<1>3. TailPart(tail) \in Seq(C) /\ t \in Seq(C)
  <2>1. EndOfLine \in Seq(C)
    BY EndIs
  <2>2. TailPart(tail) \in Seq(C)
    <3>1. CASE tail = NULL
      BY <3>1, EmptySeq DEF TailPart
    <3>2. CASE tail # NULL
      BY <3>2, TailPartIs
    <3> QED BY <3>1, <3>2
  <2> QED BY <2>1, <2>2, ConcatProperties
<1>4. m = J \o t
  <2> DEFINE x == TailPart(tail)
             y == EndOfLine
  <2>1. y \in Seq(C) /\ x \in Seq(C)
    BY <1>3, EndIs
  <2>2. m = (J \o x) \o y
    BY DEF Body, J
  <2> HIDE DEF x, y, m
  <2>3. m = J \o (x \o y)
    BY <1>2, <2>1, <2>2, ConcatAssociative
  <2> QED BY <2>3 DEF x, y
<1> HIDE DEF m, t, e
<1>5. Extended(J, t, C) /\ Stays(J, t, C)
  BY <1>2, <1>3, BehindMoved, BehindStays
<1>6. /\ m \in Seq(C) /\ Len(m) = Len(J) + Len(t) /\ Len(J) \in Nat /\ Len(t) \in Nat
      /\ \A i \in 1 .. Len(J) : m[i] = J[i]
      /\ \A i \in 1 .. Len(t) : m[i + Len(J)] = t[i]
  BY <1>4, <1>5 DEF Extended
<1>7. LineOf(m, words, n, b, C)
  <2>1. ASSUME NEW k \in 1 .. n PROVE IsWord(words[k], C) /\ WordAt(m, words, b, k) /\ words[k][1] # ":"
    <3>1. IsWord(words[k], C) /\ words[k][1] # ":" /\ words[k] \in Seq(C)
      BY DEF AreWords
    <3> DEFINE i == b[k]
    <3>2. /\ i \in Nat /\ Behind(J, i, words[k]) /\ b[k + 1] = i + Len(words[k]) + 1
          /\ k # 1 => i \in 1 .. Len(J) /\ J[i] = Space
      BY <1>2
    <3>i. k = 1 => i = 0
      BY <1>2
    <3> HIDE DEF i
    <3>3. Behind(m, i, words[k])
      BY <1>4, <1>5, <3>1, <3>2 DEF Stays
    <3>4. k # 1 => m[i] = Space
      BY <1>6, <3>2
    <3> QED BY <3>1, <3>2, <3>3, <3>4, <3>i DEF WordAt, i
  <2>2. \A k \in 2 .. n : k \in 1 .. n
    BY <1>0
  <2> QED BY <1>0, <1>2, <1>6, <2>1, <2>2 DEF LineOf
<1>8. CASE tail = NULL
  <2>1. t = EndOfLine
    <3>1. TailPart(tail) = <<>>
      BY <1>8 DEF TailPart
    <3>2. EndOfLine \in Seq(C)
      BY EndIs
    <3> QED BY <3>1, <3>2, ConcatEmptySeq DEF t
  <2>2. Len(t) = 2 /\ t[1] \in LineEnd /\ t[2] \in LineEnd
    BY <2>1, EndIs
  <2>3. /\ Len(m) = e + 1 /\ e \in Nat /\ 1 + Len(J) = e /\ 2 + Len(J) = e + 1
        /\ 1 \in 1 .. Len(t) /\ 2 \in 1 .. Len(t)
    BY <1>2, <1>6, <2>2
  <2>4. m[e] \in LineEnd /\ m[e + 1] \in LineEnd
    BY <1>6, <2>2, <2>3
  <2>5. EndAt(m, e)
    BY <2>3, <2>4 DEF EndAt
  <2>6. Ending(m, e, tail, C)
    BY <1>8, <2>5 DEF Ending
  <2> QED BY <1>7, <2>6 DEF e, m
<1>9. CASE tail # NULL
  <2> DEFINE l == Len(tail)
             z == e + 1 + l + 1
  <2>1. /\ l \in Nat /\ Len(t) = l + 4
        /\ t[1] = Space /\ t[2] = ":" /\ (\A i \in 1 .. l : t[2 + i] = tail[i]) /\ t[l + 3] \in LineEnd
    BY <1>9, TailPartIs DEF t
  <2>2. tail \in Seq(C) /\ \A i \in 1 .. l : tail[i] \notin LineEnd
    BY <1>9 DEF IsTail
  <2> HIDE DEF l
  <2>3. /\ e \in Nat \ {0} /\ Len(m) = e + l + 3 /\ 1 + Len(J) = e /\ 2 + Len(J) = e + 1
        /\ (l + 3) + Len(J) = z /\ e + 1 + l < Len(m) /\ e + 1 + l <= Len(m)
        /\ 1 \in 1 .. Len(t) /\ 2 \in 1 .. Len(t) /\ l + 3 \in 1 .. Len(t)
        /\ \A i \in 1 .. l : 2 + i \in 1 .. Len(t) /\ (2 + i) + Len(J) = (e + 1) + i
    BY <1>2, <1>6, <2>1
  <2> HIDE DEF z
  <2>4. m[e] = Space /\ m[e + 1] = ":" /\ m[z] \in LineEnd
    BY <1>6, <2>1, <2>3
  <2>5. \A i \in 1 .. l : m[(e + 1) + i] = tail[i]
    BY <1>6, <2>1, <2>3
  <2>6. Behind(m, e + 1, tail)
    BY <2>3, <2>5 DEF Behind, l
  <2>7. TailAt(m, e, tail, C)
    BY <2>2, <2>3, <2>4, <2>6 DEF TailAt, l, z
  <2>8. Ending(m, e, tail, C)
    BY <1>9, <2>7 DEF Ending
  <2> QED BY <1>7, <2>8 DEF e, m
<1> QED BY <1>8, <1>9

\* No name of an argument.
Fixed(v) == \A k \in 1 .. 9 : v # <<args[k]>>

(* ops.c:12: the nine names.                                               *)
LEMMA ArgsAre ==
  /\ args = <<args[1], args[2], args[3], args[4], args[5], args[6], args[7], args[8], args[9]>>
  /\ args[1] = "$raw$" /\ args[2] = "$nick$" /\ args[3] = "$host$" /\ args[4] = "$chan$"
  /\ args[5] = "$text$" /\ args[6] = "$args$" /\ args[7] = "$nuh$" /\ args[8] = "$mode$"
  /\ args[9] = "$network$" /\ Len(args) = 9 /\ DOMAIN args = 1 .. 9
BY DEF args

(* The names differ.                                                       *)
LEMMA ArgsDiffer ==
  ASSUME NEW j \in 1 .. 9, NEW k \in 1 .. 9, args[j] = args[k]
  PROVE  j = k
<1>1. \A i \in 1 .. 9 : i = 1 \/ i = 2 \/ i = 3 \/ i = 4 \/ i = 5 \/ i = 6 \/ i = 7 \/ i = 8 \/ i = 9
  OBVIOUS
<1> QED BY <1>1, ArgsAre

\* Nothing up to the i-th is NULL.
NoNull(av, i) == \A j \in 1 .. i : av[j] # NULL

ArgStep(av, n, arg, msg) ==
  [i \in 1 .. n |-> IF av[i] = <<arg>> /\ NoNull(av, i) THEN DynArg(arg, msg) ELSE av[i]]

ArgsTaken(argv, n, msg, r) ==
  /\ r[0] = argv /\ mkargv(argv, msg) = r[9]
  /\ \A k \in 1 .. 9 : r[k] = ArgStep(r[k - 1], n, args[k], msg)
HasDomain(argv, n) == argv = [i \in 1 .. n |-> argv[i]]

(* mkargv takes one name after the other.                                  *)
LEMMA ArgsFold ==
  ASSUME NEW n \in Nat, NEW argv, HasDomain(argv, n), NEW msg
  PROVE  \E r : ArgsTaken(argv, n, msg, r)
<1> DEFINE V == {argv[i] : i \in 1 .. n} \cup {DynArg(args[k], msg) : k \in 1 .. 9}
           X == [1 .. n -> V]
           G == [p \in (1 .. 9) \X X |-> ArgStep(p[2], n, args[p[1]], msg)]
           Step(av, a) ==
             [i \in DOMAIN av |-> IF av[i] = <<a>> /\ \A j \in 1 .. i : av[j] # NULL
                                   THEN DynArg(a, msg) ELSE av[i]]
           P(h) == h = [t \in SUBSET (1 .. 9) |->
                          IF t = {} THEN argv ELSE Step(h[t \ {Max(t)}], args[Max(t)])]
<1>0. DOMAIN args = 1 .. 9 /\ 9 \in Nat /\ argv = [i \in 1 .. n |-> argv[i]]
  BY ArgsAre DEF HasDomain
<1>1. ASSUME NEW i \in 1 .. 9, NEW x \in X
      PROVE  G[<<i, x>>] = ArgStep(x, n, args[i], msg) /\ G[<<i, x>>] \in X
  <2>1. G[<<i, x>>] = ArgStep(x, n, args[i], msg)
    <3>1. <<i, x>> \in (1 .. 9) \X X /\ <<i, x>>[1] = i /\ <<i, x>>[2] = x
      OBVIOUS
    <3> HIDE DEF X
    <3> QED BY <3>1
  <2> DEFINE a == args[i]
             d == DynArg(a, msg)
  <2>2. d \in V
    OBVIOUS
  <2> HIDE DEF V, a, d
  <2>3. \A j \in 1 .. n : (IF x[j] = <<a>> /\ NoNull(x, j) THEN d ELSE x[j]) \in V
    BY <2>2
  <2>4. ArgStep(x, n, a, msg) \in X
    BY <2>3 DEF ArgStep, d
  <2> QED BY <2>1, <2>4 DEF a
<1>2. argv \in X
  <2>1. \A i \in 1 .. n : argv[i] \in V
    OBVIOUS
  <2> HIDE DEF V
  <2> QED BY <1>0, <2>1
<1>s. \A x \in X : \A a : Step(x, a) = ArgStep(x, n, a, msg)
  <2> SUFFICES ASSUME NEW x \in X, NEW a PROVE Step(x, a) = ArgStep(x, n, a, msg)
    OBVIOUS
  <2>1. DOMAIN x = 1 .. n
    OBVIOUS
  <2> QED BY <2>1 DEF ArgStep, NoNull
<1> HIDE DEF G, X
<1>3. PICK g : Folding(g, 9, argv, G) /\ \A t \in SUBSET (1 .. 9) : g[t] \in X
  BY <1>0, <1>1, <1>2, FoldExists
<1>m. \A t \in SUBSET (1 .. 9) : t # {} => Max(t) \in 1 .. 9 /\ t \ {Max(t)} \in SUBSET (1 .. 9)
  <2> SUFFICES ASSUME NEW t \in SUBSET (1 .. 9), t # {} PROVE Max(t) \in 1 .. 9
    OBVIOUS
  <2>1. Max(t) \in t
    BY <1>0, MaxIn
  <2> QED BY <2>1
<1>4. P(g)
  <2>1. ASSUME NEW t \in SUBSET (1 .. 9), t # {}
        PROVE  G[<<Max(t), g[t \ {Max(t)}]>>] = Step(g[t \ {Max(t)}], args[Max(t)])
    <3> DEFINE x == g[t \ {Max(t)}]
               i == Max(t)
    <3>1. i \in 1 .. 9 /\ x \in X
      BY <1>3, <1>m, <2>1
    <3> HIDE DEF x, i, Step
    <3>2. G[<<i, x>>] = Step(x, args[i])
      BY <1>1, <1>s, <3>1
    <3> QED BY <3>2 DEF x, i
  <2>2. g = [t \in SUBSET (1 .. 9) |-> IF t = {} THEN argv ELSE G[<<Max(t), g[t \ {Max(t)}]>>]]
    BY <1>3 DEF Folding
  <2> HIDE DEF Step
  <2> QED BY <2>1, <2>2
<1> DEFINE f == CHOOSE h : P(h)
<1>5. P(f)
  BY <1>4
<1>6. mkargv(argv, msg) = f[1 .. 9]
  BY <1>0 DEF mkargv, FoldLeft, MapThenFoldSet
<1> HIDE DEF f, Step
<1>7. f[1 .. 0] = argv
  <2>1. {} \in SUBSET (1 .. 9) /\ 1 .. 0 = {}
    OBVIOUS
  <2> QED BY <1>5, <2>1
<1>8. ASSUME NEW k \in 1 .. 9 PROVE f[1 .. k] = Step(f[1 .. (k - 1)], args[k])
  <2>1. /\ 1 .. k \in SUBSET (1 .. 9) /\ 1 .. k # {}
        /\ Max(1 .. k) = k /\ (1 .. k) \ {k} = 1 .. (k - 1)
    BY <1>0, Positions
  <2>2. f[1 .. k] = Step(f[(1 .. k) \ {Max(1 .. k)}], args[Max(1 .. k)])
    BY <1>5, <2>1
  <2> QED BY <2>1, <2>2
<1> DEFINE r == [k \in 0 .. 9 |-> f[1 .. k]]
<1>9. r[0] = argv /\ (\A k \in 1 .. 9 : r[k] = Step(r[k - 1], args[k])) /\ r[9] = f[1 .. 9]
  <2>1. 0 \in 0 .. 9 /\ 9 \in 0 .. 9 /\ \A k \in 1 .. 9 : k \in 0 .. 9 /\ k - 1 \in 0 .. 9
    OBVIOUS
  <2> QED BY <1>7, <1>8, <2>1
<1> HIDE DEF r
<1>10. \A k \in 1 .. 9 : r[k] = Step(r[k - 1], args[k]) /\ r[k - 1] \in X
  <2> DEFINE T == {k \in Nat : k \in 0 .. 8 => r[k] \in X}
  <2>1. 0 \in T
    BY <1>2, <1>9
  <2>2. ASSUME NEW k \in Nat, k \in T PROVE k + 1 \in T
    <3> SUFFICES ASSUME k + 1 \in 0 .. 8 PROVE r[k + 1] \in X
      OBVIOUS
    <3>1. k \in 0 .. 8 /\ k + 1 \in 1 .. 9 /\ (k + 1) - 1 = k
      OBVIOUS
    <3>2. r[k] \in X /\ r[k + 1] = Step(r[k], args[k + 1])
      BY <1>9, <2>2, <3>1
    <3>3. r[k + 1] = ArgStep(r[k], n, args[k + 1], msg)
      BY <1>s, <3>2
    <3>4. G[<<k + 1, r[k]>>] = ArgStep(r[k], n, args[k + 1], msg) /\ G[<<k + 1, r[k]>>] \in X
      BY <1>1, <3>1, <3>2
    <3> QED BY <3>3, <3>4
  <2>3. \A k \in Nat : k \in T
    <3> HIDE DEF T
    <3> QED BY <2>1, <2>2, NatInd
  <2> SUFFICES ASSUME NEW k \in 1 .. 9 PROVE r[k - 1] \in X
    BY <1>9
  <2>4. k - 1 \in Nat /\ k - 1 \in 0 .. 8
    OBVIOUS
  <2>5. k - 1 \in T
    BY <2>3, <2>4
  <2> QED BY <2>4, <2>5
<1>11. \A k \in 1 .. 9 : r[k] = ArgStep(r[k - 1], n, args[k], msg)
  BY <1>10, <1>s
<1> QED BY <1>6, <1>9, <1>11 DEF ArgsTaken

\* What mkargv makes of one argument.
ArgOk(a, msg, res) ==
  /\ Fixed(a) => res = a
  /\ \A j \in 1 .. 9 : a = <<args[j]>> /\ Fixed(DynArg(args[j], msg)) => res = DynArg(args[j], msg)

(***************************************************************************)
(* ops.c:54-73: what is no name of an argument stays, and what is one is  *)
(* replaced, unless the text for it is the name of another one, in all of  *)
(* the argv that execv takes: up to the first NULL that a text which is    *)
(* not there leaves.  Names behind it may stay as they are.                *)
(***************************************************************************)
THEOREM ArgvFilled ==
  ASSUME NEW n \in Nat, NEW argv, HasDomain(argv, n), NEW msg
  PROVE  /\ HasDomain(mkargv(argv, msg), n)
         /\ \A i \in 1 .. n :
               argv[i] # NULL /\ NoNull(mkargv(argv, msg), i - 1) =>
                 ArgOk(argv[i], msg, mkargv(argv, msg)[i])
<1>0. PICK r : ArgsTaken(argv, n, msg, r)
  BY ArgsFold
<1>1. /\ r[0] = argv /\ mkargv(argv, msg) = r[9]
      /\ \A k \in 1 .. 9 : r[k] = ArgStep(r[k - 1], n, args[k], msg)
  BY <1>0 DEF ArgsTaken
<1>2. mkargv(argv, msg) = [i \in 1 .. n |-> mkargv(argv, msg)[i]]
  <2>1. 9 \in 1 .. 9
    OBVIOUS
  <2>2. r[9] = ArgStep(r[9 - 1], n, args[9], msg)
    BY <1>1, <2>1
  <2> QED BY <1>1, <2>2 DEF ArgStep
<1>s. ASSUME NEW i \in 1 .. n, NEW k \in 1 .. 9
      PROVE  r[k][i] = IF r[k - 1][i] = <<args[k]>> /\ NoNull(r[k - 1], i)
                       THEN DynArg(args[k], msg) ELSE r[k - 1][i]
  <2>1. r[k] = ArgStep(r[k - 1], n, args[k], msg)
    BY <1>1
  <2> QED BY <2>1 DEF ArgStep
<1>n. ASSUME NEW i \in 1 .. n, NEW k \in 0 .. 9, r[k][i] = NULL PROVE r[9][i] = NULL
  <2> DEFINE T == {m \in Nat : m \in k .. 9 => r[m][i] = NULL}
  <2>1. 0 \in T
    <3>1. 0 \in k .. 9 => k = 0
      OBVIOUS
    <3> QED BY <1>n, <3>1
  <2>2. ASSUME NEW m \in Nat, m \in T PROVE m + 1 \in T
    <3> SUFFICES ASSUME m + 1 \in k .. 9 PROVE r[m + 1][i] = NULL
      OBVIOUS
    <3>1. CASE m + 1 = k
      BY <1>n, <3>1
    <3>2. CASE m + 1 # k
      <4>1. m \in k .. 9 /\ m + 1 \in 1 .. 9 /\ (m + 1) - 1 = m /\ i \in 1 .. i
        BY <3>2
      <4>2. r[m][i] = NULL
        BY <2>2, <4>1
      <4>3. ~NoNull(r[m], i)
        BY <4>1, <4>2 DEF NoNull
      <4>4. r[m + 1][i] = r[m][i]
        BY <1>s, <4>1, <4>3
      <4> QED BY <4>2, <4>4
    <3> QED BY <3>1, <3>2
  <2>3. 9 \in T
    <3>1. \A m \in Nat : m \in T
      <4> HIDE DEF T
      <4> QED BY <2>1, <2>2, NatInd
    <3>2. 9 \in Nat
      OBVIOUS
    <3> HIDE DEF T
    <3> QED BY <3>1, <3>2
  <2>4. 9 \in k .. 9
    OBVIOUS
  <2> QED BY <2>3, <2>4
<1>3. ASSUME NEW i \in 1 .. n, argv[i] # NULL, NoNull(r[9], i - 1) PROVE ArgOk(argv[i], msg, r[9][i])
  <2>1. ASSUME NEW k \in 1 .. 9
        PROVE  r[k][i] = IF r[k - 1][i] = <<args[k]>> /\ NoNull(r[k - 1], i)
                         THEN DynArg(args[k], msg) ELSE r[k - 1][i]
    BY <1>s
  <2>n. ASSUME NEW k \in 0 .. 9, r[k][i] = argv[i] PROVE NoNull(r[k], i)
    <3> SUFFICES ASSUME NEW p \in 1 .. i PROVE r[k][p] # NULL
      BY DEF NoNull
    <3>1. CASE p = i
      BY <1>3, <2>n, <3>1
    <3>2. CASE p # i
      <4>1. p \in 1 .. n /\ p \in 1 .. i - 1
        BY <3>2
      <4>2. r[9][p] # NULL
        BY <1>3, <4>1 DEF NoNull
      <4> QED BY <1>n, <4>1, <4>2
    <3> QED BY <3>1, <3>2
  <2> DEFINE v(k) == r[k][i]
  <2>2. ASSUME Fixed(argv[i]) PROVE r[9][i] = argv[i]
    <3> DEFINE T == {k \in Nat : k \in 0 .. 9 => r[k][i] = argv[i]}
    <3>1. 0 \in T
      BY <1>1
    <3>2. ASSUME NEW k \in Nat, k \in T PROVE k + 1 \in T
      <4> SUFFICES ASSUME k + 1 \in 0 .. 9 PROVE r[k + 1][i] = argv[i]
        OBVIOUS
      <4>1. k \in 0 .. 9 /\ k + 1 \in 1 .. 9 /\ (k + 1) - 1 = k
        OBVIOUS
      <4>2. r[k][i] = argv[i]
        BY <3>2, <4>1
      <4>3. r[k][i] # <<args[k + 1]>>
        BY <2>2, <4>1, <4>2 DEF Fixed
      <4>4. r[k + 1][i] = r[k][i]
        BY <2>1, <4>1, <4>3
      <4> QED BY <4>2, <4>4
    <3>3. 9 \in T
      <4>1. \A k \in Nat : k \in T
        <5> HIDE DEF T
        <5> QED BY <3>1, <3>2, NatInd
      <4>2. 9 \in Nat
        OBVIOUS
      <4> HIDE DEF T
      <4> QED BY <4>1, <4>2
    <3>4. 9 \in 0 .. 9
      OBVIOUS
    <3> QED BY <3>3, <3>4
  <2>3. ASSUME NEW j \in 1 .. 9, argv[i] = <<args[j]>>, Fixed(DynArg(args[j], msg))
        PROVE  r[9][i] = DynArg(args[j], msg)
    <3> DEFINE d == DynArg(args[j], msg)
               T == {k \in Nat : k \in 0 .. 9 => r[k][i] = IF k < j THEN argv[i] ELSE d}
    <3>d. Fixed(d)
      BY <2>3
    <3> HIDE DEF d
    <3>1. 0 \in T
      <4>1. 0 < j
        OBVIOUS
      <4> QED BY <1>1, <4>1
    <3>2. ASSUME NEW k \in Nat, k \in T PROVE k + 1 \in T
      <4> SUFFICES ASSUME k + 1 \in 0 .. 9 PROVE r[k + 1][i] = IF k + 1 < j THEN argv[i] ELSE d
        OBVIOUS
      <4> DEFINE q == k + 1
                 x == r[k][i]
                 y == r[q][i]
      <4>1. k \in 0 .. 9 /\ q \in 1 .. 9 /\ q - 1 = k
        OBVIOUS
      <4>2. x = IF k < j THEN argv[i] ELSE d
        BY <3>2, <4>1
      <4>3. y = IF x = <<args[q]>> /\ NoNull(r[k], i) THEN DynArg(args[q], msg) ELSE x
        BY <2>1, <4>1
      <4>4. q \in Nat /\ (k < j <=> q <= j)
        OBVIOUS
      <4>n. x = argv[i] => NoNull(r[k], i)
        BY <2>n, <4>1
      <4> HIDE DEF q, x, y
      <4>5. CASE q < j
        <5>1. x = argv[i] /\ q # j
          BY <4>2, <4>4, <4>5
        <5>2. args[q] # args[j]
          BY <4>1, <5>1, ArgsDiffer
        <5>3. <<args[q]>> # <<args[j]>>
          <6> DEFINE a == args[q]
                     b == args[j]
          <6>1. <<a>>[1] = a /\ <<b>>[1] = b
            OBVIOUS
          <6> HIDE DEF a, b
          <6>2. a # b
            BY <5>2 DEF a, b
          <6>3. <<a>> # <<b>>
            BY <6>1, <6>2
          <6> QED BY <6>3 DEF a, b
        <5>4. x # <<args[q]>>
          BY <2>3, <5>1, <5>3
        <5> QED BY <4>3, <4>5, <5>1, <5>4 DEF q, y
      <4>6. CASE q = j
        <5>1. x = <<args[q]>> /\ x = argv[i]
          BY <2>3, <4>2, <4>4, <4>6
        <5>2. y = d
          BY <4>3, <4>6, <4>n, <5>1 DEF d
        <5>3. ~(q < j)
          BY <4>6
        <5> QED BY <5>2, <5>3 DEF q, y
      <4>7. CASE q > j
        <5>1. x = d /\ ~(q < j)
          BY <4>2, <4>4, <4>7
        <5>2. x # <<args[q]>>
          BY <3>d, <4>1, <5>1 DEF Fixed
        <5> QED BY <4>3, <5>1, <5>2 DEF q, y
      <4>8. q < j \/ q = j \/ q > j
        BY <4>4
      <4> QED BY <4>5, <4>6, <4>7, <4>8
    <3>3. 9 \in T
      <4>1. \A k \in Nat : k \in T
        <5> HIDE DEF T
        <5> QED BY <3>1, <3>2, NatInd
      <4>2. 9 \in Nat
        OBVIOUS
      <4> HIDE DEF T
      <4> QED BY <4>1, <4>2
    <3>4. 9 \in 0 .. 9 /\ ~(9 < j)
      OBVIOUS
    <3> QED BY <3>3, <3>4 DEF d
  <2> QED BY <2>2, <2>3 DEF ArgOk
<1> QED BY <1>1, <1>2, <1>3 DEF HasDomain

RestOf(op) == SelectInSubSeq(op, Until(op, 1, {Space}), Len(op), LAMBDA c : c # Space)

(* get_args takes the tail from behind its first space on.                 *)
LEMMA ArgIsRest ==
  ASSUME NEW C, NEW op \in Seq(C)
  PROVE  index_to_arg(op, 1) = RestOf(op)
<1> DEFINE S == {k \in 1 .. Len(op) : op[k] = Space}
           nth == {k \in S : Cardinality({j \in S : j <= k}) = 1}
           rest == {k \in 1 .. Len(op) : op[k] # Space /\ \E j \in nth : j < k}
           w == Until(op, 1, {Space})
           I == {i \in w .. Len(op) : op[i] # Space}
<1>0. Len(op) \in Nat
  OBVIOUS
<1>1. index_to_arg(op, 1) = IF rest = {} THEN 0 ELSE Min(rest)
  BY DEF index_to_arg, Quantify
<1>2. RestOf(op) = IF I # {} THEN Min(I) ELSE 0
  BY DEF RestOf, SelectInSubSeq
<1>3. rest = I
  <2>1. CASE S = {}
    <3>1. nth = {} /\ rest = {}
      <4>1. nth = {}
        BY <2>1
      <4> HIDE DEF nth
      <4> QED BY <4>1
    <3>2. \A k \in 1 .. Len(op) : op[k] \notin {Space}
      BY <2>1
    <3>3. w = Len(op) + 1
      BY <3>2, UntilNone
    <3> HIDE DEF w
    <3>4. I = {}
      BY <1>0, <3>3
    <3> QED BY <3>1, <3>4
  <2>2. CASE S # {}
    <3>1. S \in SUBSET Nat
      OBVIOUS
    <3>2. PICK p \in S : \A k \in S : p <= k
      BY <2>2, <3>1, LeastNat
    <3>3. p \in 1 .. Len(op) /\ op[p] = Space
      OBVIOUS
    <3>4. {j \in S : j <= p} = {p}
      <4>1. \A j \in S : j <= p => j = p
        BY <3>1, <3>2
      <4>2. p <= p
        BY <3>3
      <4> HIDE DEF S
      <4> QED BY <4>1, <4>2
    <3>5. p \in nth
      BY <3>4, FS_Singleton
    <3>6. \A j \in nth : p <= j /\ j \in 1 .. Len(op)
      <4>1. \A j \in nth : j \in S
        OBVIOUS
      <4>2. \A j \in S : j \in 1 .. Len(op)
        OBVIOUS
      <4> HIDE DEF nth, S
      <4> QED BY <3>2, <4>1, <4>2
    <3>7. w = p
      <4>1. \A k \in 1 .. p - 1 : k \in 1 .. Len(op) /\ ~(p <= k)
        BY <3>3
      <4>2. \A k \in 1 .. p - 1 : op[k] \notin {Space}
        BY <3>2, <4>1
      <4> DEFINE first == {Space}
      <4>3. op[p] \in first /\ \A k \in 1 .. p - 1 : op[k] \notin first
        BY <3>3, <4>2
      <4> HIDE DEF first
      <4>4. Until(op, 1, first) = p
        BY <3>3, <4>3, UntilAt
      <4> QED BY <4>4 DEF first
    <3> HIDE DEF w, nth, S
    <3>8. ASSUME NEW k PROVE k \in rest <=> k \in I
      <4>1. k \in rest => k \in I
        <5> SUFFICES ASSUME k \in rest PROVE k \in I
          OBVIOUS
        <5>1. PICK j \in nth : j < k
          OBVIOUS
        <5>2. p <= j /\ j \in 1 .. Len(op)
          BY <3>6
        <5> QED BY <1>0, <3>3, <3>7, <5>1, <5>2
      <4>2. k \in I => k \in rest
        <5> SUFFICES ASSUME k \in I PROVE k \in rest
          OBVIOUS
        <5>1. k \in p .. Len(op) /\ op[k] # Space
          BY <3>7
        <5>2. k # p
          BY <3>3, <5>1
        <5>3. k \in 1 .. Len(op) /\ p < k
          BY <1>0, <3>3, <5>1, <5>2
        <5> QED BY <3>5, <5>1, <5>3
      <4> QED BY <4>1, <4>2
    <3> HIDE DEF rest, I
    <3> QED BY <3>8
  <2> QED BY <2>1, <2>2
<1> HIDE DEF rest, I
<1> QED BY <1>1, <1>2, <1>3

\* The characters of the lines of the run.
InnerChars == {"n", "!", "u", "@", "h", "s", "p", "#", "c", "q", ":", "t", "C"}
AllChars == InnerChars \cup {Space} \cup LineEnd

(* Of these characters only the space is one, and only line ends are.      *)
LEMMA CharsApart ==
  /\ \A c \in InnerChars : c # Space /\ c \notin LineEnd /\ c \in AllChars
  /\ Space \in AllChars /\ Space \notin LineEnd /\ \A c \in LineEnd : c \in AllChars
  /\ ":" \in AllChars
<1>1. \A c \in InnerChars : c # Space /\ c \notin LineEnd
  BY Zenon DEF InnerChars, Space, LineEnd
<1>2. ":" \in InnerChars
  BY Zenon DEF InnerChars
<1>3. Space \notin LineEnd
  BY Zenon DEF Space, LineEnd
<1> QED BY Zenon, <1>1, <1>2, <1>3 DEF AllChars

(* None of them is a name of an argument.                                  *)
LEMMA CharsNoNames ==
  \A c \in AllChars : \A k \in 1 .. 9 : c # args[k]
<1>1. \A c \in AllChars : /\ c # "$raw$" /\ c # "$nick$" /\ c # "$host$" /\ c # "$chan$" /\ c # "$text$"
                          /\ c # "$args$" /\ c # "$nuh$" /\ c # "$mode$" /\ c # "$network$"
  BY Zenon DEF AllChars, InnerChars, Space, LineEnd
<1>2. \A k \in 1 .. 9 : k = 1 \/ k = 2 \/ k = 3 \/ k = 4 \/ k = 5 \/ k = 6 \/ k = 7 \/ k = 8 \/ k = 9
  OBVIOUS
<1> HIDE DEF AllChars
<1> SUFFICES ASSUME NEW c \in AllChars, NEW k \in 1 .. 9 PROVE c # args[k]
  OBVIOUS
<1>3. /\ c # "$raw$" /\ c # "$nick$" /\ c # "$host$" /\ c # "$chan$" /\ c # "$text$"
      /\ c # "$args$" /\ c # "$nuh$" /\ c # "$mode$" /\ c # "$network$"
  BY <1>1
<1> QED BY <1>2, <1>3, ArgsAre

(* A text of these characters is no name of an argument.                   *)
LEMMA TextFixed ==
  ASSUME NEW s \in Seq(AllChars)
  PROVE  Fixed(s)
<1> SUFFICES ASSUME NEW k \in 1 .. 9, s = <<args[k]>> PROVE FALSE
  BY DEF Fixed
<1> DEFINE a == args[k]
<1>1. s = <<a>>
  OBVIOUS
<1> HIDE DEF a
<1>2. Len(s) = 1 /\ s[1] = a
  BY <1>1
<1>3. s[1] \in AllChars
  BY <1>2
<1> QED BY <1>2, <1>3, CharsNoNames DEF a

(* A text without spaces.                                                  *)
LEMMA InnerText ==
  ASSUME NEW s \in Seq(InnerChars)
  PROVE  s \in Seq(AllChars) /\ \A i \in 1 .. Len(s) : s[i] # Space /\ s[i] \notin LineEnd
<1>1. InnerChars \subseteq AllChars
  BY DEF AllChars
<1>2. s \in Seq(AllChars)
  BY <1>1, SeqWiden
<1>3. \A i \in 1 .. Len(s) : s[i] \in InnerChars
  OBVIOUS
<1> QED BY <1>2, <1>3, CharsApart

(* The senders of the run fit into the buffers and have no space.          *)
LEMMA SendersAre ==
  ASSUME NEW s \in Senders
  PROVE  IsSender(s, AllChars) /\ Len(s) < 256 /\ Found(s)
<1>1. s \in Seq(InnerChars) /\ Len(s) < 256
  <2>1. s = <<"n", "!", "u", "@", "h">> \/ s = <<"s">>
    BY DEF Senders
  <2> DEFINE a == "n"
             b == "!"
             c == "u"
             d == "@"
             e == "h"
             f == "s"
             D == InnerChars
  <2>2. s = <<a, b, c, d, e>> \/ s = <<f>>
    BY <2>1
  <2>3. a \in D /\ b \in D /\ c \in D /\ d \in D /\ e \in D /\ f \in D
    BY Zenon DEF InnerChars
  <2> HIDE DEF a, b, c, d, e, f, D
  <2>4. s \in Seq(D) /\ Len(s) < 256
    <3>1. CASE s = <<a, b, c, d, e>>
      BY <2>3, <3>1
    <3>2. CASE s = <<f>>
      BY <2>3, <3>2
    <3> QED BY <2>2, <3>1, <3>2
  <2> QED BY <2>4 DEF D
<1>2. Found(s)
  BY TextsFound
<1> QED BY <1>1, <1>2, InnerText DEF IsSender

(* So do its parameters, and only the channel begins with its sign.        *)
LEMMA ParamsAre ==
  ASSUME NEW s \in Params
  PROVE  /\ IsWord(s, AllChars) /\ s[1] # ":" /\ Len(s) < 256 /\ Found(s) /\ s # <<>>
         /\ s[1] = "#" <=> s = <<"#", "c">>
<1>1. s \in Seq(InnerChars) /\ Len(s) < 256 /\ s # <<>> /\ s[1] # ":" /\ (s[1] = "#" <=> s = <<"#", "c">>)
  <2>1. s = <<"p">> \/ s = <<"#", "c">> \/ s = <<"p", ":", "q">>
    BY DEF Params
  <2> DEFINE a == "p"
             b == "#"
             c == "c"
             d == ":"
             e == "q"
             D == InnerChars
  <2>2. s = <<a>> \/ s = <<b, c>> \/ s = <<a, d, e>>
    BY <2>1
  <2>3. a \in D /\ b \in D /\ c \in D /\ d \in D /\ e \in D /\ a # d /\ b # d /\ a # b
    BY Zenon DEF InnerChars
  <2> HIDE DEF a, b, c, d, e, D
  <2>4. s \in Seq(D) /\ Len(s) < 256 /\ s # <<>> /\ s[1] # d /\ (s[1] = b <=> s = <<b, c>>)
    <3>1. CASE s = <<a>>
      <4>1. s \in Seq(D) /\ Len(s) = 1 /\ s[1] = a
        BY <2>3, <3>1
      <4>2. Len(<<b, c>>) = 2 /\ Len(<<>>) = 0
        OBVIOUS
      <4> QED BY <2>3, <4>1, <4>2
    <3>2. CASE s = <<b, c>>
      <4>1. s \in Seq(D) /\ Len(s) = 2 /\ s[1] = b
        BY <2>3, <3>2
      <4>2. Len(<<>>) = 0
        OBVIOUS
      <4> QED BY <2>3, <3>2, <4>1, <4>2
    <3>3. CASE s = <<a, d, e>>
      <4>1. s \in Seq(D) /\ Len(s) = 3 /\ s[1] = a
        BY <2>3, <3>3
      <4>2. Len(<<b, c>>) = 2 /\ Len(<<>>) = 0
        OBVIOUS
      <4>3. s # <<b, c>> /\ s # <<>>
        BY <4>1, <4>2
      <4>4. s[1] # b /\ s[1] # d /\ Len(s) < 256
        BY <2>3, <4>1
      <4> QED BY <4>1, <4>3, <4>4
    <3> QED BY <2>2, <3>1, <3>2, <3>3
  <2> QED BY <2>4 DEF D, b, c, d
<1>2. Found(s)
  BY TextsFound
<1> QED BY <1>1, <1>2, InnerText DEF IsWord

TailChars == {"t", Space, ":"}

(* Tails may have spaces and colons, but no line end.                      *)
LEMMA TailsAre ==
  ASSUME NEW s \in Tails
  PROVE  /\ IsTail(s, AllChars) /\ Len(s) < 256 /\ Found(s)
         /\ s # <<>> => s[1] # "#"
<1> DEFINE D == TailChars
<1>1. PICK k \in 0 .. MaxTail : s \in [1 .. k -> D]
  BY DEF Tails, UpTo, TailChars
<1>2. \A c \in D : c \notin LineEnd /\ c # "#" /\ c \in AllChars
  <2>1. \A c \in D : c \notin LineEnd /\ c # "#"
    BY Zenon DEF TailChars, Space, LineEnd
  <2>2. "t" \in InnerChars /\ ":" \in InnerChars
    BY Zenon DEF InnerChars
  <2>3. \A c \in D : c \in AllChars
    BY Zenon, <2>2 DEF TailChars, AllChars
  <2> QED BY <2>1, <2>3
<1> HIDE DEF D
<1>3. MaxTail \in 0 .. 255 /\ Found(s)
  BY TextsFound
<1>4. s \in Seq(D) /\ Len(s) = k /\ k < 256
  BY <1>1, <1>3
<1>5. s \in Seq(AllChars) /\ \A i \in 1 .. Len(s) : s[i] \notin LineEnd
  <2>1. D \subseteq AllChars
    BY <1>2
  <2> QED BY <1>2, <1>4, <2>1, SeqWiden
<1>6. s # <<>> => s[1] # "#"
  <2> SUFFICES ASSUME s # <<>> PROVE s[1] # "#"
    OBVIOUS
  <2>1. s[1] \in D
    BY <1>4, EmptySeq
  <2> QED BY <1>2, <2>1
<1> QED BY <1>3, <1>4, <1>5, <1>6 DEF IsTail

\* The words of a line of the run.
WordsOf(params) == <<<<"C">>>> \o params
ParamsOfLine(params) == params \in Seq(Params) /\ Len(params) \in 0 .. 2

(* The parts of a line of the run.                                         *)
LEMMA LineIs ==
  ASSUME NEW l \in Lines
  PROVE  /\ l.sender = NULL \/ l.sender \in Senders
         /\ l.tail = NULL \/ l.tail \in Tails
         /\ ParamsOfLine(l.params)
<1>1. /\ l.sender \in {NULL} \cup Senders /\ l.tail \in {NULL} \cup Tails
      /\ l.params \in UpTo(Params, 2)
  BY DEF Lines
<1>2. PICK k \in 0 .. 2 : l.params \in [1 .. k -> Params]
  BY <1>1 DEF UpTo
<1>3. l.params \in Seq(Params) /\ Len(l.params) = k
  BY <1>2
<1> QED BY <1>1, <1>3 DEF ParamsOfLine

(* The command and the parameters are words.                               *)
LEMMA WordsAre ==
  ASSUME NEW params, ParamsOfLine(params)
  PROVE  LET words == WordsOf(params)
         IN /\ AreWords(words, AllChars) /\ Len(words) = 1 + Len(params) /\ Len(params) \in Nat
            /\ words[1] = <<"C">> /\ Len(words[1]) = 1
            /\ \A k \in 1 .. Len(params) : words[k + 1] = params[k] /\ params[k] \in Params
<1> DEFINE a == "C"
           w == <<a>>
           one == <<w>>
           C == AllChars
           words == one \o params
           n == Len(params)
<1>0. params \in Seq(Params) /\ n \in Nat /\ \A k \in 1 .. n : params[k] \in Params
  BY DEF ParamsOfLine
<1>1. a \in InnerChars /\ a # ":"
  BY Zenon DEF InnerChars
<1>2. WordsOf(params) = words
  BY DEF WordsOf
<1>a. w = <<"C">>
  OBVIOUS
<1> HIDE DEF a
<1>3. w \in Seq(InnerChars) /\ Len(w) = 1 /\ w[1] = a /\ w # <<>>
  <2>1. w \in Seq(InnerChars) /\ Len(w) = 1 /\ w[1] = a
    BY <1>1
  <2> QED BY <2>1, EmptySeq
<1> HIDE DEF w
<1>4. IsWord(w, C) /\ w[1] # ":" /\ w \in Seq(C)
  BY <1>1, <1>3, InnerText DEF IsWord
<1>5. one \in Seq(Seq(C)) /\ Len(one) = 1 /\ one[1] = w
  BY <1>4
<1>6. params \in Seq(Seq(C))
  <2>1. \A s \in Params : s \in Seq(C)
    BY ParamsAre DEF IsWord
  <2> DEFINE Q == Seq(C)
  <2>2. Params \subseteq Q
    BY <2>1
  <2> HIDE DEF Q
  <2>3. params \in Seq(Q)
    BY <1>0, <2>2, SeqWiden
  <2> QED BY <2>3 DEF Q
<1> HIDE DEF one, C
<1>7. Extended(one, params, Seq(C))
  BY <1>5, <1>6, BehindMoved
<1>8. /\ words \in Seq(Seq(C)) /\ Len(words) = 1 + n
      /\ words[1] = w /\ \A k \in 1 .. n : words[k + 1] = params[k]
  <2>1. 1 \in 1 .. Len(one)
    BY <1>5
  <2> QED BY <1>5, <1>7, <2>1 DEF Extended
<1> HIDE DEF words
<1>9. ASSUME NEW k \in 1 .. Len(words) PROVE IsWord(words[k], C) /\ words[k][1] # ":"
  <2>1. CASE k = 1
    BY <1>4, <1>8, <2>1
  <2>2. CASE k # 1
    <3> DEFINE j == k - 1
    <3>1. j \in 1 .. n /\ j + 1 = k
      BY <1>0, <1>8, <2>2
    <3> HIDE DEF j
    <3>2. words[k] = params[j] /\ params[j] \in Params
      BY <1>0, <1>8, <3>1
    <3> QED BY <3>2, ParamsAre DEF C
  <2> QED BY <2>1, <2>2
<1>10. words # <<>>
  <2>1. Len(words) # 0
    BY <1>0, <1>8
  <2> QED BY <2>1, EmptySeq
<1>11. AreWords(words, C)
  BY <1>8, <1>9, <1>10 DEF AreWords
<1> QED BY <1>0, <1>2, <1>3, <1>8, <1>11, <1>a DEF C

(* The text of a line is its sender and its body.                          *)
LEMMA RawIs ==
  ASSUME NEW l \in Lines
  PROVE  Raw(l) = LineText(l.sender, Body(WordsOf(l.params), l.tail))
<1> DEFINE C == AllChars
           S == IF l.sender = NULL THEN <<>> ELSE SenderPart(l.sender)
           J == Join(WordsOf(l.params), <<Space>>)
           T == TailPart(l.tail)
           E == EndOfLine
<1>1. Raw(l) = ((S \o J) \o T) \o E
  BY DEF Raw, SenderPart, WordsOf, TailPart, EndOfLine
<1>2. Body(WordsOf(l.params), l.tail) = (J \o T) \o E
  BY DEF Body
<1>3. E \in Seq(C) /\ T \in Seq(C) /\ J \in Seq(C) /\ S \in Seq(C)
  <2>1. E \in Seq(C)
    BY CharsApart, EndIs
  <2>2. T \in Seq(C)
    <3>1. CASE l.tail = NULL
      BY <3>1, EmptySeq DEF TailPart
    <3>2. CASE l.tail # NULL
      <4>1. IsTail(l.tail, C)
        BY <3>2, LineIs, TailsAre
      <4> QED BY <3>2, <4>1, CharsApart, TailPartIs
    <3> QED BY <3>1, <3>2
  <2>3. J \in Seq(C)
    <3> DEFINE words == WordsOf(l.params)
    <3>1. words \in Seq(Seq(C))
      BY LineIs, WordsAre DEF AreWords
    <3> HIDE DEF words
    <3>2. Space \in C
      BY CharsApart
    <3> HIDE DEF C
    <3>3. PICK r : Join(words, <<Space>>) = r[Len(words)] /\ JoinedTo(words, r, Begins(r, Len(words)), Len(words), C)
      BY <3>1, <3>2, WordsJoined
    <3> QED BY <3>3 DEF JoinedTo, words
  <2>4. S \in Seq(C)
    <3>1. CASE l.sender = NULL
      BY <3>1, EmptySeq
    <3>2. CASE l.sender # NULL
      <4>1. IsSender(l.sender, C)
        BY <3>2, LineIs, SendersAre
      <4>2. SenderPart(l.sender) \in Seq(C)
        BY <4>1, CharsApart, SenderIs
      <4> QED BY <3>2, <4>2
    <3> QED BY <3>1, <3>2
  <2> QED BY <2>1, <2>2, <2>3, <2>4
<1>s. l.sender = NULL => S = <<>>
  OBVIOUS
<1>t. l.sender # NULL => S = SenderPart(l.sender)
  OBVIOUS
<1> HIDE DEF C, S, J, T, E
<1>4. ((S \o J) \o T) \o E = S \o ((J \o T) \o E)
  <2>1. J \o T \in Seq(C)
    BY <1>3, ConcatProperties
  <2>2. (S \o J) \o T = S \o (J \o T)
    BY <1>3, ConcatAssociative
  <2>3. (S \o (J \o T)) \o E = S \o ((J \o T) \o E)
    BY <1>3, <2>1, ConcatAssociative
  <2> QED BY <2>2, <2>3
<1> DEFINE m == (J \o T) \o E
<1>5. m \in Seq(C)
  <2>1. J \o T \in Seq(C)
    BY <1>3, ConcatProperties
  <2> QED BY <1>3, <2>1, ConcatProperties
<1>6. Raw(l) = S \o m
  BY <1>1, <1>4
<1>7. Body(WordsOf(l.params), l.tail) = m
  BY <1>2
<1> HIDE DEF m
<1>8. CASE l.sender = NULL
  <2>1. <<>> \o m = m
    BY <1>5, ConcatEmptySeq
  <2> QED BY <1>6, <1>7, <1>8, <1>s, <2>1 DEF LineText
<1>9. CASE l.sender # NULL
  BY <1>6, <1>7, <1>9, <1>t DEF LineText
<1> QED BY <1>8, <1>9

(* What the functions of ircparser.c find in a line of the run.            *)
LEMMA LineFound ==
  ASSUME NEW l \in Lines
  PROVE  /\ PartsOf(Raw(l), l.sender, WordsOf(l.params), 1 + Len(l.params), l.tail)
         /\ Raw(l) \in Seq(AllChars)
<1> DEFINE C == AllChars
           words == WordsOf(l.params)
           n == Len(words)
           tail == l.tail
           sender == l.sender
           m == Body(words, tail)
<1>1. AreWords(words, C) /\ n = 1 + Len(l.params)
  BY LineIs, WordsAre
<1>2. tail = NULL \/ IsTail(tail, C)
  BY LineIs, TailsAre
<1>3. sender = NULL \/ IsSender(sender, C)
  BY LineIs, SendersAre
<1>4. (\A c \in LineEnd : c \in C) /\ Space \in C /\ ":" \in C
  BY CharsApart
<1>5. Raw(l) = LineText(sender, m)
  BY RawIs
<1> HIDE DEF C, words, tail, sender, m
<1>6. PICK b : LineOf(m, words, n, b, C) /\ Ending(m, b[n + 1], tail, C)
  BY <1>1, <1>2, <1>4, BodyIs DEF m
<1>7. words[1][1] # ":"
  <2>1. Len(words) \in Nat \ {0}
    BY <1>6 DEF LineOf
  <2>2. 1 \in 1 .. Len(words)
    BY <2>1
  <2> QED BY <1>1, <2>2 DEF AreWords
<1> HIDE DEF n
<1>8. PartsOf(LineText(sender, m), sender, words, n, tail)
  BY <1>3, <1>4, <1>6, <1>7, LineParts
<1>9. LineText(sender, m) \in Seq(C)
  <2>1. m \in Seq(C)
    BY <1>6 DEF LineOf
  <2>2. CASE sender = NULL
    BY <2>1, <2>2 DEF LineText
  <2>3. CASE sender # NULL
    <3>1. SenderPart(sender) \in Seq(C)
      BY <1>3, <1>4, <2>3, SenderIs
    <3>2. SenderPart(sender) \o m \in Seq(C)
      BY <2>1, <3>1, ConcatProperties
    <3> QED BY <2>3, <3>2 DEF LineText
  <2> QED BY <2>2, <2>3
<1> QED BY <1>1, <1>5, <1>8, <1>9 DEF sender, words, tail, C

(* What a name is replaced by.                                             *)
LEMMA DynArgs ==
  ASSUME NEW msg
  PROVE  /\ DynArg(args[1], msg) = msg.raw /\ DynArg(args[2], msg) = get_nick(msg.raw)
         /\ DynArg(args[4], msg) = get_chan(msg.raw) /\ DynArg(args[5], msg) = get_text(msg.raw)
         /\ DynArg(args[6], msg) = get_args(msg.raw)
<1>1. DynArg("$raw$", msg) = msg.raw
  BY DEF DynArg
<1>2. DynArg("$nick$", msg) = get_nick(msg.raw)
  BY DEF DynArg
<1>3. DynArg("$chan$", msg) = get_chan(msg.raw)
  BY DEF DynArg
<1>4. DynArg("$text$", msg) = get_text(msg.raw)
  BY DEF DynArg
<1>5. DynArg("$args$", msg) = get_args(msg.raw)
  BY DEF DynArg
<1> QED BY <1>1, <1>2, <1>3, <1>4, <1>5, ArgsAre

(* Nothing is cut off from a text that fits.                               *)
LEMMA CutFits ==
  ASSUME NEW s, Len(s) < 256, Len(s) \in Nat
  PROVE  /\ Cut(s, 256) = s /\ Cut(s, 512) = s
         /\ Held(s, 512, 256) = s /\ Held(s, 512, 512) = s
         /\ Held(s, IRC_MSG_MAX, 256) = s /\ Held(s, IRC_MSG_MAX, 512) = s
<1>1. Len(s) < 512 /\ Len(s) < 513
  OBVIOUS
<1>2. Cut(s, 256) = s /\ Cut(s, 512) = s
  BY <1>1 DEF Cut
<1> QED BY <1>1, <1>2 DEF Held, IRC_MSG_MAX

\* A line with a user as its sender, and a tail.
UserLine(l) == l.tail # NULL /\ l.sender = <<"n", "!", "u", "@", "h">>

(* The nick is what is before the first exclamation mark of the sender.    *)
LEMMA NickIs ==
  ASSUME NEW l \in Lines, UserLine(l)
  PROVE  get_nick(Raw(l)) = <<"n">>
<1> DEFINE a == "n"
           b == "!"
           c == "u"
           d == "@"
           e == "h"
           s == l.sender
           D == InnerChars
<1>1. s = <<a, b, c, d, e>> /\ s \in Senders
  BY DEF UserLine, Senders
<1>2. a \in D /\ b \in D /\ c \in D /\ d \in D /\ e \in D /\ a # b
  BY Zenon DEF InnerChars
<1>3. get_sender(Raw(l), 256) = HeldOf(s, 512, 256)
  BY LineFound DEF PartsOf
<1>n. <<"n">> = <<a>>
  OBVIOUS
<1>g. get_nick(Raw(l)) = LET x == get_sender(Raw(l), 256)
                         IN IF ~Found(x) \/ ~Contains(x, b) THEN Overrun
                            ELSE SubSeq(x, 1, Until(x, 1, {b}) - 1)
  BY DEF get_nick
<1> HIDE DEF a, b, c, d, e, s, D
<1>4. s \in Seq(D) /\ Len(s) = 5 /\ s[1] = a /\ s[2] = b
  BY <1>1, <1>2
<1>5. Found(s) /\ s # NULL
  BY <1>1, SendersAre DEF Found
<1>6. get_sender(Raw(l), 256) = s
  <2>1. Len(s) < 256 /\ Len(s) \in Nat
    BY <1>4
  <2> QED BY <1>3, <1>5, <2>1, CutFits DEF HeldOf
<1>7. Contains(s, b)
  <2>1. 2 \in 1 .. Len(s)
    BY <1>4
  <2> QED BY <1>4, <2>1 DEF Contains
<1>8. Until(s, 1, {b}) = 2
  <2> DEFINE two == 2
             first == {b}
  <2>1. two \in 1 .. Len(s) /\ \A k \in 1 .. two - 1 : k = 1
    BY <1>4
  <2>2. s[two] \in first /\ s[1] \notin first
    BY <1>2, <1>4
  <2> HIDE DEF two, first
  <2>3. \A k \in 1 .. two - 1 : s[k] \notin first
    BY <2>1, <2>2
  <2>4. Until(s, 1, first) = two
    BY <1>4, <2>1, <2>2, <2>3, UntilAt
  <2> QED BY <2>4 DEF two, first
<1>9. SubSeq(s, 1, 1) = <<a>>
  <2>1. Behind(s, 0, <<a>>)
    <3>1. Len(<<a>>) = 1 /\ <<a>>[1] = a /\ 0 + 1 <= Len(s) /\ \A i \in 1 .. 1 : i = 1 /\ 0 + i = 1
      BY <1>4
    <3> QED BY <1>4, <3>1 DEF Behind
  <2>2. <<a>> \in Seq(D) /\ 0 + 1 = 1 /\ 0 + Len(<<a>>) = 1 /\ 0 \in Nat
    BY <1>2
  <2>3. SubSeq(s, 0 + 1, 0 + Len(<<a>>)) = <<a>>
    BY <1>4, <2>1, <2>2, SubSeqBehind
  <2> QED BY <2>2, <2>3
<1>10. 2 - 1 = 1
  OBVIOUS
<1> QED BY <1>5, <1>6, <1>7, <1>8, <1>9, <1>10, <1>g, <1>n

(* There is no colon in the command.                                       *)
LEMMA FirstColonFree ==
  ASSUME NEW params, ParamsOfLine(params), NEW n
  PROVE  ColonFreeTo(WordsOf(params), n, 1)
<1> DEFINE words == WordsOf(params)
<1>1. words[1] = <<"C">>
  BY WordsAre
<1>2. "C" # ":"
  BY Zenon
<1> HIDE DEF words
<1>3. Len(words[1]) = 1 /\ words[1][1] # ":"
  BY <1>1, <1>2
<1>4. ASSUME NEW k \in 1 .. n, k <= 1, NEW i \in 1 .. Len(words[k]) PROVE words[k][i] # ":"
  <2>1. k = 1
    BY <1>4
  <2> DEFINE n1 == Len(words[k])
  <2>2. n1 = 1 /\ i \in 1 .. n1
    BY <1>3, <2>1
  <2> HIDE DEF n1
  <2>3. i = 1
    BY <2>2
  <2> QED BY <1>3, <2>1, <2>3
<1> QED BY <1>4 DEF ColonFreeTo, words

Channel(l) == IF l.params # <<>> /\ l.params[1] = <<"#", "c">> THEN <<"#", "c">> ELSE <<"n">>

(* The channel is the first parameter if it is one, and the nick if not.   *)
LEMMA ChanIs ==
  ASSUME NEW l \in Lines, UserLine(l)
  PROVE  get_chan(Raw(l)) = Channel(l)
<1> DEFINE params == l.params
           n == 1 + Len(params)
           tail == l.tail
           p == get_param(Raw(l), 256, 1)
           words == WordsOf(params)
           hash == "#"
<1>0. ParamsOfLine(params) /\ tail \in Tails
  BY LineIs DEF UserLine
<1>1. get_param(Raw(l), 256, 1) = ParamOf(words, n, tail, 256, 1)
  <2>1. ColonFreeTo(words, n, 1) /\ 1 \in Nat \ {0}
    BY <1>0, FirstColonFree
  <2> QED BY <2>1, LineFound DEF PartsOf
<1>g. get_chan(Raw(l)) = IF ~Found(p) THEN Overrun
                         ELSE IF p # <<>> /\ p[1] = hash THEN p ELSE get_nick(Raw(l))
  BY DEF get_chan
<1>2. get_nick(Raw(l)) = <<"n">>
  BY NickIs
<1>3. /\ Len(words) = n /\ Len(params) \in Nat
      /\ \A k \in 1 .. Len(params) : words[k + 1] = params[k] /\ params[k] \in Params
  BY <1>0, WordsAre
<1>4. CASE params = <<>>
  <2>1. n = 1
    BY <1>4, EmptySeq
  <2>2. p = HeldOf(tail, IRC_MSG_MAX, 256)
    BY <1>1, <2>1 DEF ParamOf
  <2>3. Found(tail) /\ tail # NULL /\ Len(tail) < 256 /\ Len(tail) \in Nat /\ (tail # <<>> => tail[1] # hash)
    BY <1>0, TailsAre DEF IsTail, Found
  <2>4. p = tail
    BY <2>2, <2>3, CutFits DEF HeldOf
  <2> HIDE DEF p, hash, tail
  <2>5. get_chan(Raw(l)) = get_nick(Raw(l))
    BY <1>g, <2>3, <2>4
  <2> QED BY <1>2, <1>4, <2>5 DEF Channel
<1>5. CASE params # <<>>
  <2> DEFINE s == params[1]
  <2>1. 1 < n /\ 1 \in 1 .. Len(params)
    <3>1. Len(params) # 0
      BY <1>0, <1>5, EmptySeq DEF ParamsOfLine
    <3> QED BY <1>3, <3>1
  <2>2. words[1 + 1] = s /\ s \in Params
    BY <1>3, <2>1
  <2>3. p = Cut(s, 256)
    BY <1>1, <2>1, <2>2 DEF ParamOf
  <2>4. Len(s) < 256 /\ Len(s) \in Nat /\ Found(s) /\ s # <<>> /\ (s[1] = hash <=> s = <<"#", "c">>)
    BY <2>2, ParamsAre DEF IsWord
  <2>5. p = s
    BY <2>3, <2>4, CutFits
  <2> HIDE DEF p, hash, s
  <2>6. get_chan(Raw(l)) = IF s[1] = hash THEN s ELSE get_nick(Raw(l))
    BY <1>g, <2>4, <2>5
  <2>7. Channel(l) = IF s = <<"#", "c">> THEN <<"#", "c">> ELSE <<"n">>
    BY <1>5 DEF Channel, s
  <2> QED BY <1>2, <2>4, <2>6, <2>7
<1> QED BY <1>4, <1>5

(* The text is the tail, and the arguments are what is behind its first    *)
(* space.                                                                  *)
LEMMA TextIs ==
  ASSUME NEW l \in Lines, UserLine(l)
  PROVE  /\ get_text(Raw(l)) = l.tail
         /\ get_args(Raw(l)) = IF RestOf(l.tail) = 0 THEN <<>> ELSE From(l.tail, RestOf(l.tail))
         /\ l.tail \in Seq(AllChars)
<1> DEFINE tail == l.tail
<1>1. tail \in Tails /\ tail # NULL /\ Found(tail)
  BY LineIs, TailsAre DEF UserLine
<1>2. tail \in Seq(AllChars) /\ Len(tail) < 256 /\ Len(tail) \in Nat
  BY <1>1, TailsAre DEF IsTail
<1>3. get_text(Raw(l)) = tail
  <2>1. get_tail(Raw(l), 512) = HeldOf(tail, IRC_MSG_MAX, 512)
    BY LineFound DEF PartsOf
  <2> HIDE DEF tail
  <2> QED BY <1>1, <1>2, <2>1, CutFits DEF HeldOf, get_text
<1> HIDE DEF tail
<1>4. index_to_arg(tail, 1) = RestOf(tail)
  BY <1>2, ArgIsRest
<1>5. get_args(Raw(l)) = IF RestOf(tail) = 0 THEN <<>> ELSE From(tail, RestOf(tail))
  BY <1>1, <1>3, <1>4 DEF get_args
<1> QED BY <1>2, <1>3, <1>5 DEF tail

ArgsText(l) == IF RestOf(l.tail) = 0 THEN <<>> ELSE From(l.tail, RestOf(l.tail))

(* The names that are asked for, behind the name of the program.           *)
LEMMA AskedAre ==
  /\ HasDomain(Asked, 6) /\ Fixed(Asked[1]) /\ Asked[1] = <<"prog">>
  /\ Asked[2] = <<args[2]>> /\ Asked[3] = <<args[4]>> /\ Asked[4] = <<args[5]>>
  /\ Asked[5] = <<args[6]>> /\ Asked[6] = <<args[1]>>
<1>1. HasDomain(Asked, 6)
  BY DEF HasDomain, Asked
<1>2. Asked[1] = <<"prog">>
  BY DEF Asked
<1>3. /\ Asked[2] = <<args[2]>> /\ Asked[3] = <<args[4]>> /\ Asked[4] = <<args[5]>>
      /\ Asked[5] = <<args[6]>> /\ Asked[6] = <<args[1]>>
  BY ArgsAre DEF Asked
<1>4. Fixed(<<"prog">>)
  <2> SUFFICES ASSUME NEW k \in 1 .. 9 PROVE <<"prog">> # <<args[k]>>
    BY DEF Fixed
  <2> DEFINE a == "prog"
             b == args[k]
  <2>1. \A i \in 1 .. 9 : i = 1 \/ i = 2 \/ i = 3 \/ i = 4 \/ i = 5 \/ i = 6 \/ i = 7 \/ i = 8 \/ i = 9
    OBVIOUS
  <2>2. a # b
    BY <2>1, ArgsAre
  <2>3. <<a>>[1] = a /\ <<b>>[1] = b
    OBVIOUS
  <2> HIDE DEF a, b
  <2>4. <<a>> # <<b>>
    BY <2>2, <2>3
  <2> QED BY <2>4 DEF a, b
<1> QED BY <1>1, <1>2, <1>3, <1>4

(* The arguments are the end of the tail.                                  *)
LEMMA ArgsTextIs ==
  ASSUME NEW C, NEW l, l.tail \in Seq(C)
  PROVE  ArgsText(l) \in Seq(C) /\ Len(ArgsText(l)) <= Len(l.tail)
<1> DEFINE t == l.tail
           i == RestOf(t)
<1>0. Len(t) \in Nat
  OBVIOUS
<1>1. CASE i = 0
  <2>1. ArgsText(l) = <<>> /\ Len(<<>>) = 0
    BY <1>1 DEF ArgsText
  <2> QED BY <1>0, <2>1, EmptySeq
<1>2. CASE i # 0
  <2> DEFINE I == {k \in Until(t, 1, {Space}) .. Len(t) : t[k] # Space}
  <2>1. i = IF I # {} THEN Min(I) ELSE 0
    BY DEF RestOf, SelectInSubSeq
  <2> DEFINE u == Until(t, 1, {Space})
             J == {k \in 1 .. Len(t) : t[k] \in {Space}} \cup {Len(t) + 1}
  <2>2. u = Min(J)
    BY DEF Until
  <2>3. u \in Nat /\ u >= 1
    <3>1. J \in SUBSET Nat /\ J # {} /\ \A k \in J : k >= 1
      OBVIOUS
    <3> HIDE DEF J, u
    <3>2. Min(J) \in J
      BY <3>1, MinIn
    <3> QED BY <2>2, <3>1, <3>2
  <2>4. I \in SUBSET Nat /\ \A k \in I : k \in u .. Len(t)
    BY <2>3
  <2> HIDE DEF I, u, i
  <2>5. i \in I
    <3>1. I # {} /\ i = Min(I)
      BY <1>2, <2>1
    <3> QED BY <2>4, <3>1, MinIn
  <2>6. i \in 1 .. Len(t) + 1 /\ Len(t) \in i - 1 .. Len(t)
    <3>1. i \in u .. Len(t) /\ Len(t) \in Nat
      BY <1>0, <2>4, <2>5
    <3> HIDE DEF t
    <3> QED BY <2>3, <3>1
  <2>7. SubSeq(t, i, Len(t)) \in Seq(C) /\ Len(SubSeq(t, i, Len(t))) <= Len(t)
    <3> HIDE DEF t
    <3>1. t \in Seq(C)
      BY DEF t
    <3>2. /\ SubSeq(t, i, Len(t)) \in Seq(C)
          /\ Len(SubSeq(t, i, Len(t))) = IF i <= Len(t) THEN (Len(t) - i) + 1 ELSE 0
      BY <2>6, <3>1, SubSeqProperties
    <3>3. i >= 1 /\ i \in Nat
      BY <2>6
    <3> QED BY <1>0, <3>2, <3>3
  <2> QED BY <1>2, <2>7 DEF ArgsText, From, i
<1> QED BY <1>1, <1>2

(* None of the texts they are replaced by is a name itself.                *)
LEMMA SubTextFixed ==
  ASSUME NEW l \in Lines, UserLine(l)
  PROVE  Fixed(<<"n">>) /\ Fixed(Channel(l)) /\ Fixed(l.tail) /\ Fixed(ArgsText(l)) /\ Fixed(Raw(l))
<1> DEFINE C == AllChars
           a == "n"
           b == "#"
           c == "c"
<1>1. l.tail \in Seq(C) /\ Raw(l) \in Seq(C)
  BY TextIs, LineFound
<1>2. a \in C /\ b \in C /\ c \in C
  BY Zenon DEF InnerChars, AllChars
<1>3. Channel(l) = <<b, c>> \/ Channel(l) = <<a>>
  BY DEF Channel
<1>a. <<"n">> = <<a>>
  OBVIOUS
<1> HIDE DEF a, b, c, C
<1>4. <<a>> \in Seq(C) /\ <<b, c>> \in Seq(C)
  BY <1>2
<1>5. ArgsText(l) \in Seq(C)
  BY <1>1, ArgsTextIs
<1>6. \A s \in Seq(C) : Fixed(s)
  BY TextFixed DEF C
<1> QED BY <1>1, <1>3, <1>4, <1>5, <1>6, <1>a

(* All of these texts are there.                                           *)
LEMMA TextsThere ==
  ASSUME NEW l \in Lines, UserLine(l)
  PROVE  /\ \A i \in 1 .. 6 : Asked[i] # NULL
         /\ <<"n">> # NULL /\ Channel(l) # NULL /\ l.tail # NULL /\ ArgsText(l) # NULL
<1>1. \A i \in 1 .. 6 : Asked[i] # NULL
  <2>1. DOMAIN Asked = 1 .. 6
    BY DEF Asked
  <2>2. \A i \in 1 .. 6 : Asked[i] \in ToSet(Asked)
    BY <2>1 DEF ToSet
  <2> QED BY <2>2, TextsFound DEF Found
<1>2. <<"n">> # NULL
  BY TextsFound DEF Found, Nick
<1>3. <<"#", "c">> # NULL
  BY NullIsNoChannel DEF Here
<1>4. Channel(l) # NULL
  BY <1>2, <1>3 DEF Channel
<1>5. ArgsText(l) # NULL
  <2> DEFINE D == TailChars
             s == ArgsText(l)
  <2>1. PICK k \in 0 .. MaxTail : l.tail \in [1 .. k -> D]
    BY LineIs DEF UserLine, Tails, UpTo, TailChars
  <2> HIDE DEF D
  <2>2. MaxTail \in Nat
    BY TextsFound
  <2>3. l.tail \in Seq(D) /\ Len(l.tail) = k /\ k \in Nat /\ k <= MaxTail
    BY <2>1, <2>2
  <2>4. s \in Seq(D) /\ Len(s) <= k
    BY <2>3, ArgsTextIs
  <2> HIDE DEF s
  <2>5. Len(s) \in 0 .. MaxTail /\ s \in [1 .. Len(s) -> D]
    BY <2>2, <2>3, <2>4
  <2>6. s \in Tails
    <3>1. s \in UpTo(D, MaxTail)
      BY <2>5 DEF UpTo
    <3> QED BY <3>1 DEF D, TailChars, Tails
  <2> QED BY <2>6, TextsFound DEF Found, s
<1> QED BY <1>1, <1>2, <1>4, <1>5 DEF UserLine

(* The argv of a program that asked for all of it.                         *)
LEMMA AskedFilled ==
  ASSUME NEW l \in Lines, UserLine(l)
  PROVE  AskedOf(Raw(l)) = <<<<"prog">>, <<"n">>, Channel(l), l.tail, ArgsText(l), Raw(l)>>
<1> DEFINE msg == [raw |-> Raw(l), modes |-> {}, network |-> <<"N">>]
           res == AskedOf(Raw(l))
<1>1. res = mkargv(Asked, msg)
  BY DEF AskedOf
<1>2. msg.raw = Raw(l)
  OBVIOUS
<1> HIDE DEF msg, res
<1>3. /\ HasDomain(res, 6)
      /\ \A i \in 1 .. 6 : NoNull(res, i - 1) => ArgOk(Asked[i], msg, res[i])
  <2>1. 6 \in Nat
    OBVIOUS
  <2>2. \A i \in 1 .. 6 : Asked[i] # NULL
    BY TextsThere
  <2> QED BY <1>1, <2>1, <2>2, AskedAre, ArgvFilled
<1>4. /\ DynArg(args[1], msg) = Raw(l) /\ DynArg(args[2], msg) = <<"n">>
      /\ DynArg(args[4], msg) = Channel(l) /\ DynArg(args[5], msg) = l.tail
      /\ DynArg(args[6], msg) = ArgsText(l)
  BY <1>2, DynArgs, NickIs, ChanIs, TextIs DEF ArgsText
<1>5. ASSUME NEW i \in 1 .. 6, NEW j \in 1 .. 9, NEW d, NoNull(res, i - 1),
             Asked[i] = <<args[j]>>, DynArg(args[j], msg) = d, Fixed(d)
      PROVE  res[i] = d
  BY <1>3, <1>5 DEF ArgOk
<1>6. ASSUME NEW i \in 1 .. 6, NoNull(res, i - 1), res[i] # NULL PROVE NoNull(res, i)
  <2>1. \A j \in 1 .. i : j = i \/ j \in 1 .. i - 1
    OBVIOUS
  <2> QED BY <1>6, <2>1 DEF NoNull
<1>7. /\ res[1] = <<"prog">> /\ res[2] = <<"n">> /\ res[3] = Channel(l)
      /\ res[4] = l.tail /\ res[5] = ArgsText(l) /\ res[6] = Raw(l)
  <2>1. /\ 1 \in 1 .. 9 /\ 2 \in 1 .. 9 /\ 4 \in 1 .. 9 /\ 5 \in 1 .. 9 /\ 6 \in 1 .. 9
        /\ 1 \in 1 .. 6 /\ 2 \in 1 .. 6 /\ 3 \in 1 .. 6 /\ 4 \in 1 .. 6 /\ 5 \in 1 .. 6 /\ 6 \in 1 .. 6
        /\ 2 - 1 = 1 /\ 3 - 1 = 2 /\ 4 - 1 = 3 /\ 5 - 1 = 4 /\ 6 - 1 = 5
    OBVIOUS
  <2>2. NoNull(res, 1 - 1)
    BY DEF NoNull
  <2>3. res[1] = <<"prog">> /\ <<"prog">> # NULL
    BY <1>3, <2>1, <2>2, AskedAre, TextsThere DEF ArgOk
  <2>4. NoNull(res, 1)
    BY <1>6, <2>1, <2>2, <2>3
  <2>5. res[2] = <<"n">>
    BY <1>4, <1>5, <2>1, <2>4, AskedAre, SubTextFixed
  <2>6. NoNull(res, 2)
    BY <1>6, <2>1, <2>4, <2>5, TextsThere
  <2>7. res[3] = Channel(l)
    BY <1>4, <1>5, <2>1, <2>6, AskedAre, SubTextFixed
  <2>8. NoNull(res, 3)
    BY <1>6, <2>1, <2>6, <2>7, TextsThere
  <2>9. res[4] = l.tail
    BY <1>4, <1>5, <2>1, <2>8, AskedAre, SubTextFixed
  <2>10. NoNull(res, 4)
    BY <1>6, <2>1, <2>8, <2>9, TextsThere
  <2>11. res[5] = ArgsText(l)
    BY <1>4, <1>5, <2>1, <2>10, AskedAre, SubTextFixed
  <2>12. NoNull(res, 5)
    BY <1>6, <2>1, <2>10, <2>11, TextsThere
  <2>13. res[6] = Raw(l)
    BY <1>4, <1>5, <2>1, <2>12, AskedAre, SubTextFixed
  <2> QED BY <2>3, <2>5, <2>7, <2>9, <2>11, <2>13
<1>8. res = <<res[1], res[2], res[3], res[4], res[5], res[6]>>
  <2>1. res = [i \in 1 .. 6 |-> res[i]]
    BY <1>3 DEF HasDomain
  <2> QED BY <2>1
<1> QED BY <1>7, <1>8 DEF res

\* The parameters of a line, with its tail as the last.
AllOf(l) == IF l.tail = NULL THEN l.params ELSE Append(l.params, l.tail)

(* Parameter q, with the tail as the last of them.                         *)
LEMMA ParamFound ==
  ASSUME NEW l \in Lines, NEW q \in 1 .. 4,
         \A i \in 1 .. q - 1 : i \in DOMAIN l.params => ":" \notin ToSet(l.params[i])
  PROVE  get_param(Raw(l), 512, q) = IF q \in DOMAIN AllOf(l) THEN AllOf(l)[q] ELSE NULL
<1> DEFINE params == l.params
           tail == l.tail
           words == WordsOf(params)
           n == 1 + Len(params)
           colon == ":"
           all == AllOf(l)
<1>0. ParamsOfLine(params) /\ (tail = NULL \/ tail \in Tails)
  BY LineIs
<1>1. /\ Len(words) = n /\ Len(params) \in Nat /\ words[1] = <<"C">> /\ Len(words[1]) = 1
      /\ \A k \in 1 .. Len(params) : words[k + 1] = params[k] /\ params[k] \in Params
  BY <1>0, WordsAre
<1>d. DOMAIN params = 1 .. Len(params) /\ params \in Seq(Params)
  BY <1>0 DEF ParamsOfLine
<1>h. \A i \in 1 .. q - 1 : i \in 1 .. Len(params) => \A j \in 1 .. Len(params[i]) : params[i][j] # colon
  <2> SUFFICES ASSUME NEW i \in 1 .. q - 1, i \in 1 .. Len(params), NEW j \in 1 .. Len(params[i])
               PROVE  params[i][j] # colon
    OBVIOUS
  <2>1. colon \notin ToSet(params[i])
    BY <1>d
  <2>2. DOMAIN params[i] = 1 .. Len(params[i])
    BY <1>1, ParamsAre DEF IsWord
  <2> HIDE DEF colon, params
  <2> QED BY <2>1, <2>2 DEF ToSet
<1>2. ColonFreeTo(words, n, q)
  <2>1. ColonFreeTo(words, n, 1)
    BY <1>0, FirstColonFree
  <2> SUFFICES ASSUME NEW k \in 1 .. n, k <= q, NEW i \in 1 .. Len(words[k]) PROVE words[k][i] # ":"
    BY DEF ColonFreeTo
  <2>2. CASE k = 1
    <3>1. k <= 1
      BY <2>2
    <3> QED BY <2>1, <3>1 DEF ColonFreeTo
  <2>3. CASE k # 1
    <3> DEFINE j == k - 1
    <3>1. j \in 1 .. Len(params) /\ j \in 1 .. q - 1 /\ j + 1 = k
      BY <1>1, <2>3
    <3> HIDE DEF j
    <3>2. words[k] = params[j]
      BY <1>1, <3>1
    <3> QED BY <1>h, <3>1, <3>2
  <2> QED BY <2>2, <2>3
<1>3. get_param(Raw(l), 512, q) = ParamOf(words, n, tail, 512, q)
  <2>1. q \in Nat \ {0}
    OBVIOUS
  <2>2. PartsOf(Raw(l), l.sender, words, n, tail)
    BY LineFound
  <2> HIDE DEF words, n, tail
  <2> QED BY <1>2, <2>1, <2>2 DEF PartsOf
<1>4. /\ tail = NULL => all = params
      /\ tail # NULL => all = Append(params, tail)
  BY DEF AllOf
<1>5. CASE q < n
  <2>1. q \in 1 .. Len(params)
    BY <1>1, <1>5
  <2>2. ParamOf(words, n, tail, 512, q) = Cut(params[q], 512)
    BY <1>1, <1>5, <2>1 DEF ParamOf
  <2>3. Cut(params[q], 512) = params[q]
    <3>1. Len(params[q]) < 256 /\ Len(params[q]) \in Nat
      BY <1>1, <2>1, ParamsAre DEF IsWord
    <3> QED BY <3>1, CutFits
  <2>4. q \in DOMAIN all /\ all[q] = params[q]
    <3>1. CASE tail = NULL
      BY <1>4, <1>d, <2>1, <3>1
    <3>2. CASE tail # NULL
      <4> HIDE DEF params, tail, all
      <4> DEFINE V == Params \cup {tail}
      <4>1. params \in Seq(V)
        <5>1. Params \subseteq V
          OBVIOUS
        <5> HIDE DEF V
        <5> QED BY <1>d, <5>1, SeqWiden
      <4>2. /\ DOMAIN Append(params, tail) = 1 .. Len(params) + 1
            /\ Append(params, tail)[q] = params[q]
        BY <2>1, <4>1
      <4>3. q \in 1 .. Len(params) + 1
        BY <1>1, <2>1
      <4> QED BY <1>4, <3>2, <4>2, <4>3
    <3> QED BY <3>1, <3>2
  <2> QED BY <1>3, <2>2, <2>3, <2>4
<1>6. CASE q = n
  <2>1. ParamOf(words, n, tail, 512, q) = HeldOf(tail, IRC_MSG_MAX, 512)
    BY <1>1, <1>6 DEF ParamOf
  <2>2. q = Len(params) + 1 /\ q \notin 1 .. Len(params)
    BY <1>1, <1>6
  <2>3. CASE tail = NULL
    <3>1. q \notin DOMAIN all
      BY <1>4, <1>d, <2>2, <2>3
    <3> QED BY <1>3, <2>1, <2>3, <3>1 DEF HeldOf
  <2>4. CASE tail # NULL
    <3>1. Len(tail) < 256 /\ Len(tail) \in Nat
      BY <1>0, <2>4, TailsAre DEF IsTail
    <3>2. HeldOf(tail, IRC_MSG_MAX, 512) = tail
      BY <2>4, <3>1, CutFits DEF HeldOf
    <3> HIDE DEF params, tail, all
    <3> DEFINE V == Params \cup {tail}
    <3>3. params \in Seq(V)
      <4>1. Params \subseteq V
        OBVIOUS
      <4> HIDE DEF V
      <4> QED BY <1>d, <4>1, SeqWiden
    <3>4. q \in DOMAIN all /\ all[q] = tail
      BY <1>4, <2>2, <2>4, <3>3
    <3> QED BY <1>3, <2>1, <3>2, <3>4 DEF all, params, tail
  <2> QED BY <2>3, <2>4
<1>7. CASE q > n
  <2>1. ~(q < n) /\ q # n /\ q \notin 1 .. Len(params) /\ q \notin 1 .. Len(params) + 1
    BY <1>1, <1>7
  <2>2. ParamOf(words, n, tail, 512, q) = NULL
    BY <2>1 DEF ParamOf
  <2>3. q \notin DOMAIN all
    <3>1. CASE tail = NULL
      BY <1>4, <1>d, <2>1, <3>1
    <3>2. CASE tail # NULL
      <4> HIDE DEF params, tail, all
      <4>1. DOMAIN Append(params, tail) = 1 .. Len(params) + 1
        BY <1>d
      <4> QED BY <1>4, <2>1, <3>2, <4>1
    <3> QED BY <3>1, <3>2
  <2> QED BY <1>3, <2>2, <2>3
<1> QED BY <1>1, <1>5, <1>6, <1>7

(* The command, and the texts that are not cut.                            *)
LEMMA PartsFound ==
  ASSUME NEW l \in Lines
  PROVE  /\ get_sender(Raw(l), 512) = l.sender /\ get_command(Raw(l), 32) = <<"C">>
         /\ get_tail(Raw(l), 512) = l.tail
<1>1. /\ get_sender(Raw(l), 512) = HeldOf(l.sender, 512, 512)
      /\ get_command(Raw(l), 32) = Held(WordsOf(l.params)[1], 32, 32)
      /\ get_tail(Raw(l), 512) = HeldOf(l.tail, IRC_MSG_MAX, 512)
  BY LineFound DEF PartsOf
<1>2. HeldOf(l.sender, 512, 512) = l.sender
  <2>1. CASE l.sender = NULL
    BY <2>1 DEF HeldOf
  <2>2. CASE l.sender # NULL
    <3>1. Len(l.sender) < 256 /\ Len(l.sender) \in Nat
      BY <2>2, LineIs, SendersAre DEF IsSender
    <3> QED BY <2>2, <3>1, CutFits DEF HeldOf
  <2> QED BY <2>1, <2>2
<1>3. HeldOf(l.tail, IRC_MSG_MAX, 512) = l.tail
  <2>1. CASE l.tail = NULL
    BY <2>1 DEF HeldOf
  <2>2. CASE l.tail # NULL
    <3>1. Len(l.tail) < 256 /\ Len(l.tail) \in Nat
      BY <2>2, LineIs, TailsAre DEF IsTail
    <3> QED BY <2>2, <3>1, CutFits DEF HeldOf
  <2> QED BY <2>1, <2>2
<1>4. Held(WordsOf(l.params)[1], 32, 32) = <<"C">>
  <2>1. WordsOf(l.params)[1] = <<"C">> /\ Len(WordsOf(l.params)[1]) = 1
    BY LineIs, WordsAre
  <2>2. 1 < 32
    OBVIOUS
  <2> QED BY <2>1, <2>2 DEF Cut, Held
<1> QED BY <1>1, <1>2, <1>3, <1>4

(***************************************************************************)
(* The parts of a line are found, and a program gets them in its argv, for *)
(* tails of every length that fits into the buffers.                       *)
(***************************************************************************)
THEOREM LinesAreTaken == Spec => []IrcLineTaken
<1>1. ReadInv => IrcLineTaken
  <2> SUFFICES ASSUME ReadInv, Done("line") PROVE IrcLineTaken
    BY DEF IrcLineTaken
  <2> DEFINE l == input.of
  <2>1. input.kind = "line" /\ output = LineRead(Raw(l))
    BY DEF ReadInv, Done
  <2>2. l \in Lines
    BY <2>1 DEF ReadInv, Inputs
  <2> HIDE DEF l
  <2>3. /\ output.sender = get_sender(Raw(l), 512) /\ output.command = get_command(Raw(l), 32)
        /\ output.tail = get_tail(Raw(l), 512) /\ output.argv = AskedOf(Raw(l))
        /\ \A n \in 1 .. 4 : output.params[n] = get_param(Raw(l), 512, n)
    BY <2>1 DEF LineRead
  <2>4. output.sender = l.sender /\ output.command = <<"C">> /\ output.tail = l.tail
    BY <2>2, <2>3, PartsFound
  <2>5. \A n \in 1 .. 4 : (\A i \in 1 .. (n - 1) : i \in DOMAIN l.params => ":" \notin ToSet(l.params[i])) =>
           output.params[n] = IF n \in DOMAIN AllOf(l) THEN AllOf(l)[n] ELSE NULL
    <3> SUFFICES ASSUME NEW n \in 1 .. 4,
                        \A i \in 1 .. n - 1 : i \in DOMAIN l.params => ":" \notin ToSet(l.params[i])
                 PROVE  output.params[n] = IF n \in DOMAIN AllOf(l) THEN AllOf(l)[n] ELSE NULL
      OBVIOUS
    <3>1. get_param(Raw(l), 512, n) = IF n \in DOMAIN AllOf(l) THEN AllOf(l)[n] ELSE NULL
      BY <2>2, ParamFound
    <3> QED BY <2>3, <3>1
  <2>6. UserLine(l) => output.argv = <<<<"prog">>, <<"n">>, Channel(l), l.tail, ArgsText(l), Raw(l)>>
    BY <2>2, <2>3, AskedFilled
  <2>7. IrcLineTaken <=>
          (Done("line") =>
             /\ output.sender = l.sender /\ output.command = <<"C">> /\ output.tail = l.tail
             /\ \A n \in 1 .. 4 :
                   (\A i \in 1 .. (n - 1) : i \in DOMAIN l.params => ":" \notin ToSet(l.params[i])) =>
                      output.params[n] = IF n \in DOMAIN AllOf(l) THEN AllOf(l)[n] ELSE NULL
             /\ UserLine(l) =>
                   output.argv = <<<<"prog">>, <<"n">>, Channel(l), l.tail, ArgsText(l), Raw(l)>>)
    BY Zenon DEF IrcLineTaken, AllOf, UserLine, Channel, ArgsText, RestOf, Here, Nick, l
  <2> QED BY <2>4, <2>5, <2>6, <2>7
<1> QED BY <1>1, ReadRight, PTL
=============================================================================
