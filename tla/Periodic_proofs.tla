-------------------------- MODULE Periodic_proofs --------------------------
(* Theorems about Periodic, for any periodics, periods and length of time.  *)
(* The first part says what insertion into and removal from the list do;    *)
(* the second shows that TypeOK, Sorted, Books and NeverAhead together are  *)
(* inductive, with WaitInv on the way into a sleep.                         *)
EXTENDS Periodic, InductionLemmas, SequenceTheorems, FiniteSetTheorems, TLAPS

(* What InsertAt and RemoveAt of a sequence are, entry by entry.            *)
LEMMA InsertAtIs ==
  ASSUME NEW S, NEW s \in Seq(S), NEW i \in 1 .. Len(s) + 1, NEW e \in S
  PROVE  /\ InsertAt(s, i, e) \in Seq(S)
         /\ Len(InsertAt(s, i, e)) = Len(s) + 1
         /\ \A j \in 1 .. Len(s) + 1 :
              InsertAt(s, i, e)[j] = IF j < i THEN s[j] ELSE IF j = i THEN e ELSE s[j - 1]
<1> DEFINE l == SubSeq(s, 1, i - 1)
           r == SubSeq(s, i, Len(s))
<1>1. /\ l \in Seq(S) /\ Len(l) = i - 1
      /\ \A j \in 1 .. i - 1 : l[j] = s[j]
  BY SubSeqProperties, LenProperties, ElementOfSeq
<1>2. /\ r \in Seq(S) /\ Len(r) = Len(s) - i + 1
      /\ \A j \in 1 .. Len(s) - i + 1 : r[j] = s[i + j - 1]
  BY SubSeqProperties, LenProperties, ElementOfSeq
<1>3. <<e>> \in Seq(S) /\ Len(<<e>>) = 1 /\ <<e>>[1] = e
  OBVIOUS
<1> HIDE DEF l, r
<1> DEFINE le == l \o <<e>>
<1>4. /\ le \in Seq(S) /\ Len(le) = i
      /\ \A j \in 1 .. i : le[j] = IF j < i THEN s[j] ELSE e
  BY <1>1, <1>3, ConcatProperties
<1> HIDE DEF le
<1>5. /\ le \o r \in Seq(S) /\ Len(le \o r) = Len(s) + 1
      /\ \A j \in 1 .. Len(s) + 1 :
           (le \o r)[j] = IF j < i THEN s[j] ELSE IF j = i THEN e ELSE s[j - 1]
  <2>1. /\ le \o r \in Seq(S) /\ Len(le \o r) = Len(le) + Len(r)
        /\ \A j \in 1 .. Len(le) + Len(r) :
             (le \o r)[j] = IF j <= Len(le) THEN le[j] ELSE r[j - Len(le)]
    BY <1>2, <1>4, ConcatProperties
  <2>2. Len(le) + Len(r) = Len(s) + 1
    BY <1>2, <1>4, LenProperties
  <2>3. ASSUME NEW j \in 1 .. Len(s) + 1
        PROVE  (le \o r)[j] = IF j < i THEN s[j] ELSE IF j = i THEN e ELSE s[j - 1]
    <3>1. CASE j <= i
      BY <3>1, <2>1, <2>2, <1>4
    <3>2. CASE j > i
      <4>1. j - i \in 1 .. Len(s) - i + 1 /\ i + (j - i) - 1 = j - 1
        BY <3>2, LenProperties
      <4>2. (le \o r)[j] = r[j - i]
        BY <3>2, <2>1, <2>2, <1>4
      <4>3. r[j - i] = s[i + (j - i) - 1]
        BY <4>1, <1>2
      <4>4. r[j - i] = s[j - 1]
        BY <4>1, <4>3
      <4>5. j \in Int /\ i \in Int
        BY LenProperties
      <4>6. ~(j < i) /\ j # i
        BY <3>2, <4>5
      <4> HIDE DEF le, r
      <4> QED BY <4>2, <4>4, <4>6, Zenon
    <3>3. j <= i \/ j > i
      <4>1. j \in Int /\ i \in Int
        BY LenProperties
      <4> QED BY <4>1
    <3> QED BY <3>1, <3>2, <3>3
  <2> QED BY <2>1, <2>2, <2>3
<1> QED BY <1>5 DEF InsertAt, le, l, r

LEMMA RemoveAtIs ==
  ASSUME NEW S, NEW s \in Seq(S), NEW i \in 1 .. Len(s)
  PROVE  /\ RemoveAt(s, i) \in Seq(S)
         /\ Len(RemoveAt(s, i)) = Len(s) - 1
         /\ \A j \in 1 .. Len(s) - 1 :
              RemoveAt(s, i)[j] = IF j < i THEN s[j] ELSE s[j + 1]
<1> DEFINE l == SubSeq(s, 1, i - 1)
           r == SubSeq(s, i + 1, Len(s))
<1>1. /\ l \in Seq(S) /\ Len(l) = i - 1
      /\ \A j \in 1 .. i - 1 : l[j] = s[j]
  BY SubSeqProperties, LenProperties, ElementOfSeq
<1>2. /\ r \in Seq(S) /\ Len(r) = Len(s) - i
      /\ \A j \in 1 .. Len(s) - i : r[j] = s[i + j]
  BY SubSeqProperties, LenProperties, ElementOfSeq
<1> HIDE DEF l, r
<1>3. /\ l \o r \in Seq(S) /\ Len(l \o r) = Len(s) - 1
      /\ \A j \in 1 .. Len(s) - 1 : (l \o r)[j] = IF j < i THEN s[j] ELSE s[j + 1]
  <2>1. /\ l \o r \in Seq(S) /\ Len(l \o r) = Len(l) + Len(r)
        /\ \A j \in 1 .. Len(l) + Len(r) :
             (l \o r)[j] = IF j <= Len(l) THEN l[j] ELSE r[j - Len(l)]
    BY <1>1, <1>2, ConcatProperties
  <2>2. Len(l) + Len(r) = Len(s) - 1
    BY <1>1, <1>2, LenProperties
  <2>3. ASSUME NEW j \in 1 .. Len(s) - 1
        PROVE  (l \o r)[j] = IF j < i THEN s[j] ELSE s[j + 1]
    <3>1. CASE j < i
      BY <3>1, <2>1, <2>2, <1>1
    <3>2. CASE j >= i
      <4> DEFINE k == j - (i - 1)
      <4>1. k \in 1 .. Len(s) - i /\ i + k = j + 1
        BY <3>2, LenProperties
      <4>2. (l \o r)[j] = r[k]
        BY <3>2, <2>1, <2>2, <1>1, SMTT(60)
      <4> HIDE DEF k
      <4>3. r[k] = s[i + k]
        BY <4>1, <1>2
      <4>4. (l \o r)[j] = s[j + 1]
        BY <4>1, <4>2, <4>3
      <4>5. j \in Int /\ i \in Int
        BY LenProperties
      <4>6. ~(j < i)
        BY <3>2, <4>5
      <4> QED BY <4>4, <4>6, Zenon
    <3>3. j < i \/ j >= i
      <4>1. j \in Int /\ i \in Int
        BY LenProperties
      <4> QED BY <4>1
    <3> QED BY <3>1, <3>2, <3>3
  <2> QED BY <2>1, <2>2, <2>3
<1> QED BY <1>3 DEF RemoveAt, l, r

(* insert_periodic finds a place: every entry before it is due no later     *)
(* than p, and the entry there is due later.                                *)
LEMMA PlaceIs ==
  ASSUME NEW list \in Seq(Periodics), NEW due \in [Periodics -> Nat], NEW p \in Periodics
  PROVE  /\ Place(list, due, p) \in 1 .. Len(list) + 1
         /\ \A j \in 1 .. Place(list, due, p) - 1 : due[list[j]] <= due[p]
         /\ Place(list, due, p) <= Len(list) => due[p] < due[list[Place(list, due, p)]]
<1> DEFINE Good(i) == /\ \A j \in 1 .. i - 1 : due[list[j]] <= due[p]
                      /\ i <= Len(list) => due[p] < due[list[i]]
           T == {i \in 1 .. Len(list) : due[p] < due[list[i]]}
<1>0. Len(list) \in Nat /\ \A j \in 1 .. Len(list) : list[j] \in Periodics
  BY LenProperties, ElementOfSeq
<1>1. \E i \in 1 .. Len(list) + 1 : Good(i)
  <2>1. CASE T = {}
    <3>1. Good(Len(list) + 1)
      BY <2>1, <1>0, SMTT(60)
    <3> QED BY <3>1, <1>0
  <2>2. CASE T # {}
    <3>1. T \in SUBSET Nat
      OBVIOUS
    <3>2. PICK i \in T : \A k \in T : i <= k
      <4> HIDE DEF T
      <4> QED BY <2>2, <3>1, LeastNat
    <3>3. Good(i)
      BY <3>2, <1>0, SMTT(60)
    <3> QED BY <3>3, <1>0, SMTT(60)
  <2> QED BY <2>1, <2>2
<1>2. Place(list, due, p) = CHOOSE i \in 1 .. Len(list) + 1 : Good(i)
  BY DEF Place
<1>3. Place(list, due, p) \in 1 .. Len(list) + 1 /\ Good(Place(list, due, p))
  <2> HIDE DEF Good
  <2> QED BY <1>1, <1>2
<1> QED BY <1>3

Entries(list) == {list[i] : i \in 1 .. Len(list)}

(* An insertion puts p into an ordered list and leaves it ordered.          *)
LEMMA InsertIs ==
  ASSUME NEW list \in Seq(Periodics), NEW due \in [Periodics -> Nat], NEW p \in Periodics,
         InOrder(list, due), p \notin Entries(list),
         NEW t, t = InsertPeriodic(list, due, p)
  PROVE  t \in Seq(Periodics) /\ InOrder(t, due) /\ Entries(t) = Entries(list) \cup {p}
<1> DEFINE k == Place(list, due, p)
           n == Len(list)
<1>0. \A i \in 1 .. Len(list) : list[i] # p
  BY DEF Entries
<1>1. n \in Nat /\ \A j \in 1 .. n : list[j] \in Periodics
  BY LenProperties, ElementOfSeq
<1>2. /\ k \in 1 .. n + 1
      /\ \A j \in 1 .. k - 1 : due[list[j]] <= due[p]
      /\ k <= n => due[p] < due[list[k]]
  BY PlaceIs
<1>4. t = InsertAt(list, k, p)
  BY DEF InsertPeriodic
<1> HIDE DEF k
<1>3. /\ t \in Seq(Periodics) /\ Len(t) = n + 1
      /\ \A j \in 1 .. n + 1 : t[j] = IF j < k THEN list[j] ELSE IF j = k THEN p ELSE list[j - 1]
  <2> DEFINE t0 == InsertAt(list, k, p)
  <2>1. /\ t0 \in Seq(Periodics) /\ Len(t0) = n + 1
        /\ \A j \in 1 .. n + 1 :
             t0[j] = IF j < k THEN list[j] ELSE IF j = k THEN p ELSE list[j - 1]
    BY <1>2, InsertAtIs
  <2>2. t = t0
    BY <1>4
  <2> HIDE DEF t0
  <2> QED BY <2>1, <2>2, Zenon
<1> HIDE DEF n
<1>5. /\ \A i, j \in 1 .. n : i < j => due[list[i]] <= due[list[j]]
      /\ \A i, j \in 1 .. n : list[i] = list[j] => i = j
      /\ \A i \in 1 .. n : list[i] # p
  BY <1>0 DEF InOrder, n
<1>6. \A j \in 1 .. n : k <= j => due[p] < due[list[j]]
  BY <1>1, <1>2, <1>5
<1>7. ASSUME NEW i \in 1 .. n + 1, NEW j \in 1 .. n + 1, i < j
      PROVE  due[t[i]] <= due[t[j]]
  <2>1. CASE j < k
    <3>1. t[i] = list[i] /\ t[j] = list[j] /\ i \in 1 .. n /\ j \in 1 .. n
      BY <2>1, <1>7, <1>3, <1>1, <1>2
    <3> QED BY <3>1, <1>5, <1>7
  <2>2. CASE j = k
    <3>1. t[i] = list[i] /\ i \in 1 .. k - 1
      BY <2>2, <1>7, <1>3, <1>1, <1>2
    <3>2. t[j] = p
      BY <2>2, <1>3, <1>1, <1>2
    <3> QED BY <3>1, <3>2, <1>2
  <2>3. CASE j > k /\ i < k
    <3>1. t[i] = list[i] /\ t[j] = list[j - 1] /\ i <= j - 1 /\ i \in 1 .. n /\ j - 1 \in 1 .. n
      BY <2>3, <1>3, <1>1, <1>2, SMTT(60)
    <3> QED BY <3>1, <1>5, <1>1
  <2>4. CASE j > k /\ i = k
    <3>1. k <= j - 1 /\ j - 1 \in 1 .. n /\ ~(i < k) /\ i = k /\ ~(j < k) /\ j # k
      BY <2>4, <1>1, <1>2
    <3>2. t[i] = p /\ t[j] = list[j - 1]
      BY <3>1, <1>3
    <3> QED BY <3>1, <3>2, <1>6, <1>1
  <2>5. CASE j > k /\ i > k
    <3>1. i - 1 < j - 1 /\ i - 1 \in 1 .. n /\ j - 1 \in 1 .. n
      BY <2>5, <1>7, <1>1, <1>2
    <3>2. ~(i < k) /\ i # k /\ ~(j < k) /\ j # k
      BY <2>5, <1>1, <1>2
    <3>3. t[i] = list[i - 1] /\ t[j] = list[j - 1]
      BY <3>2, <1>3
    <3> QED BY <3>1, <3>3, <1>5
  <2>6. i \in Int /\ j \in Int /\ k \in Int
    BY <1>1, <1>2
  <2> QED BY <2>1, <2>2, <2>3, <2>4, <2>5, <2>6
<1>8. ASSUME NEW i \in 1 .. n + 1, NEW j \in 1 .. n + 1, t[i] = t[j]
      PROVE  i = j
  <2> DEFINE src(h) == IF h < k THEN h ELSE h - 1
  <2>1. \A h \in 1 .. n + 1 : h # k => src(h) \in 1 .. n /\ t[h] = list[src(h)]
    BY <1>3, <1>1, <1>2, SMTT(60)
  <2>2. t[k] = p
    BY <1>3, <1>2
  <2> HIDE DEF src
  <2>3. i # k /\ j # k => src(i) = src(j)
    BY <2>1, <1>5, <1>8, SMTT(60)
  <2>4. i = k <=> j = k
    BY <2>1, <2>2, <1>5, <1>8
  <2> QED BY <2>3, <2>4, <1>1, <1>2 DEF src
<1>9. {t[i] : i \in 1 .. n + 1} = {list[i] : i \in 1 .. n} \cup {p}
  <2>1. ASSUME NEW i \in 1 .. n + 1 PROVE t[i] \in {list[j] : j \in 1 .. n} \cup {p}
    BY <1>1, <1>2, <1>3
  <2>2. ASSUME NEW i \in 1 .. n PROVE list[i] \in {t[j] : j \in 1 .. n + 1}
    <3>1. CASE i < k
      <4>1. i \in 1 .. n + 1 /\ t[i] = list[i]
        BY <3>1, <1>1, <1>3
      <4> QED BY <4>1
    <3>2. CASE i >= k
      <4>1. i + 1 \in 1 .. n + 1 /\ ~(i + 1 < k) /\ i + 1 # k /\ (i + 1) - 1 = i
        BY <3>2, <1>1, <1>2
      <4>2. t[i + 1] = list[(i + 1) - 1]
        BY <4>1, <1>3
      <4> QED BY <4>1, <4>2
    <3> QED BY <3>1, <3>2, <1>1, <1>2
  <2>3. p \in {t[j] : j \in 1 .. n + 1}
    BY <1>2, <1>3
  <2> QED BY <2>1, <2>2, <2>3
<1> QED BY <1>3, <1>7, <1>8, <1>9 DEF InOrder, Entries, n

LEMMA ListedIs == Listed = Entries(head) /\ Listed' = Entries(head')
BY DEF Listed, Entries

LEMMA IndexIs ==
  ASSUME NEW list \in Seq(Periodics), NEW p \in Entries(list)
  PROVE  Index(list, p) \in 1 .. Len(list) /\ list[Index(list, p)] = p
<1>1. \E i \in 1 .. Len(list) : list[i] = p
  BY DEF Entries
<1> QED BY <1>1 DEF Index

(* A removal takes p out of an ordered list and leaves it ordered, whatever *)
(* the deadline of p becomes.                                               *)
LEMMA RemoveIs ==
  ASSUME NEW list \in Seq(Periodics), NEW due, NEW later, NEW p \in Entries(list),
         InOrder(list, due), \A q \in Periodics : q # p => later[q] = due[q]
  PROVE  /\ RemoveAt(list, Index(list, p)) \in Seq(Periodics)
         /\ InOrder(RemoveAt(list, Index(list, p)), later)
         /\ Entries(RemoveAt(list, Index(list, p))) = Entries(list) \ {p}
<1> DEFINE k == Index(list, p)
           t == RemoveAt(list, k)
           n == Len(list)
           src(h) == IF h < k THEN h ELSE h + 1
<1>1. n \in Nat /\ \A j \in 1 .. n : list[j] \in Periodics
  BY LenProperties, ElementOfSeq
<1>2. k \in 1 .. n /\ list[k] = p
  BY IndexIs
<1> HIDE DEF k
<1>3. /\ t \in Seq(Periodics) /\ Len(t) = n - 1
      /\ \A j \in 1 .. n - 1 : t[j] = IF j < k THEN list[j] ELSE list[j + 1]
  BY <1>2, RemoveAtIs
<1> HIDE DEF t, n
<1>4. /\ \A i, j \in 1 .. n : i < j => due[list[i]] <= due[list[j]]
      /\ \A i, j \in 1 .. n : list[i] = list[j] => i = j
  BY DEF InOrder, n
<1>5. \A h \in 1 .. n - 1 : src(h) \in 1 .. n /\ src(h) # k /\ t[h] = list[src(h)]
  BY <1>1, <1>2, <1>3
<1>6. \A i, j \in 1 .. n - 1 : /\ i < j => src(i) < src(j)
                              /\ src(i) = src(j) => i = j
  BY <1>1, <1>2
<1>7. \A h \in 1 .. n : h # k => \E i \in 1 .. n - 1 : src(i) = h
  <2> SUFFICES ASSUME NEW h \in 1 .. n, h # k PROVE \E i \in 1 .. n - 1 : src(i) = h
    OBVIOUS
  <2>1. CASE h < k
    <3>1. h \in 1 .. n - 1 /\ src(h) = h
      BY <2>1, <1>1, <1>2
    <3> QED BY <3>1
  <2>2. CASE h > k
    <3>1. h - 1 \in 1 .. n - 1 /\ src(h - 1) = h
      BY <2>2, <1>1, <1>2
    <3> QED BY <3>1
  <2> QED BY <2>1, <2>2, <1>1, <1>2
<1> HIDE DEF src
<1>8. \A h \in 1 .. n - 1 : t[h] # p /\ t[h] \in Periodics /\ later[t[h]] = due[t[h]]
  BY <1>1, <1>2, <1>4, <1>5
<1>9. InOrder(t, later)
  <2>1. ASSUME NEW i \in 1 .. n - 1, NEW j \in 1 .. n - 1, i < j
        PROVE  later[t[i]] <= later[t[j]]
    <3>1. src(i) \in 1 .. n /\ src(j) \in 1 .. n /\ src(i) < src(j)
      BY <2>1, <1>1, <1>2 DEF src
    <3>2. due[list[src(i)]] <= due[list[src(j)]]
      BY <3>1, <1>4
    <3>3. later[t[i]] = due[list[src(i)]] /\ later[t[j]] = due[list[src(j)]]
      BY <1>5, <1>8
    <3> QED BY <3>2, <3>3
  <2>2. ASSUME NEW i \in 1 .. n - 1, NEW j \in 1 .. n - 1, t[i] = t[j]
        PROVE  i = j
    BY <2>2, <1>4, <1>5, <1>6
  <2> QED BY <2>1, <2>2, <1>3 DEF InOrder
<1>10. Entries(t) = Entries(list) \ {p}
  <2>1. ASSUME NEW i \in 1 .. n - 1 PROVE t[i] \in Entries(list) \ {p}
    BY <1>5, <1>8 DEF Entries, n
  <2>2. ASSUME NEW q \in Entries(list), q # p PROVE q \in Entries(t)
    <3>1. PICK h \in 1 .. n : q = list[h]
      BY DEF Entries, n
    <3>2. PICK i \in 1 .. n - 1 : src(i) = h
      BY <3>1, <2>2, <1>2, <1>7
    <3> QED BY <3>1, <3>2, <1>3, <1>5 DEF Entries
  <2> QED BY <2>1, <2>2, <1>3, ZenonT(60) DEF Entries
<1> QED BY <1>3, <1>9, <1>10 DEF t, k
-----------------------------------------------------------------------------
LEMMA Distributes == \A a, b \in Nat : (a + 1) * b = a * b + b /\ a * b \in Nat
OBVIOUS

IInv == TypeOK /\ Sorted /\ Books /\ NeverAhead

(* Between the look at the list and the sleep: the entry to sleep for is    *)
(* the first due of those it saw, and it was not due at the time it read.   *)
WaitInv ==
  pc \in {"clock", "doze"} =>
    /\ tp \in seen /\ seen \subseteq registered
    /\ \A p \in seen : deadline[tp] <= deadline[p]
    /\ pc = "doze" => tv < deadline[tp]

LEMMA InitIInv == Init => IInv
<1> SUFFICES ASSUME Init PROVE IInv
  OBVIOUS
<1> USE DEF Init
<1>1. head = <<>> /\ Len(head) = 0 /\ head \in Seq(Periodics)
  OBVIOUS
<1>2. TypeOK
  BY <1>1 DEF TypeOK, PC
<1>3. Sorted
  BY <1>1 DEF Sorted, InOrder
<1>4. Books /\ NeverAhead
  BY <1>1 DEF Books, NeverAhead, Listed
<1> QED BY <1>2, <1>3, <1>4 DEF IInv

(* A step that leaves the list and the deadlines alone.                     *)
LEMMA QuietStep ==
  ASSUME IInv, UNCHANGED pVars, TypeOK', now <= now', tv' <= now',
         pc' = "scan" => tp' \in Listed \cup {None}
  PROVE  IInv'
<1> USE DEF IInv, pVars
<1>1. Sorted'
  BY DEF Sorted, InOrder
<1>2. Books'
  BY DEF Books, Listed
<1>3. NeverAhead'
  <2> SUFFICES ASSUME NEW p \in registered PROVE born[p] + runs[p] * Period[p] <= now'
    BY DEF NeverAhead
  <2>1. born[p] + runs[p] * Period[p] <= now
    BY DEF NeverAhead
  <2>2. born[p] \in Nat /\ runs[p] \in Nat /\ Period[p] \in Nat /\ now \in Nat /\ now' \in Nat
    BY PeriodicAssumption DEF TypeOK
  <2>3. runs[p] * Period[p] \in Nat
    BY <2>2, Distributes
  <2> QED BY <2>1, <2>2, <2>3
<1> QED BY <1>1, <1>2, <1>3

(* A new deadline for p, one period away.                                   *)
LEMMA EnteredStep ==
  ASSUME IInv, NEW p \in Periodics, p \notin registered,
         registered' = registered \cup {p},
         born' = [born EXCEPT ![p] = now],
         deadline' = [deadline EXCEPT ![p] = now + Period[p]],
         UNCHANGED <<now, runs>>
  PROVE  /\ \A q \in registered' : deadline'[q] = born'[q] + (runs'[q] + 1) * Period[q]
         /\ \A q \in Periodics \ registered' : runs'[q] = 0
         /\ NeverAhead'
         /\ deadline' \in [Periodics -> Nat] /\ born' \in [Periodics -> Nat]
<1> USE DEF IInv
<1>1. /\ born \in [Periodics -> Nat] /\ deadline \in [Periodics -> Nat] /\ runs \in [Periodics -> Nat]
      /\ now \in Nat /\ Period[p] \in Nat /\ registered \subseteq Periodics
  BY PeriodicAssumption DEF TypeOK
<1>0. runs[p] = 0
  BY DEF Books
<1>2. (runs[p] + 1) * Period[p] = Period[p] /\ runs[p] * Period[p] = 0
  BY <1>0, <1>1
<1>3. ASSUME NEW q \in registered'
      PROVE  /\ deadline'[q] = born'[q] + (runs'[q] + 1) * Period[q]
             /\ born'[q] + runs'[q] * Period[q] <= now'
  <2>1. CASE q = p
    <3>1. deadline'[p] = now + Period[p] /\ born'[p] = now /\ runs'[p] = runs[p] /\ now' = now
      BY <1>1
    <3> QED BY <2>1, <3>1, <1>1, <1>2
  <2>2. CASE q # p
    <3>1. q \in registered /\ deadline'[q] = deadline[q] /\ born'[q] = born[q] /\ runs'[q] = runs[q] /\ now' = now
      BY <2>2, <1>1
    <3> QED BY <3>1 DEF Books, NeverAhead
  <2> QED BY <2>1, <2>2
<1>4. deadline' \in [Periodics -> Nat] /\ born' \in [Periodics -> Nat]
  BY <1>1
<1>5. \A q \in Periodics \ registered' : runs'[q] = 0
  BY DEF Books
<1> QED BY <1>3, <1>4, <1>5 DEF NeverAhead

LEMMA RegisterIInv ==
  ASSUME IInv, NEW p \in Periodics, Register(p)
  PROVE  IInv'
<1> USE DEF IInv, Register, mainVars
<1>1. p \notin registered /\ \A i \in 1 .. Len(head) : head[i] # p
  BY DEF Books, Listed
<1>2. /\ \A q \in registered' : deadline'[q] = born'[q] + (runs'[q] + 1) * Period[q]
      /\ \A q \in Periodics \ registered' : runs'[q] = 0
      /\ NeverAhead'
      /\ deadline' \in [Periodics -> Nat] /\ born' \in [Periodics -> Nat]
  BY <1>1, EnteredStep
<1>3. InOrder(head, deadline')
  <2>1. \A i \in 1 .. Len(head) : deadline'[head[i]] = deadline[head[i]]
    <3>1. \A i \in 1 .. Len(head) : head[i] \in Periodics
      BY ElementOfSeq DEF TypeOK
    <3> QED BY <1>1, <3>1 DEF TypeOK
  <2> QED BY <2>1 DEF Sorted, InOrder
<1>4. /\ head' \in Seq(Periodics) /\ InOrder(head', deadline')
      /\ Listed' = Listed \cup {p}
  <2>1. head \in Seq(Periodics) /\ p \notin Entries(head) /\ deadline' \in [Periodics -> Nat]
    BY <1>1, <1>2, ZenonT(60) DEF TypeOK, Entries
  <2>2. head' = InsertPeriodic(head, deadline', p)
    OBVIOUS
  <2> HIDE DEF Register, IInv
  <2>3. head' \in Seq(Periodics) /\ InOrder(head', deadline') /\ Entries(head') = Entries(head) \cup {p}
    BY <1>3, <2>1, <2>2, InsertIs
  <2> QED BY <2>3, ListedIs
<1>5. TypeOK'
  BY <1>2, <1>4 DEF TypeOK
<1>6. Sorted'
  BY <1>4 DEF Sorted
<1>7. Books'
  <2>1. entering' \subseteq registered' /\ Listed' \subseteq registered' \ entering'
    BY <1>1, <1>4 DEF Books
  <2>2. pc' # "scan" /\ tv' <= now'
    BY DEF Books
  <2> QED BY <1>2, <2>1, <2>2 DEF Books
<1> QED BY <1>2, <1>5, <1>6, <1>7

LEMMA EnterLateIInv ==
  ASSUME IInv, NEW p \in Periodics, EnterLate(p)
  PROVE  IInv'
<1> USE DEF IInv, EnterLate, mainVars
<1>1. p \notin registered /\ \A i \in 1 .. Len(head) : head[i] # p
  BY DEF Books, Listed
<1>2. /\ \A q \in registered' : deadline'[q] = born'[q] + (runs'[q] + 1) * Period[q]
      /\ \A q \in Periodics \ registered' : runs'[q] = 0
      /\ NeverAhead'
      /\ deadline' \in [Periodics -> Nat] /\ born' \in [Periodics -> Nat]
  BY <1>1, EnteredStep
<1>3. InOrder(head', deadline')
  <2>1. \A i \in 1 .. Len(head) : deadline'[head[i]] = deadline[head[i]]
    <3>1. \A i \in 1 .. Len(head) : head[i] \in Periodics
      BY ElementOfSeq DEF TypeOK
    <3> QED BY <1>1, <3>1 DEF TypeOK
  <2> QED BY <2>1 DEF Sorted, InOrder
<1>5. TypeOK'
  BY <1>2 DEF TypeOK
<1>7. Books'
  <2>1. entering' \subseteq registered' /\ Listed' \subseteq registered' \ entering'
    BY <1>1 DEF Books, Listed
  <2>2. tv' <= now' /\ (pc' = "scan" => tp' \in Listed' \cup {None})
    BY DEF Books, Listed
  <2> QED BY <1>2, <2>1, <2>2 DEF Books
<1> QED BY <1>2, <1>3, <1>5, <1>7 DEF Sorted

LEMMA InsertLateIInv ==
  ASSUME IInv, NEW p \in Periodics, InsertLate(p)
  PROVE  IInv'
<1> USE DEF IInv, InsertLate, mainVars
<1>1. \A i \in 1 .. Len(head) : head[i] # p
  BY DEF Books, Listed
<1>2. /\ head' \in Seq(Periodics) /\ InOrder(head', deadline)
      /\ Listed' = Listed \cup {p}
  <2>1. head \in Seq(Periodics) /\ deadline \in [Periodics -> Nat] /\ p \notin Entries(head)
    BY <1>1 DEF TypeOK, Entries
  <2>2. head' = InsertPeriodic(head, deadline, p) /\ InOrder(head, deadline)
    BY DEF Sorted
  <2> HIDE DEF InsertLate, IInv
  <2>3. head' \in Seq(Periodics) /\ InOrder(head', deadline) /\ Entries(head') = Entries(head) \cup {p}
    BY <2>1, <2>2, InsertIs
  <2> QED BY <2>3, ListedIs
<1>3. TypeOK'
  BY <1>2 DEF TypeOK
<1>4. Books'
  BY <1>2 DEF Books
<1>5. NeverAhead'
  BY DEF NeverAhead
<1> QED BY <1>2, <1>3, <1>4, <1>5 DEF Sorted

LEMMA NextOfIs ==
  ASSUME NEW list \in Seq(Periodics), NEW p \in Entries(list)
  PROVE  NextOf(list, p) \in Entries(list) \cup {None}
<1> DEFINE i == Index(list, p)
<1>1. i \in 1 .. Len(list) /\ Len(list) \in Nat
  BY IndexIs, LenProperties
<1>2. NextOf(list, p) = IF i < Len(list) THEN list[i + 1] ELSE None
  BY DEF NextOf
<1> HIDE DEF i
<1>3. i < Len(list) => i + 1 \in 1 .. Len(list)
  BY <1>1
<1> QED BY <1>2, <1>3 DEF Entries

(* One more run of p, and its deadline one period later.                    *)
LEMMA CalledStep ==
  ASSUME IInv, NEW p \in registered, deadline[p] <= now,
         runs' = [runs EXCEPT ![p] = @ + 1],
         deadline' = [deadline EXCEPT ![p] = @ + Period[p]],
         UNCHANGED <<now, born, registered>>
  PROVE  /\ \A q \in registered' : deadline'[q] = born'[q] + (runs'[q] + 1) * Period[q]
         /\ \A q \in Periodics \ registered' : runs'[q] = 0
         /\ NeverAhead'
         /\ deadline' \in [Periodics -> Nat] /\ runs' \in [Periodics -> Nat]
<1> USE DEF IInv
<1>1. /\ born \in [Periodics -> Nat] /\ deadline \in [Periodics -> Nat] /\ runs \in [Periodics -> Nat]
      /\ now \in Nat /\ Period[p] \in Nat /\ p \in Periodics /\ registered \subseteq Periodics
  BY PeriodicAssumption DEF TypeOK
<1>2. deadline[p] = born[p] + (runs[p] + 1) * Period[p]
  BY DEF Books
<1>3. runs'[p] = runs[p] + 1 /\ deadline'[p] = deadline[p] + Period[p] /\ born'[p] = born[p] /\ now' = now
  BY <1>1
<1>4. /\ runs[p] \in Nat /\ runs[p] + 1 \in Nat /\ born[p] \in Nat
      /\ (runs[p] + 1) * Period[p] \in Nat
      /\ ((runs[p] + 1) + 1) * Period[p] = (runs[p] + 1) * Period[p] + Period[p]
  BY <1>1, Distributes
<1>5. ASSUME NEW q \in registered'
      PROVE  /\ deadline'[q] = born'[q] + (runs'[q] + 1) * Period[q]
             /\ born'[q] + runs'[q] * Period[q] <= now'
  <2>1. CASE q = p
    <3> DEFINE e == (runs[p] + 1) * Period[p]
    <3>1. e \in Nat /\ ((runs[p] + 1) + 1) * Period[p] = e + Period[p] /\ deadline[p] = born[p] + e
      BY <1>2, <1>4
    <3>2. runs'[p] * Period[p] = e
      BY <1>3
    <3> HIDE DEF e
    <3>3. deadline'[p] = born'[p] + (e + Period[p])
      BY <1>1, <1>3, <1>4, <3>1
    <3>4. deadline'[p] = born'[p] + (runs'[p] + 1) * Period[p]
      BY <1>3, <3>1, <3>3
    <3>5. born'[p] + runs'[p] * Period[p] <= now'
      BY <1>3, <3>1, <3>2
    <3> QED BY <2>1, <3>4, <3>5
  <2>2. CASE q # p
    <3>1. q \in registered /\ deadline'[q] = deadline[q] /\ born'[q] = born[q] /\ runs'[q] = runs[q] /\ now' = now
      BY <2>2, <1>1
    <3> QED BY <3>1 DEF Books, NeverAhead
  <2> QED BY <2>1, <2>2
<1>6. deadline' \in [Periodics -> Nat] /\ runs' \in [Periodics -> Nat]
  BY <1>1
<1>7. \A q \in Periodics \ registered' : runs'[q] = 0
  BY <1>1 DEF Books
<1> QED BY <1>5, <1>6, <1>7 DEF NeverAhead

LEMMA RunPeriodicIInv ==
  ASSUME IInv, RunPeriodic
  PROVE  IInv'
<1> USE DEF RunPeriodic
<1>1. tp \in Entries(head) /\ tp \in registered /\ tp \in Periodics /\ deadline[tp] <= now
  <2>1. tp \in Listed
    BY DEF IInv, Books, Due
  <2>2. tp \in registered /\ tp \in Periodics
    BY <2>1 DEF IInv, Books, TypeOK
  <2>3. deadline[tp] \in Nat /\ tv \in Nat /\ now \in Nat
    BY <2>2 DEF IInv, TypeOK
  <2>4. deadline[tp] <= tv /\ tv <= now
    BY DEF IInv, Books, Due
  <2> QED BY <2>1, <2>2, <2>3, <2>4, ListedIs
<1>2. /\ \A q \in registered' : deadline'[q] = born'[q] + (runs'[q] + 1) * Period[q]
      /\ \A q \in Periodics \ registered' : runs'[q] = 0
      /\ NeverAhead'
      /\ deadline' \in [Periodics -> Nat] /\ runs' \in [Periodics -> Nat]
  BY <1>1, CalledStep
<1> DEFINE rest == RemoveAt(head, Index(head, tp))
<1>3. rest \in Seq(Periodics) /\ InOrder(rest, deadline') /\ Entries(rest) = Entries(head) \ {tp}
  <2>1. head \in Seq(Periodics) /\ InOrder(head, deadline)
    BY DEF IInv, TypeOK, Sorted
  <2>2. \A q \in Periodics : q # tp => deadline'[q] = deadline[q]
    BY <1>1 DEF IInv, TypeOK
  <2> HIDE DEF RunPeriodic
  <2> QED BY <1>1, <2>1, <2>2, RemoveIs
<1>4. head' = InsertPeriodic(rest, deadline', tp)
  OBVIOUS
<1>5. head' \in Seq(Periodics) /\ InOrder(head', deadline') /\ Entries(head') = Entries(rest) \cup {tp}
  <2> HIDE DEF RunPeriodic, rest
  <2> QED BY <1>1, <1>2, <1>3, <1>4, InsertIs
<1>6. Entries(head') = Entries(head)
  BY <1>1, <1>3, <1>5
<1>7. tp' \in Entries(head') \cup {None}
  <2>1. tp' = NextOf(head', tp)
    OBVIOUS
  <2> HIDE DEF RunPeriodic, rest
  <2> QED BY <1>1, <1>5, <1>6, <2>1, NextOfIs
<1>8. TypeOK'
  <2>1. tp' \in Periodics \cup {None}
    BY <1>6, <1>7, ListedIs DEF IInv, Books, TypeOK
  <2> QED BY <1>2, <1>5, <2>1 DEF IInv, TypeOK, AtList
<1>9. Sorted'
  BY <1>5 DEF Sorted
<1>10. Books'
  <2>1. Listed' = Listed /\ tp' \in Listed' \cup {None}
    BY <1>6, <1>7, ListedIs
  <2> QED BY <1>2, <2>1 DEF IInv, Books
<1> QED BY <1>2, <1>8, <1>9, <1>10 DEF IInv

(* The steps of periodic_main that only read the list, and the steps beside *)
(* it that leave the list alone.                                            *)
LEMMA OtherIInv ==
  ASSUME IInv, WaitInv,
         \/ Start \/ CheckEmpty \/ Check \/ ScanDone \/ Settle \/ ReadClock \/ Doze \/ Wake
         \/ Interrupt \/ Reload \/ Tick
  PROVE  IInv'
<1>1. TypeOK /\ tv <= now /\ Idle \in Nat /\ MaxTime \in Nat /\ head \in Seq(Periodics)
      /\ (head # <<>> => First(head) = head[1] /\ head[1] \in Periodics /\ head[1] \in Listed)
  <2>1. head # <<>> => 1 \in 1 .. Len(head)
    BY LenProperties, EmptySeq DEF IInv, TypeOK
  <2> QED BY <2>1, PeriodicAssumption, ElementOfSeq DEF IInv, Books, TypeOK, First, Listed
<1> USE <1>1 DEF TypeOK, PC, mainVars, pVars, AtList, Sleep
<1>0. Listed \subseteq Periodics
  BY DEF IInv, Books
<1>2. CASE Start
  BY <1>2, QuietStep DEF Start
<1>3. CASE CheckEmpty
  BY <1>3, QuietStep DEF CheckEmpty
<1>4. CASE Check
  BY <1>4, QuietStep DEF Check
<1>5. CASE ScanDone
  BY <1>5, QuietStep DEF ScanDone
<1>6. CASE Settle
  <2>1. CASE head = <<>>
    BY <1>6, <2>1, QuietStep DEF Settle
  <2>2. CASE head # <<>>
    BY <1>0, <1>6, <2>2, QuietStep DEF Settle
  <2> QED BY <2>1, <2>2
<1>11. CASE ReadClock
  BY <1>11, QuietStep DEF ReadClock
<1>12. CASE Doze
  <2>1. tp \in Periodics /\ tv < deadline[tp] /\ deadline[tp] \in Nat
    BY <1>12 DEF Doze, WaitInv, IInv
  <2>2. wake' = now + (deadline[tp] - tv)
    BY <1>12 DEF Doze
  <2>3. wake' \in Nat
    BY <2>1, <2>2
  <2> QED BY <1>12, <2>3, QuietStep DEF Doze
<1>7. CASE Wake
  BY <1>7, QuietStep DEF Wake
<1>8. CASE Interrupt
  BY <1>8, QuietStep DEF Interrupt
<1>9. CASE Reload
  BY <1>9, QuietStep DEF Reload
<1>10. CASE Tick
  <2>1. TypeOK' /\ UNCHANGED pVars /\ now <= now' /\ tv' <= now'
    BY <1>10 DEF Tick
  <2>2. pc' = "scan" => tp' \in Listed \cup {None}
    BY <1>10 DEF Tick, IInv, Books
  <2> QED BY <2>1, <2>2, QuietStep
<1> QED BY <1>2, <1>3, <1>4, <1>5, <1>6, <1>7, <1>8, <1>9, <1>10, <1>11, <1>12

LEMMA NextIInv == IInv /\ WaitInv /\ [Next]_vars => IInv'
<1> SUFFICES ASSUME IInv, WaitInv, [Next]_vars PROVE IInv'
  OBVIOUS
<1>1. CASE Next
  <2>1. CASE \/ Start \/ CheckEmpty \/ Check \/ ScanDone \/ Settle \/ ReadClock \/ Doze \/ Wake
             \/ Interrupt \/ Reload \/ Tick
    BY <2>1, OtherIInv
  <2>2. CASE RunPeriodic
    BY <2>2, RunPeriodicIInv
  <2>3. ASSUME NEW p \in Periodics, Register(p) \/ EnterLate(p) \/ InsertLate(p)
        PROVE  IInv'
    BY <2>3, RegisterIInv, EnterLateIInv, InsertLateIInv
  <2> QED BY <1>1, <2>1, <2>2, <2>3 DEF Next, Main
<1>2. CASE UNCHANGED vars
  <2>1. TypeOK' /\ UNCHANGED pVars /\ now' = now /\ tv' = tv
    BY <1>2 DEF vars, mainVars, pVars, IInv, TypeOK
  <2>2. pc' = "scan" => tp' \in Listed \cup {None}
    BY <1>2 DEF vars, mainVars, IInv, Books
  <2>3. now <= now' /\ tv' <= now'
    BY <2>1 DEF IInv, TypeOK, Books
  <2> QED BY <2>1, <2>2, <2>3, QuietStep
<1> QED BY <1>1, <1>2

(* The list is sorted, so that its first entry is the first that is due.    *)
LEMMA FirstIsLeast ==
  ASSUME IInv, head # <<>>, NEW p \in Listed
  PROVE  First(head) \in Listed /\ deadline[First(head)] <= deadline[p]
<1>1. PICK i \in 1 .. Len(head) : p = head[i]
  BY DEF Listed
<1>2. 1 \in 1 .. Len(head) /\ i \in Nat /\ 1 <= i
  BY <1>1, LenProperties, EmptySeq DEF IInv, TypeOK
<1>3. head[1] \in Periodics /\ p \in Periodics
  BY <1>1, <1>2, ElementOfSeq DEF IInv, TypeOK
<1>4. deadline[head[1]] \in Nat /\ deadline[p] \in Nat
  BY <1>3 DEF IInv, TypeOK
<1>5. deadline[head[1]] <= deadline[p]
  <2>1. CASE i = 1
    BY <2>1, <1>1, <1>4
  <2>2. CASE 1 < i
    BY <2>2, <1>1, <1>2 DEF IInv, Sorted, InOrder
  <2> QED BY <2>1, <2>2, <1>2
<1> QED BY <1>2, <1>5 DEF First, Listed

LEMMA NextWaitInv == IInv /\ WaitInv /\ [Next]_vars => WaitInv'
<1> SUFFICES ASSUME IInv, WaitInv, [Next]_vars, pc' \in {"clock", "doze"}
             PROVE  WaitInv'
  BY DEF WaitInv
<1>1. CASE Settle
  <2>1. head # <<>> /\ pc' = "clock" /\ seen' = Listed /\ tp' = First(head) /\ UNCHANGED pVars
    BY <1>1 DEF Settle
  <2>2. First(head) \in Listed
    <3>1. head[1] \in Listed
      BY <2>1, LenProperties, EmptySeq DEF IInv, TypeOK, Listed
    <3> QED BY <2>1, <3>1, FirstIsLeast
  <2>3. Listed \subseteq registered
    BY DEF IInv, Books
  <2> QED BY <2>1, <2>2, <2>3, FirstIsLeast DEF WaitInv, pVars
<1>2. CASE ReadClock
  <2>1. tp \in Periodics /\ deadline[tp] \in Nat /\ now \in Nat
    BY <1>2 DEF ReadClock, WaitInv, IInv, TypeOK
  <2> QED BY <1>2, <2>1 DEF ReadClock, WaitInv, pVars
<1>3. ASSUME pc \in {"clock", "doze"}, pc' = pc, tv' = tv, tp' = tp, seen' = seen,
             registered \subseteq registered',
             \A p \in registered : deadline'[p] = deadline[p]
      PROVE  WaitInv'
  BY <1>3 DEF WaitInv
<1>4. ASSUME NEW p \in Periodics, EnterLate(p) PROVE WaitInv'
  <2>1. \A q \in registered : deadline'[q] = deadline[q]
    BY <1>4 DEF EnterLate, IInv, TypeOK
  <2> QED BY <1>3, <1>4, <2>1 DEF EnterLate, mainVars
<1>5. ASSUME NEW p \in Periodics, InsertLate(p) PROVE WaitInv'
  BY <1>3, <1>5 DEF InsertLate, mainVars
<1>6. CASE Tick \/ UNCHANGED vars
  BY <1>3, <1>6 DEF Tick, mainVars, pVars, vars
<1>7. CASE \/ Start \/ CheckEmpty \/ Check \/ RunPeriodic \/ ScanDone \/ Doze \/ Wake
           \/ Interrupt \/ Reload \/ \E p \in Periodics : Register(p)
  BY <1>7 DEF Start, CheckEmpty, Check, RunPeriodic, ScanDone, Doze, Wake, Interrupt, Reload,
              Register, Sleep, mainVars
<1> QED BY <1>1, <1>2, <1>4, <1>5, <1>6, <1>7 DEF Next, Main

LEMMA AlwaysIInv == Spec => [](IInv /\ WaitInv)
<1>1. Init => IInv /\ WaitInv
  BY InitIInv DEF Init, WaitInv
<1>2. IInv /\ WaitInv /\ [Next]_vars => (IInv /\ WaitInv)'
  BY NextIInv, NextWaitInv
<1> QED BY <1>1, <1>2, PTL DEF Spec

(* Every variable has its type: in particular a deadline never gets below   *)
(* zero and the scan stands on a periodic or past the end of the list.      *)
THEOREM TypeCorrect == Spec => []TypeOK
BY AlwaysIInv, PTL DEF IInv

(* Whatever is registered, by whom and when, and however periodic_main      *)
(* moves entries about, the list is in the order of the deadlines and holds *)
(* no entry twice.                                                          *)
THEOREM ListStaysSorted == Spec => []Sorted
BY AlwaysIInv, PTL DEF IInv

(* periodic.c:129, 80: calls do not drift.  However late each call was, a   *)
(* deadline is one period after the registration and one more for every     *)
(* call; an entry is in one place of the list, and not there while its      *)
(* registration is under way.                                               *)
THEOREM DeadlinesCountRuns == Spec => []Books
BY AlwaysIInv, PTL DEF IInv

(* README:135-139: a periodic is never ahead of its time, however late      *)
(* periodic_main is and however many calls it makes up for at once.         *)
THEOREM NoCallBeforeItsTime == Spec => []NeverAhead
BY AlwaysIInv, PTL DEF IInv

(* The step into the sleep.                                                 *)
LEMMA SleepStep ==
  ASSUME IInv, WaitInv, Next, pc # "sleep", pc' = "sleep", NEW p \in seen'
  PROVE  wake' <= deadline[p] + (now - tv)
<1>1. CheckEmpty \/ Doze
  BY DEF Next, Main, Start, Check, RunPeriodic, ScanDone, Settle, ReadClock, Wake, Interrupt,
         Reload, Tick, Register, EnterLate, InsertLate, mainVars
<1>2. CASE CheckEmpty
  BY <1>2 DEF CheckEmpty
<1>3. CASE Doze
  <2>1. p \in seen /\ tp \in seen /\ seen \subseteq Periodics /\ deadline[tp] <= deadline[p]
    BY <1>3 DEF Doze, WaitInv, IInv, TypeOK
  <2>2. deadline[p] \in Nat /\ deadline[tp] \in Nat /\ now \in Nat /\ tv \in Nat
    BY <2>1 DEF IInv, TypeOK
  <2>3. wake' = now + (deadline[tp] - tv)
    BY <1>3 DEF Doze, Sleep
  <2> QED BY <2>1, <2>2, <2>3
<1> QED BY <1>1, <1>2, <1>3

(* periodic_main goes to sleep until the first deadline of the list, and    *)
(* because the list is sorted that is the least one: it sleeps past the     *)
(* deadline of an entry it saw by no more than the time between its look at *)
(* the clock and its sleep (periodic.c:59-63).                              *)
THEOREM NeverSleepsPastADeadline == Spec => SleepsInTime
<1>1. IInv /\ WaitInv /\ [Next]_vars =>
        [pc # "sleep" /\ pc' = "sleep" /\ fault' = "none"
           => \A p \in seen' : wake' <= deadline[p] + (now - tv)]_vars
  BY SleepStep
<1> QED BY <1>1, AlwaysIInv, PTL DEF Spec, SleepsInTime
=============================================================================
