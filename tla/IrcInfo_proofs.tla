---------------------------- MODULE IrcInfo_proofs ----------------------------
(* Theorems about IrcInfo, for any settings, users, channels and blocks: its *)
(* type invariant, that the keys of the hash table lead to blocks of their   *)
(* own, while the tables can follow the server that lists and keys agree and *)
(* nobody is shown modes he has not, and, whatever happens, that nobody is   *)
(* found where he is not, unless the module could not know.                  *)
EXTENDS IrcInfo, InductionLemmas, FiniteSetTheorems, SequenceTheorems, TLAPS

(***************************************************************************)
(* Lists of blocks.                                                        *)
(***************************************************************************)

(* No element of the sequence is there twice.                              *)
Once(l) == \A i, j \in 1 .. Len(l) : l[i] = l[j] => i = j

LEMMA SetOf ==
  ASSUME NEW X, NEW l \in Seq(X)
  PROVE  /\ Len(l) \in Nat /\ DOMAIN l = 1 .. Len(l)
         /\ \A i \in 1 .. Len(l) : l[i] \in X /\ l[i] \in ToSet(l)
         /\ \A x \in ToSet(l) : x \in X /\ \E i \in 1 .. Len(l) : l[i] = x
<1>1. Len(l) \in Nat /\ DOMAIN l = 1 .. Len(l) /\ \A i \in 1 .. Len(l) : l[i] \in X
  BY LenProperties, ElementOfSeq
<1> QED BY <1>1 DEF ToSet

(* The least of the indices that a set of them has.                        *)
LEMMA LeastIndex ==
  ASSUME NEW n \in Nat, NEW I \in SUBSET (1 .. n), I # {}
  PROVE  Min(I) \in I /\ \A k \in I : Min(I) <= k
<1>1. \E m \in I : \A k \in I : m <= k
  <2>1. I \in SUBSET Nat
    OBVIOUS
  <2> QED BY <2>1, LeastNat
<1> QED BY <1>1 DEF Min

LEMMA ConsList ==
  ASSUME NEW X, NEW l \in Seq(X), NEW b \in X
  PROVE  /\ <<b>> \o l \in Seq(X)
         /\ ToSet(<<b>> \o l) = {b} \cup ToSet(l)
         /\ Once(l) /\ b \notin ToSet(l) => Once(<<b>> \o l)
<1> DEFINE t == <<b>> \o l
           n == Len(l)
<1>1. /\ t \in Seq(X) /\ Len(t) = n + 1 /\ n \in Nat /\ t[1] = b
      /\ \A i \in 1 .. n : t[i + 1] = l[i]
  <2>1. <<b>> \in Seq(X) /\ Len(<<b>>) = 1 /\ n \in Nat /\ <<b>>[1] = b
    BY LenProperties
  <2>2. t \in Seq(X) /\ Len(t) = 1 + n
        /\ \A i \in 1 .. 1 + n : t[i] = IF i <= 1 THEN <<b>>[i] ELSE l[i - 1]
    BY <2>1, ConcatProperties
  <2>3. t[1] = b
    BY <2>1, <2>2
  <2>4. ASSUME NEW i \in 1 .. n PROVE t[i + 1] = l[i]
    <3>1. i + 1 \in 1 .. 1 + n /\ ~(i + 1 <= 1) /\ (i + 1) - 1 = i
      BY <2>1
    <3> QED BY <2>2, <3>1
  <2> QED BY <2>1, <2>2, <2>3, <2>4
<1> HIDE DEF t, n
<1>2. DOMAIN t = 1 .. n + 1 /\ DOMAIN l = 1 .. n
  BY <1>1, SetOf DEF n
<1>3. \A i \in 1 .. n + 1 : i = 1 \/ (i - 1 \in 1 .. n /\ t[i] = l[i - 1])
  <2> SUFFICES ASSUME NEW i \in 1 .. n + 1, i # 1 PROVE i - 1 \in 1 .. n /\ t[i] = l[i - 1]
    OBVIOUS
  <2>1. i - 1 \in 1 .. n /\ (i - 1) + 1 = i
    BY <1>1
  <2> QED BY <1>1, <2>1
<1>4. \A i \in 1 .. n : i + 1 \in 1 .. n + 1
  BY <1>1
<1>5. ToSet(t) = {b} \cup ToSet(l)
  <2>1. ASSUME NEW x \in ToSet(t) PROVE x \in {b} \cup ToSet(l)
    <3>1. PICK i \in 1 .. n + 1 : x = t[i]
      BY <1>2 DEF ToSet
    <3> QED BY <1>1, <1>2, <1>3, <3>1 DEF ToSet
  <2>2. b \in ToSet(t)
    <3>1. 1 \in 1 .. n + 1
      BY <1>1
    <3> QED BY <1>1, <1>2, <3>1 DEF ToSet
  <2>3. ASSUME NEW x \in ToSet(l) PROVE x \in ToSet(t)
    <3>1. PICK i \in 1 .. n : x = l[i]
      BY <1>2 DEF ToSet
    <3> QED BY <1>1, <1>2, <1>4, <3>1 DEF ToSet
  <2> QED BY <2>1, <2>2, <2>3
<1>6. ASSUME Once(l), b \notin ToSet(l) PROVE Once(t)
  <2>1. \A i \in 1 .. n : l[i] # b
    BY <1>2, <1>6 DEF ToSet
  <2>2. SUFFICES ASSUME NEW i \in 1 .. n + 1, NEW j \in 1 .. n + 1, t[i] = t[j] PROVE i = j
    BY <1>1 DEF Once
  <2>3. CASE i = 1 \/ j = 1
    BY <1>1, <1>3, <2>1, <2>2, <2>3
  <2>4. CASE i # 1 /\ j # 1
    <3>1. i - 1 \in 1 .. n /\ j - 1 \in 1 .. n /\ l[i - 1] = l[j - 1]
      BY <1>3, <2>2, <2>4
    <3>2. i - 1 = j - 1
      BY <1>6, <3>1 DEF Once, n
    <3> QED BY <3>2
  <2> QED BY <2>3, <2>4
<1> QED BY <1>1, <1>5, <1>6 DEF t

(* The list with the element at j left out.                                *)
LEMMA CutList ==
  ASSUME NEW X, NEW l \in Seq(X), NEW j \in 1 .. Len(l)
  PROVE  /\ RemoveAt(l, j) \in Seq(X)
         /\ ToSet(RemoveAt(l, j)) \subseteq ToSet(l)
         /\ \A x \in ToSet(l) : x # l[j] => x \in ToSet(RemoveAt(l, j))
         /\ Once(l) => Once(RemoveAt(l, j)) /\ l[j] \notin ToSet(RemoveAt(l, j))
<1> DEFINE t == RemoveAt(l, j)
           n == Len(l)
           At(i) == IF i < j THEN i ELSE i + 1
<1>0. n \in Nat /\ j \in Nat /\ 1 <= j /\ j <= n /\ DOMAIN l = 1 .. n
  BY SetOf
<1>1. /\ t \in Seq(X) /\ Len(t) = n - 1
      /\ \A i \in 1 .. n - 1 : t[i] = l[At(i)]
  <2> DEFINE u == SubSeq(l, 1, j - 1)
             v == SubSeq(l, j + 1, n)
  <2>1. u \in Seq(X) /\ Len(u) = j - 1 /\ \A i \in 1 .. j - 1 : u[i] = l[i]
    <3>1. \A i \in 1 .. j - 1 : i \in 1 .. n
      BY <1>0
    <3>2. u \in Seq(X) /\ Len(u) = (IF 1 <= j - 1 THEN (j - 1) - 1 + 1 ELSE 0)
          /\ \A i \in 1 .. (j - 1) - 1 + 1 : u[i] = l[1 + i - 1]
      BY <1>0, <3>1, SubSeqProperties
    <3>3. Len(u) = j - 1
      BY <1>0, <3>2
    <3>4. ASSUME NEW i \in 1 .. j - 1 PROVE u[i] = l[i]
      <4>1. i \in 1 .. (j - 1) - 1 + 1 /\ 1 + i - 1 = i
        BY <1>0
      <4> QED BY <3>2, <4>1
    <3> QED BY <3>2, <3>3, <3>4
  <2>2. v \in Seq(X) /\ Len(v) = n - j /\ \A i \in 1 .. n - j : v[i] = l[i + j]
    <3>1. \A i \in j + 1 .. n : i \in 1 .. n
      BY <1>0
    <3>2. v \in Seq(X) /\ Len(v) = (IF j + 1 <= n THEN n - (j + 1) + 1 ELSE 0)
          /\ \A i \in 1 .. n - (j + 1) + 1 : v[i] = l[(j + 1) + i - 1]
      BY <1>0, <3>1, SubSeqProperties
    <3>3. Len(v) = n - j
      <4>1. CASE j + 1 <= n
        <5>1. n - (j + 1) + 1 = n - j
          BY <1>0
        <5> QED BY <3>2, <4>1, <5>1
      <4>2. CASE ~(j + 1 <= n)
        <5>1. n - j = 0
          <6> HIDE DEF n
          <6> QED BY <1>0, <4>2
        <5> QED BY <3>2, <4>2, <5>1
      <4> QED BY <4>1, <4>2
    <3>4. ASSUME NEW i \in 1 .. n - j PROVE v[i] = l[i + j]
      <4>1. i \in 1 .. n - (j + 1) + 1 /\ (j + 1) + i - 1 = i + j
        BY <1>0
      <4> QED BY <3>2, <4>1
    <3> QED BY <3>2, <3>3, <3>4
  <2>3. t = u \o v
    BY DEF RemoveAt
  <2> HIDE DEF u, v, t
  <2>4. /\ t \in Seq(X) /\ Len(t) = (j - 1) + (n - j)
        /\ \A i \in 1 .. (j - 1) + (n - j) : t[i] = IF i <= j - 1 THEN u[i] ELSE v[i - (j - 1)]
    <3>1. /\ t \in Seq(X) /\ Len(t) = Len(u) + Len(v)
          /\ \A i \in 1 .. Len(u) + Len(v) : t[i] = IF i <= Len(u) THEN u[i] ELSE v[i - Len(u)]
      BY <2>1, <2>2, <2>3, ConcatProperties
    <3>2. Len(u) = j - 1 /\ Len(v) = n - j
      BY <2>1, <2>2
    <3> QED BY <3>1, <3>2
  <2>5. (j - 1) + (n - j) = n - 1
    BY <1>0
  <2>6. ASSUME NEW i \in 1 .. n - 1 PROVE t[i] = l[At(i)]
    <3>1. CASE i < j
      <4>1. i <= j - 1 /\ i \in 1 .. j - 1
        BY <1>0, <3>1
      <4> QED BY <2>1, <2>4, <2>5, <3>1, <4>1
    <3>2. CASE ~(i < j)
      <4>1. ~(i <= j - 1) /\ i - (j - 1) \in 1 .. n - j /\ (i - (j - 1)) + j = i + 1
        BY <1>0, <3>2
      <4> QED BY <2>2, <2>4, <2>5, <3>2, <4>1
    <3> QED BY <3>1, <3>2
  <2> QED BY <2>4, <2>5, <2>6
<1> HIDE DEF t
<1>2. /\ \A i \in 1 .. n - 1 : At(i) \in 1 .. n /\ At(i) # j
      /\ \A i, k \in 1 .. n - 1 : At(i) = At(k) => i = k
      /\ \A i \in 1 .. n : i # j => \E k \in 1 .. n - 1 : At(k) = i
  <2>1. \A i \in 1 .. n - 1 : At(i) \in 1 .. n /\ At(i) # j
    BY <1>0
  <2>2. \A i, k \in 1 .. n - 1 : At(i) = At(k) => i = k
    BY <1>0
  <2>3. ASSUME NEW i \in 1 .. n, i # j PROVE \E k \in 1 .. n - 1 : At(k) = i
    <3>1. CASE i < j
      <4>1. i \in 1 .. n - 1 /\ At(i) = i
        BY <1>0, <3>1
      <4> QED BY <4>1
    <3>2. CASE ~(i < j)
      <4>1. i - 1 \in 1 .. n - 1 /\ ~(i - 1 < j) /\ (i - 1) + 1 = i
        BY <1>0, <2>3, <3>2
      <4>2. At(i - 1) = i
        BY <4>1
      <4> QED BY <4>1, <4>2
    <3> QED BY <3>1, <3>2
  <2> QED BY <2>1, <2>2, <2>3
<1>3. DOMAIN t = 1 .. n - 1
  BY <1>1, SetOf
<1> HIDE DEF At
<1>4. ToSet(t) \subseteq ToSet(l)
  <2> HIDE DEF n
  <2> QED BY <1>0, <1>1, <1>2, <1>3 DEF ToSet
<1>5. ASSUME NEW x \in ToSet(l), x # l[j] PROVE x \in ToSet(t)
  <2> HIDE DEF n
  <2>1. PICK i \in 1 .. n : x = l[i]
    BY <1>0 DEF ToSet
  <2>2. PICK k \in 1 .. n - 1 : At(k) = i
    BY <1>2, <1>5, <2>1
  <2> QED BY <1>1, <1>3, <2>1, <2>2 DEF ToSet
<1>6. ASSUME Once(l) PROVE Once(t) /\ l[j] \notin ToSet(t)
  <2>0. \A i, k \in 1 .. n : l[i] = l[k] => i = k
    BY <1>6 DEF Once
  <2> HIDE DEF n
  <2>1. ASSUME NEW i \in 1 .. n - 1, NEW k \in 1 .. n - 1, t[i] = t[k] PROVE i = k
    BY <1>1, <1>2, <2>0, <2>1, SMTT(60)
  <2>2. \A i \in 1 .. n - 1 : t[i] # l[j]
    BY <1>0, <1>1, <1>2, <2>0
  <2> QED BY <1>1, <1>3, <2>1, <2>2 DEF Once, ToSet
<1> QED BY <1>1, <1>4, <1>5, <1>6 DEF t

(* The list in which the first a, if there is one, is replaced by b.        *)
LEMMA SwapList ==
  ASSUME NEW X, NEW l \in Seq(X), NEW a \in X, NEW b \in X
  PROVE  /\ Swap(l, a, b) \in Seq(X)
         /\ ToSet(Swap(l, a, b)) \subseteq ToSet(l) \cup {b}
         /\ a \in ToSet(l) => b \in ToSet(Swap(l, a, b))
         /\ a \notin ToSet(l) => Swap(l, a, b) = l
         /\ \A x \in ToSet(l) : x # a => x \in ToSet(Swap(l, a, b))
         /\ Once(l) /\ b \notin ToSet(l) => Once(Swap(l, a, b)) /\ a \notin ToSet(Swap(l, a, b))
<1> DEFINE t == Swap(l, a, b)
           n == Len(l)
           I == {i \in 1 .. n : l[i] = a}
           k == SelectInSeq(l, LAMBDA x : x = a)
<1>0. n \in Nat /\ DOMAIN l = 1 .. n
      /\ (\A i \in 1 .. n : l[i] \in X /\ l[i] \in ToSet(l))
      /\ \A x \in ToSet(l) : x \in X /\ \E i \in 1 .. n : l[i] = x
  BY SetOf
<1>1. CASE a \notin ToSet(l)
  <2>1. t = l
    BY <1>1 DEF Swap
  <2> QED BY <1>1, <2>1
<1>2. CASE a \in ToSet(l)
  <2>1. k \in 1 .. n /\ l[k] = a
    <3>1. k = IF I # {} THEN Min(I) ELSE 0
      BY DEF SelectInSeq
    <3>2. I # {} /\ I \in SUBSET (1 .. n)
      BY <1>0, <1>2
    <3>3. k = Min(I)
      <4> HIDE DEF I, k
      <4> QED BY <3>1, <3>2
    <3>4. Min(I) \in I
      <4> HIDE DEF I, k, n
      <4> QED BY <1>0, <3>2, LeastIndex
    <3> QED BY <3>3, <3>4
  <2>2. t = [l EXCEPT ![k] = b]
    BY <1>2 DEF Swap, ReplaceAt
  <2> HIDE DEF k, t, I
  <2>3. t \in Seq(X) /\ Len(t) = n /\ DOMAIN t = 1 .. n
    <3>1. t \in Seq(X) /\ Len(t) = n
      BY <1>0, <2>1, <2>2, ExceptSeq
    <3> QED BY <3>1, SetOf
  <2>4. t[k] = b /\ \A i \in 1 .. n : i # k => t[i] = l[i]
    BY <1>0, <2>1, <2>2
  <2> HIDE DEF n
  <2>5. ToSet(t) \subseteq ToSet(l) \cup {b}
    <3>1. \A i \in 1 .. n : t[i] \in ToSet(l) \cup {b}
      BY <1>0, <2>4
    <3> QED BY <2>3, <3>1 DEF ToSet
  <2>6. b \in ToSet(t)
    BY <2>1, <2>3, <2>4 DEF ToSet
  <2>7. \A x \in ToSet(l) : x # a => x \in ToSet(t)
    <3> SUFFICES ASSUME NEW x \in ToSet(l), x # a PROVE x \in ToSet(t)
      OBVIOUS
    <3>1. PICK i \in 1 .. n : l[i] = x
      BY <1>0
    <3>2. i # k
      BY <2>1, <3>1
    <3> QED BY <2>3, <2>4, <3>1, <3>2 DEF ToSet
  <2>8. ASSUME Once(l), b \notin ToSet(l) PROVE Once(t) /\ a \notin ToSet(t)
    <3>0. \A i, j \in 1 .. n : l[i] = l[j] => i = j
      BY <2>8 DEF Once, n
    <3>1. ASSUME NEW i \in 1 .. n, NEW j \in 1 .. n, t[i] = t[j] PROVE i = j
      <4>1. CASE i = k \/ j = k
        BY <1>0, <2>4, <2>8, <3>1, <4>1
      <4>2. CASE i # k /\ j # k
        BY <2>4, <3>0, <3>1, <4>2
      <4> QED BY <4>1, <4>2
    <3>2. b # a
      BY <1>2, <2>8
    <3>3. \A i \in 1 .. n : t[i] # a
      BY <2>1, <2>4, <3>0, <3>2
    <3> QED BY <2>3, <3>1, <3>3 DEF Once, ToSet
  <2> QED BY <1>2, <2>3, <2>5, <2>6, <2>7, <2>8 DEF t
<1> QED BY <1>1, <1>2

(***************************************************************************)
(* The tables, and the list of users that a channel has.                   *)
(***************************************************************************)
Entry == [chan : Chans, users : Seq(Blocks)]
Data == Blocks \cup {"absent", "null"}
Record == [live : BOOLEAN, nick : Nicks, modes : SUBSET Modes]
Tables == [clist : Seq(Entry), tab : [Chans -> [Nicks -> Data]], heap : [Blocks -> Record],
           err : BOOLEAN, fault : {"none", "undefined", "crash"}]

(* The users of the first entry of the channel.                             *)
Listing(s, c) == IF ListOf(s, c) = 0 THEN <<>> ELSE UserList(s, c)

SameChans(s, t) == /\ Len(t.clist) = Len(s.clist)
                   /\ \A i \in 1 .. Len(s.clist) : t.clist[i].chan = s.clist[i].chan

LEMMA ClistIs ==
  ASSUME NEW s \in Tables
  PROVE  /\ s.clist \in Seq(Entry) /\ Len(s.clist) \in Nat /\ DOMAIN s.clist = 1 .. Len(s.clist)
         /\ \A i \in 1 .. Len(s.clist) :
              s.clist[i] \in Entry /\ s.clist[i].chan \in Chans /\ s.clist[i].users \in Seq(Blocks)
<1>1. s.clist \in Seq(Entry)
  BY DEF Tables
<1>2. Len(s.clist) \in Nat /\ DOMAIN s.clist = 1 .. Len(s.clist)
      /\ \A i \in 1 .. Len(s.clist) : s.clist[i] \in Entry
  BY <1>1, LenProperties, ElementOfSeq
<1>3. \A e \in Entry : e.chan \in Chans /\ e.users \in Seq(Blocks)
  BY DEF Entry
<1> QED BY <1>1, <1>2, <1>3

LEMMA ListOfIs ==
  ASSUME NEW s \in Tables, NEW c
  PROVE  \/ ListOf(s, c) = 0 /\ \A i \in 1 .. Len(s.clist) : s.clist[i].chan # c
         \/ /\ ListOf(s, c) \in 1 .. Len(s.clist) /\ s.clist[ListOf(s, c)].chan = c
            /\ \A i \in 1 .. Len(s.clist) : s.clist[i].chan = c => ListOf(s, c) <= i
<1> DEFINE n == Len(s.clist)
           I == {i \in 1 .. n : s.clist[i].chan = c}
<1>1. n \in Nat
  BY ClistIs
<1>2. CASE I = {}
  <2>1. ~(\E i \in 1 .. n : s.clist[i].chan = c)
    BY <1>2
  <2> QED BY <2>1 DEF ListOf
<1>3. CASE I # {}
  <2>1. \E i \in 1 .. n : s.clist[i].chan = c
    BY <1>3
  <2>2. ListOf(s, c) = SelectInSeq(s.clist, LAMBDA e : e.chan = c)
    BY <2>1 DEF ListOf
  <2>3. ListOf(s, c) = IF I # {} THEN Min(I) ELSE 0
    BY <2>2 DEF SelectInSeq
  <2>4. I \in SUBSET (1 .. n)
    OBVIOUS
  <2>5. Min(I) \in I /\ \A k \in I : Min(I) <= k
    <3> HIDE DEF I, n
    <3> QED BY <1>1, <1>3, <2>4, LeastIndex
  <2>6. ListOf(s, c) = Min(I)
    <3> HIDE DEF I
    <3> QED BY <1>3, <2>3
  <2>7. ListOf(s, c) \in I /\ \A k \in I : ListOf(s, c) <= k
    BY <2>5, <2>6
  <2> QED BY <2>7
<1> QED BY <1>2, <1>3

LEMMA SameList ==
  ASSUME NEW s \in Tables, NEW t \in Tables, SameChans(s, t), NEW c
  PROVE  ListOf(t, c) = ListOf(s, c)
<1> DEFINE n == Len(s.clist)
           j == ListOf(s, c)
           k == ListOf(t, c)
<1>1. n \in Nat /\ Len(t.clist) = n /\ \A i \in 1 .. n : t.clist[i].chan = s.clist[i].chan
  BY ClistIs DEF SameChans
<1>2. \/ j = 0 /\ \A i \in 1 .. n : s.clist[i].chan # c
      \/ j \in 1 .. n /\ s.clist[j].chan = c /\ \A i \in 1 .. n : s.clist[i].chan = c => j <= i
  BY ListOfIs
<1>3. \/ k = 0 /\ \A i \in 1 .. n : t.clist[i].chan # c
      \/ k \in 1 .. n /\ t.clist[k].chan = c /\ \A i \in 1 .. n : t.clist[i].chan = c => k <= i
  BY <1>1, ListOfIs
<1> HIDE DEF j, k, n
<1>4. j = k
  BY <1>1, <1>2, <1>3
<1> QED BY <1>4 DEF j, k

LEMMA ListingIs ==
  ASSUME NEW s \in Tables, NEW c
  PROVE  /\ Listing(s, c) \in Seq(Blocks)
         /\ ListOf(s, c) = 0 => Listing(s, c) = <<>>
         /\ ListOf(s, c) # 0 => /\ ListOf(s, c) \in 1 .. Len(s.clist)
                                /\ s.clist[ListOf(s, c)].chan = c
                                /\ Listing(s, c) = s.clist[ListOf(s, c)].users
                                /\ Listing(s, c) = UserList(s, c)
<1>1. ListOf(s, c) # 0 => ListOf(s, c) \in 1 .. Len(s.clist) /\ s.clist[ListOf(s, c)].chan = c
  BY ListOfIs
<1>2. ListOf(s, c) # 0 => s.clist[ListOf(s, c)].users \in Seq(Blocks)
  BY <1>1, ClistIs
<1>3. <<>> \in Seq(Blocks)
  BY EmptySeq
<1> QED BY <1>1, <1>2, <1>3 DEF Listing, UserList

(* Tables with the same list of channels.                                   *)
LEMMA SameListing ==
  ASSUME NEW s \in Tables, NEW t \in Tables, t.clist = s.clist
  PROVE  SameChans(s, t) /\ \A c : ListOf(t, c) = ListOf(s, c) /\ Listing(t, c) = Listing(s, c)
<1>1. SameChans(s, t)
  BY DEF SameChans
<1>2. ASSUME NEW c PROVE ListOf(t, c) = ListOf(s, c)
  BY <1>1, SameList
<1> QED BY <1>1, <1>2 DEF Listing, UserList

LEMMA WithListIs ==
  ASSUME NEW s \in Tables, NEW c, NEW list \in Seq(Blocks)
  PROVE  LET t == WithList(s, c, list)
         IN /\ t \in Tables /\ SameChans(s, t)
            /\ t.tab = s.tab /\ t.heap = s.heap /\ t.err = s.err /\ t.fault = s.fault
            /\ \A d : ListOf(t, d) = ListOf(s, d)
            /\ \A d : d # c => Listing(t, d) = Listing(s, d)
            /\ ListOf(s, c) # 0 => Listing(t, c) = list
            /\ ListOf(s, c) = 0 => Listing(t, c) = <<>> /\ t = s
<1> DEFINE t == WithList(s, c, list)
           j == ListOf(s, c)
           n == Len(s.clist)
<1>1. CASE j = 0
  <2>1. t = s
    BY <1>1 DEF WithList
  <2>2. Listing(s, c) = <<>>
    BY <1>1 DEF Listing
  <2> QED BY <1>1, <2>1, <2>2, SameListing
<1>2. CASE j # 0
  <2>1. /\ j \in 1 .. n /\ s.clist[j].chan = c /\ n \in Nat
        /\ \A i \in 1 .. n : s.clist[i] \in Entry /\ s.clist[i].users \in Seq(Blocks)
        /\ s.clist \in Seq(Entry)
    BY <1>2, ListingIs, ClistIs
  <2> DEFINE e == [s.clist[j] EXCEPT !.users = list]
             cl == [s.clist EXCEPT ![j] = e]
  <2>2. e \in Entry /\ e.chan = c /\ e.users = list
    BY <2>1 DEF Entry
  <2>3. cl \in Seq(Entry) /\ Len(cl) = n /\ \A i \in 1 .. n : cl[i] = IF i = j THEN e ELSE s.clist[i]
    <3> HIDE DEF e
    <3> QED BY <2>1, <2>2, ExceptSeq
  <2>4. t = [s EXCEPT !.clist = cl]
    BY <1>2 DEF WithList
  <2>5. t \in Tables /\ t.clist = cl
        /\ t.tab = s.tab /\ t.heap = s.heap /\ t.err = s.err /\ t.fault = s.fault
    <3> HIDE DEF cl, t
    <3> QED BY <2>3, <2>4 DEF Tables
  <2> HIDE DEF t, cl, e
  <2>6. SameChans(s, t)
    BY <2>1, <2>2, <2>3, <2>5 DEF SameChans
  <2>7. \A d : ListOf(t, d) = ListOf(s, d)
    BY <2>5, <2>6, SameList
  <2>8. Listing(t, c) = list
    BY <1>2, <2>1, <2>2, <2>3, <2>5, <2>7, ListingIs
  <2>9. ASSUME NEW d, d # c PROVE Listing(t, d) = Listing(s, d)
    <3>1. ListOf(t, d) = ListOf(s, d)
      BY <2>7
    <3>2. CASE ListOf(s, d) = 0
      BY <3>1, <3>2 DEF Listing
    <3>3. CASE ListOf(s, d) # 0
      <4>1. ListOf(s, d) \in 1 .. n /\ s.clist[ListOf(s, d)].chan = d
        BY <3>3, ListingIs
      <4>2. cl[ListOf(s, d)] = s.clist[ListOf(s, d)]
        BY <2>1, <2>3, <2>9, <4>1
      <4> QED BY <2>5, <3>1, <3>3, <4>2 DEF Listing, UserList
    <3> QED BY <3>2, <3>3
  <2> QED BY <1>2, <2>5, <2>6, <2>7, <2>8, <2>9 DEF t
<1> QED BY <1>1, <1>2

(***************************************************************************)
(* What the functions of structs.c do to the tables.                       *)
(***************************************************************************)
LEMMA BlankIs == Blank \in Record /\ ~Blank.live /\ Blank.modes = {}
BY DEF Blank, Record, Nicks

LEMMA TablesAre ==
  ASSUME NEW s \in Tables
  PROVE  /\ s.tab \in [Chans -> [Nicks -> Data]] /\ s.heap \in [Blocks -> Record]
         /\ s.err \in BOOLEAN /\ s.fault \in {"none", "undefined", "crash"}
         /\ \A b \in Blocks : /\ s.heap[b].live \in BOOLEAN /\ s.heap[b].nick \in Nicks
                              /\ s.heap[b].modes \subseteq Modes
         /\ \A c \in Chans : s.tab[c] \in [Nicks -> Data]
         /\ \A c \in Chans, n \in Nicks : s.tab[c][n] \in Data
<1>1. s.tab \in [Chans -> [Nicks -> Data]] /\ s.heap \in [Blocks -> Record]
      /\ s.err \in BOOLEAN /\ s.fault \in {"none", "undefined", "crash"}
  BY DEF Tables
<1>2. \A b \in Blocks : s.heap[b] \in Record
  BY <1>1
<1>3. \A b \in Blocks : /\ s.heap[b].live \in BOOLEAN /\ s.heap[b].nick \in Nicks
                        /\ s.heap[b].modes \subseteq Modes
  BY <1>2 DEF Record
<1> QED BY <1>1, <1>3

(* Neither "absent" nor "null" is a block.                                  *)
LEMMA NotBlocks == "absent" \notin Blocks /\ "null" \notin Blocks
BY InfoAssumption

(* Reading may only change the fault, and does not if all is live.          *)
LEMMA ReadingIs ==
  ASSUME NEW s \in Tables, NEW bs \in SUBSET Blocks
  PROVE  LET t == Reading(s, bs)
         IN /\ t \in Tables /\ t.clist = s.clist /\ t.tab = s.tab /\ t.heap = s.heap /\ t.err = s.err
            /\ t.fault = s.fault \/ (\E b \in bs : ~s.heap[b].live)
<1>1. CASE s.fault = "none" /\ \E b \in bs : ~s.heap[b].live
  <2>1. Reading(s, bs) = [s EXCEPT !.fault = "undefined"]
    BY <1>1 DEF Reading
  <2> QED BY <1>1, <2>1 DEF Tables
<1>2. CASE ~(s.fault = "none" /\ \E b \in bs : ~s.heap[b].live)
  BY <1>2 DEF Reading
<1> QED BY <1>1, <1>2

LEMMA FreeIs ==
  ASSUME NEW s \in Tables, NEW b \in Blocks
  PROVE  LET t == FreeUser(s, b)
         IN /\ t \in Tables /\ t.clist = s.clist /\ t.tab = s.tab /\ t.err = s.err
            /\ t.heap = [s.heap EXCEPT ![b] = Blank]
            /\ t.fault = s.fault \/ ~s.heap[b].live
<1> DEFINE r == Reading(s, {b})
<1>1. /\ r \in Tables /\ r.clist = s.clist /\ r.tab = s.tab /\ r.heap = s.heap /\ r.err = s.err
      /\ r.fault = s.fault \/ ~s.heap[b].live
  <2>1. {b} \in SUBSET Blocks
    OBVIOUS
  <2> QED BY <2>1, ReadingIs
<1>2. FreeUser(s, b) = [r EXCEPT !.heap[b] = Blank]
  BY DEF FreeUser
<1> HIDE DEF r
<1>3. [r.heap EXCEPT ![b] = Blank] \in [Blocks -> Record]
  BY <1>1, BlankIs, TablesAre
<1> QED BY <1>1, <1>2, <1>3 DEF Tables

LEMMA MakeIs ==
  ASSUME setting \in Settings, NEW s \in Tables, FreeBlocks(s) # {}, NEW n \in Nicks
  PROVE  LET t == MakeUser(s, n)
             b == NewBlock(s)
         IN /\ b \in Blocks /\ b \in FreeBlocks(s) /\ ~s.heap[b].live
            /\ t \in Tables /\ t.clist = s.clist /\ t.tab = s.tab /\ t.err = s.err
            /\ t.heap = [s.heap EXCEPT ![b] = [live |-> TRUE, nick |-> n, modes |-> {}]]
            /\ t.fault = s.fault
<1> DEFINE b == NewBlock(s)
           u == [live |-> TRUE, nick |-> n, modes |-> {}]
<1>1. b \in FreeBlocks(s)
  BY DEF NewBlock
<1>2. setting.blocks \subseteq Blocks
  BY InfoAssumption
<1>3. b \in Blocks /\ ~s.heap[b].live
  BY <1>1, <1>2 DEF FreeBlocks
<1>4. MakeUser(s, n) = [s EXCEPT !.heap[b] = u]
  BY DEF MakeUser
<1>5. [s.heap EXCEPT ![b] = u] \in [Blocks -> Record]
  <2>1. u \in Record
    BY DEF Record
  <2> HIDE DEF b, u
  <2> QED BY <1>3, <2>1, TablesAre
<1> HIDE DEF b, u
<1>6. /\ MakeUser(s, n) \in Tables /\ MakeUser(s, n).clist = s.clist /\ MakeUser(s, n).tab = s.tab
      /\ MakeUser(s, n).err = s.err /\ MakeUser(s, n).heap = [s.heap EXCEPT ![b] = u]
      /\ MakeUser(s, n).fault = s.fault
  BY <1>4, <1>5 DEF Tables
<1> QED BY <1>1, <1>3, <1>6 DEF b, u

(* The tables with other data of one key.                                   *)
LEMMA KeyIs ==
  ASSUME NEW s \in Tables, NEW c \in Chans, NEW n \in Nicks, NEW v \in Data
  PROVE  LET t == [s EXCEPT !.tab[c][n] = v]
         IN /\ t \in Tables /\ t.clist = s.clist /\ t.heap = s.heap /\ t.err = s.err /\ t.fault = s.fault
            /\ t.tab = [s.tab EXCEPT ![c][n] = v]
<1>1. [s.tab EXCEPT ![c][n] = v] \in [Chans -> [Nicks -> Data]]
  BY TablesAre
<1> QED BY <1>1 DEF Tables

(* add_user_info takes s to t.                                              *)
Added(s, c, b, append, t) ==
  LET n == s.heap[b].nick
      old == s.tab[c][n]
  IN /\ t \in Tables /\ SameChans(s, t)
     /\ \A d : d # c => Listing(t, d) = Listing(s, d)
     /\ old = b => t = s
     /\ old \in Blocks /\ old # b =>
          /\ t.tab = [s.tab EXCEPT ![c][n] = b]
          /\ t.heap = [s.heap EXCEPT ![old] = Blank]
          /\ t.err = s.err
          /\ t.fault = s.fault \/ ~s.heap[old].live
          /\ Listing(t, c) = Swap(Listing(s, c), old, b)
     /\ old \notin Blocks =>
          /\ t.tab = [s.tab EXCEPT ![c][n] = IF old = "absent" THEN b ELSE old]
          /\ t.heap = s.heap /\ t.err = FALSE /\ t.fault = s.fault
          /\ Listing(t, c) = IF append /\ ListOf(s, c) # 0 THEN <<b>> \o Listing(s, c)
                                                           ELSE Listing(s, c)

LEMMA AddIs ==
  ASSUME NEW s \in Tables, NEW c \in Chans, NEW b \in Blocks, NEW append \in BOOLEAN
  PROVE  Added(s, c, b, append, AddUser(s, c, b, append))
<1> DEFINE n == s.heap[b].nick
           old == s.tab[c][n]
           t == AddUser(s, c, b, append)
<1>0. n \in Nicks /\ old \in Data /\ "absent" \notin Blocks /\ Listing(s, c) \in Seq(Blocks)
  BY TablesAre, NotBlocks, ListingIs
<1>1. CASE old = b
  <2>1. t = s
    BY <1>1 DEF AddUser
  <2>2. SameChans(s, s)
    BY SMTT(60) DEF SameChans
  <2> QED BY <1>0, <1>1, <2>1, <2>2 DEF Added
<1>2. CASE old \in Blocks /\ old # b
  <2> DEFINE w == WithList(s, c, Swap(UserList(s, c), old, b))
             k == [w EXCEPT !.tab[c][n] = b]
  <2>1. t = FreeUser(k, old)
    BY <1>2, SMTT(60) DEF AddUser
  <2>2. /\ w \in Tables /\ SameChans(s, w) /\ w.tab = s.tab /\ w.heap = s.heap /\ w.err = s.err
        /\ w.fault = s.fault /\ (\A d : d # c => Listing(w, d) = Listing(s, d))
        /\ Listing(w, c) = Swap(Listing(s, c), old, b)
    <3>1. Swap(Listing(s, c), old, b) \in Seq(Blocks)
      <4> HIDE DEF old
      <4> QED BY <1>0, <1>2, SwapList
    <3>2. CASE ListOf(s, c) # 0
      <4>1. UserList(s, c) = Listing(s, c)
        BY <3>2, ListingIs
      <4>2. w = WithList(s, c, Swap(Listing(s, c), old, b))
        BY <4>1
      <4> HIDE DEF w, old
      <4> QED BY <3>1, <3>2, <4>2, WithListIs
    <3>3. CASE ListOf(s, c) = 0
      <4>1. w = s
        BY <3>3 DEF WithList
      <4>2. Listing(s, c) = <<>> /\ SameChans(s, s)
        BY <3>3 DEF Listing, SameChans
      <4>3. old \notin ToSet(<<>>)
        <5>1. <<>> \in Seq(Blocks) /\ Len(<<>>) = 0
          BY EmptySeq
        <5>2. ToSet(<<>>) = {}
          BY <5>1 DEF ToSet
        <5> QED BY <5>2
      <4>4. Swap(<<>>, old, b) = <<>>
        BY <4>3 DEF Swap
      <4> HIDE DEF w, old
      <4> QED BY <4>1, <4>2, <4>4
    <3> QED BY <3>2, <3>3
  <2> HIDE DEF w, t
  <2>3. /\ k \in Tables /\ k.clist = w.clist /\ k.heap = w.heap /\ k.err = w.err /\ k.fault = w.fault
        /\ k.tab = [w.tab EXCEPT ![c][n] = b]
    <3> HIDE DEF n
    <3>1. b \in Data
      BY DEF Data
    <3> QED BY <1>0, <2>2, <3>1, KeyIs
  <2> HIDE DEF k, n, old
  <2>4. /\ t \in Tables /\ t.clist = k.clist /\ t.tab = k.tab /\ t.err = k.err
        /\ t.heap = [k.heap EXCEPT ![old] = Blank]
        /\ t.fault = k.fault \/ ~k.heap[old].live
    BY <1>2, <2>1, <2>3, FreeIs
  <2>5. t.clist = w.clist
    BY <2>3, <2>4
  <2>6. \A d : Listing(t, d) = Listing(w, d)
    BY <2>2, <2>4, <2>5, SameListing
  <2>7. SameChans(s, t)
    BY <2>2, <2>5 DEF SameChans
  <2>8. /\ t.tab = [s.tab EXCEPT ![c][n] = b] /\ t.heap = [s.heap EXCEPT ![old] = Blank]
        /\ t.err = s.err /\ (t.fault = s.fault \/ ~s.heap[old].live)
    BY <2>2, <2>3, <2>4
  <2>9. (\A d : d # c => Listing(t, d) = Listing(s, d)) /\ Listing(t, c) = Swap(Listing(s, c), old, b)
    BY <2>2, <2>6, SMTT(60)
  <2> QED BY <1>2, <2>4, <2>7, <2>8, <2>9, ZenonT(60) DEF t, n, old, Added
<1>3. CASE old \notin Blocks
  <2> DEFINE w == IF append THEN WithList(s, c, <<b>> \o UserList(s, c)) ELSE s
             v == IF old = "absent" THEN b ELSE old
             k == [w EXCEPT !.tab[c][n] = v]
  <2>1. t = [k EXCEPT !.err = FALSE]
    <3>1. old # b
      BY <1>3
    <3> QED BY <1>3, <3>1 DEF AddUser
  <2>2. /\ w \in Tables /\ SameChans(s, w) /\ w.tab = s.tab /\ w.heap = s.heap /\ w.err = s.err
        /\ w.fault = s.fault /\ (\A d : d # c => Listing(w, d) = Listing(s, d))
        /\ Listing(w, c) = IF append /\ ListOf(s, c) # 0 THEN <<b>> \o Listing(s, c) ELSE Listing(s, c)
    <3>1. CASE append /\ ListOf(s, c) # 0
      <4>1. UserList(s, c) = Listing(s, c)
        BY <3>1, ListingIs
      <4>2. w = WithList(s, c, <<b>> \o Listing(s, c))
        BY <3>1, <4>1
      <4>3. <<b>> \o Listing(s, c) \in Seq(Blocks)
        BY <1>0, ConsList
      <4> DEFINE q == <<b>> \o Listing(s, c)
      <4>4. w = WithList(s, c, q) /\ q \in Seq(Blocks)
        BY <4>2, <4>3
      <4> HIDE DEF w, q
      <4>5. /\ w \in Tables /\ SameChans(s, w) /\ w.tab = s.tab /\ w.heap = s.heap /\ w.err = s.err
            /\ w.fault = s.fault /\ (\A d : d # c => Listing(w, d) = Listing(s, d))
            /\ Listing(w, c) = q
        BY <3>1, <4>4, WithListIs
      <4> QED BY <3>1, <4>5 DEF q
    <3>2. CASE ~(append /\ ListOf(s, c) # 0)
      <4>1. w = s
        BY <3>2 DEF WithList
      <4>2. SameChans(s, s)
        BY DEF SameChans
      <4> HIDE DEF w
      <4> QED BY <3>2, <4>1, <4>2
    <3> QED BY <3>1, <3>2
  <2>3. v \in Data
    BY <1>0 DEF Data
  <2> HIDE DEF w, v, t
  <2>4. /\ k \in Tables /\ k.clist = w.clist /\ k.heap = w.heap /\ k.err = w.err /\ k.fault = w.fault
        /\ k.tab = [w.tab EXCEPT ![c][n] = v]
    <3> HIDE DEF n
    <3> QED BY <1>0, <2>2, <2>3, KeyIs
  <2> HIDE DEF k, n, old
  <2>5. /\ t \in Tables /\ t.clist = w.clist /\ t.heap = s.heap /\ t.err = FALSE /\ t.fault = s.fault
        /\ t.tab = [s.tab EXCEPT ![c][n] = v]
    BY <2>1, <2>2, <2>4 DEF Tables
  <2>6. \A d : Listing(t, d) = Listing(w, d)
    BY <2>2, <2>5, SameListing
  <2>7. SameChans(s, t)
    BY <2>2, <2>5 DEF SameChans
  <2>8. \A d : d # c => Listing(t, d) = Listing(s, d)
    BY <2>2, <2>6
  <2>9. Listing(t, c) = IF append /\ ListOf(s, c) # 0 THEN <<b>> \o Listing(s, c) ELSE Listing(s, c)
    BY <2>2, <2>6
  <2>10. old # b
    BY <1>3
  <2> QED BY <1>3, <2>5, <2>7, <2>8, <2>9, <2>10 DEF t, n, old, v, Added
<1> QED BY <1>1, <1>2, <1>3

(* rm_user_info with free: an entry of the list goes, if there is one for   *)
(* the nick, and the fault changes only if the list has a freed block or    *)
(* there is no list.                                                        *)
Removed(s, c, n, t) ==
  LET list == Listing(s, c)
  IN /\ t \in Tables /\ SameChans(s, t)
     /\ \A d : d # c => Listing(t, d) = Listing(s, d)
     /\ s.tab[c][n] = "absent" =>
          /\ t.clist = s.clist /\ t.tab = s.tab /\ t.heap = s.heap /\ t.fault = s.fault
          /\ t.err = FALSE
     /\ s.tab[c][n] # "absent" =>
          /\ t.tab = [s.tab EXCEPT ![c][n] = "null"] /\ t.err = s.err
          /\ ListOf(s, c) = 0 \/ t.fault = s.fault \/ \E b \in ToSet(list) : ~s.heap[b].live
          /\ \/ /\ t.clist = s.clist /\ t.heap = s.heap
                /\ ListOf(s, c) # 0 => \A i \in 1 .. Len(list) : s.heap[list[i]].nick # n
             \/ \E j \in 1 .. Len(list) :
                  /\ s.heap[list[j]].nick = n
                  /\ t.heap = [s.heap EXCEPT ![list[j]] = Blank]
                  /\ Listing(t, c) = RemoveAt(list, j)

LEMMA RmIs ==
  ASSUME NEW s \in Tables, NEW c \in Chans, NEW n \in Nicks
  PROVE  Removed(s, c, n, RmUser(s, c, n, TRUE))
<1> DEFINE list == Listing(s, c)
           t == RmUser(s, c, n, TRUE)
           r == [s EXCEPT !.tab[c][n] = "null"]
           I == {i \in 1 .. Len(list) : s.heap[list[i]].nick = n}
           j == SelectInSeq(list, LAMBDA b : s.heap[b].nick = n)
<1>0. /\ list \in Seq(Blocks) /\ Len(list) \in Nat /\ DOMAIN list = 1 .. Len(list)
      /\ \A i \in 1 .. Len(list) : list[i] \in Blocks /\ list[i] \in ToSet(list)
      /\ ToSet(list) \subseteq Blocks
  <2>1. list \in Seq(Blocks)
    BY ListingIs
  <2> HIDE DEF list
  <2> QED BY <2>1, SetOf
<1>1. /\ r \in Tables /\ r.clist = s.clist /\ r.heap = s.heap /\ r.err = s.err /\ r.fault = s.fault
      /\ r.tab = [s.tab EXCEPT ![c][n] = "null"]
      /\ SameChans(s, r) /\ \A d : ListOf(r, d) = ListOf(s, d) /\ Listing(r, d) = Listing(s, d)
  <2>1. "null" \in Data
    BY DEF Data
  <2>2. /\ r \in Tables /\ r.clist = s.clist /\ r.heap = s.heap /\ r.err = s.err /\ r.fault = s.fault
        /\ r.tab = [s.tab EXCEPT ![c][n] = "null"]
    BY <2>1, KeyIs
  <2> HIDE DEF r
  <2>3. SameChans(s, r) /\ \A d : ListOf(r, d) = ListOf(s, d) /\ Listing(r, d) = Listing(s, d)
    BY <2>2, SameListing
  <2> QED BY <2>2, <2>3
<1>2. CASE s.tab[c][n] = "absent"
  <2>1. t = [s EXCEPT !.err = FALSE]
    BY <1>2 DEF RmUser
  <2> HIDE DEF t
  <2>2. t \in Tables /\ t.clist = s.clist /\ t.tab = s.tab /\ t.heap = s.heap /\ t.fault = s.fault
        /\ t.err = FALSE
    BY <2>1 DEF Tables
  <2>3. SameChans(s, t) /\ \A d : Listing(t, d) = Listing(s, d)
    BY <2>2, SameListing
  <2> QED BY <1>2, <2>2, <2>3 DEF t, Removed
<1>3. CASE s.tab[c][n] # "absent" /\ ListOf(s, c) = 0
  <2>1. t = [r EXCEPT !.fault = "crash"]
    BY <1>3 DEF RmUser
  <2> HIDE DEF t, r
  <2>2. t \in Tables /\ t.clist = s.clist /\ t.tab = r.tab /\ t.heap = s.heap /\ t.err = s.err
    BY <1>1, <2>1 DEF Tables
  <2>3. SameChans(s, t) /\ \A d : Listing(t, d) = Listing(s, d)
    BY <2>2, SameListing
  <2> QED BY <1>1, <1>3, <2>2, <2>3 DEF t, Removed
<1>4. CASE s.tab[c][n] # "absent" /\ ListOf(s, c) # 0
  <2>0. UserList(s, c) = list
    BY <1>4, ListingIs
  <2>1. t = IF j = 0 THEN Reading(r, ToSet(list))
            ELSE FreeUser(Reading(WithList(r, c, RemoveAt(list, j)), ToSet(SubSeq(list, 1, j))), list[j])
    <3> HIDE DEF list
    <3> QED BY <1>4, <2>0 DEF RmUser
  <2>2. j = IF I # {} THEN Min(I) ELSE 0
    BY DEF SelectInSeq
  <2> HIDE DEF t, j, r, list
  <2>3. CASE I = {}
    <3>1. t = Reading(r, ToSet(list))
      BY <2>1, <2>2, <2>3
    <3>2. /\ t \in Tables /\ t.clist = r.clist /\ t.tab = r.tab /\ t.heap = r.heap /\ t.err = r.err
          /\ t.fault = r.fault \/ (\E b \in ToSet(list) : ~r.heap[b].live)
      BY <1>0, <1>1, <3>1, ReadingIs
    <3>3. SameChans(s, t) /\ \A d : Listing(t, d) = Listing(s, d)
      BY <1>1, <3>2, SameListing
    <3>4. \A i \in 1 .. Len(list) : s.heap[list[i]].nick # n
      BY <2>3
    <3> QED BY <1>1, <1>4, <3>2, <3>3, <3>4 DEF t, list, Removed
  <2>4. CASE I # {}
    <3>1. j \in 1 .. Len(list) /\ s.heap[list[j]].nick = n
      <4>1. I \in SUBSET (1 .. Len(list)) /\ j = Min(I)
        BY <2>2, <2>4
      <4>2. j \in I
        <5> HIDE DEF I
        <5> QED BY <1>0, <2>4, <4>1, LeastIndex
      <4> QED BY <4>2
    <3> DEFINE cut == RemoveAt(list, j)
               w == WithList(r, c, cut)
               seen == ToSet(SubSeq(list, 1, j))
               k == Reading(w, seen)
    <3>2. cut \in Seq(Blocks)
      BY <1>0, <3>1, CutList
    <3>3. seen \subseteq ToSet(list)
      <4>1. j \in Nat /\ 1 <= j /\ \A i \in 1 .. j : i \in 1 .. Len(list)
        BY <1>0, <3>1
      <4> DEFINE q == SubSeq(list, 1, j)
      <4>2. q \in Seq(Blocks) /\ Len(q) = (IF 1 <= j THEN j - 1 + 1 ELSE 0)
            /\ \A i \in 1 .. j - 1 + 1 : q[i] = list[1 + i - 1]
        BY <1>0, <4>1, SubSeqProperties
      <4> HIDE DEF q
      <4>3. Len(q) = j
        <5>1. j - 1 + 1 = j
          BY <4>1
        <5> QED BY <4>1, <4>2, <5>1
      <4>4. DOMAIN q = 1 .. j
        BY <4>2, <4>3, LenProperties
      <4>5. ASSUME NEW i \in 1 .. j PROVE q[i] = list[i]
        <5>1. 1 + i - 1 = i /\ i \in 1 .. j - 1 + 1
          BY <4>1
        <5> QED BY <4>2, <5>1
      <4>6. \A x \in ToSet(q) : x \in ToSet(list)
        BY <1>0, <4>1, <4>4, <4>5 DEF ToSet
      <4> QED BY <4>6 DEF q
    <3>4. t = FreeUser(k, list[j])
      <4>1. j # 0
        BY <1>0, <3>1
      <4> QED BY <2>1, <4>1
    <3> HIDE DEF cut
    <3>5. /\ w \in Tables /\ SameChans(r, w) /\ w.tab = r.tab /\ w.heap = r.heap /\ w.err = r.err
          /\ w.fault = r.fault /\ (\A d : d # c => Listing(w, d) = Listing(r, d))
          /\ Listing(w, c) = cut
      BY <1>1, <1>4, <3>2, WithListIs
    <3> HIDE DEF w, seen
    <3>6. /\ k \in Tables /\ k.clist = w.clist /\ k.tab = w.tab /\ k.heap = w.heap /\ k.err = w.err
          /\ k.fault = w.fault \/ (\E b \in seen : ~w.heap[b].live)
      <4>1. seen \in SUBSET Blocks
        BY <1>0, <3>3
      <4> QED BY <3>5, <4>1, ReadingIs
    <3> HIDE DEF k
    <3>7. list[j] \in Blocks /\ list[j] \in ToSet(list)
      BY <1>0, <3>1
    <3>8. /\ t \in Tables /\ t.clist = k.clist /\ t.tab = k.tab /\ t.err = k.err
          /\ t.heap = [k.heap EXCEPT ![list[j]] = Blank]
          /\ t.fault = k.fault \/ ~k.heap[list[j]].live
      BY <3>4, <3>6, <3>7, FreeIs
    <3>9. \A d : Listing(t, d) = Listing(w, d)
      <4>1. t.clist = w.clist
        BY <3>6, <3>8
      <4> QED BY <3>5, <3>8, <4>1, SameListing
    <3>10. SameChans(s, t)
      <4>1. t.clist = w.clist
        BY <3>6, <3>8
      <4> QED BY <1>1, <3>5, <4>1 DEF SameChans
    <3>11. t.fault = s.fault \/ \E b \in ToSet(list) : ~s.heap[b].live
      BY <1>1, <3>3, <3>5, <3>6, <3>7, <3>8
    <3>12. t.heap = [s.heap EXCEPT ![list[j]] = Blank] /\ t.tab = r.tab /\ t.err = s.err
      BY <1>1, <3>5, <3>6, <3>8
    <3>13. (\A d : d # c => Listing(t, d) = Listing(s, d)) /\ Listing(t, c) = RemoveAt(list, j)
      BY <1>1, <3>5, <3>9 DEF cut
    <3> QED BY <1>1, <1>4, <3>1, <3>8, <3>10, <3>11, <3>12, <3>13 DEF t, list, Removed
  <2> QED BY <2>3, <2>4
<1> QED BY <1>2, <1>3, <1>4

(* get_user_info only touches errno, and reads the block of the key.        *)
Got(s, c, n, t) ==
  /\ t \in Tables /\ t.clist = s.clist /\ t.tab = s.tab /\ t.heap = s.heap
  /\ t.fault = s.fault \/ (s.tab[c][n] \in Blocks /\ ~s.heap[s.tab[c][n]].live)
  /\ FreeBlocks(t) = FreeBlocks(s) /\ NewBlock(t) = NewBlock(s)
  /\ \A d : ListOf(t, d) = ListOf(s, d) /\ Listing(t, d) = Listing(s, d)
  /\ SameChans(s, t)

LEMMA GetIs ==
  ASSUME NEW s \in Tables, NEW c \in Chans, NEW n \in Nicks
  PROVE  Got(s, c, n, GetUser(s, c, n))
<1> DEFINE r == Reading(s, {s.tab[c][n]} \cap Blocks)
           t == GetUser(s, c, n)
<1>1. /\ r \in Tables /\ r.clist = s.clist /\ r.tab = s.tab /\ r.heap = s.heap
      /\ r.fault = s.fault \/ (s.tab[c][n] \in Blocks /\ ~s.heap[s.tab[c][n]].live)
  <2>1. ({s.tab[c][n]} \cap Blocks) \in SUBSET Blocks
    OBVIOUS
  <2> QED BY <2>1, ReadingIs
<1>2. t = [r EXCEPT !.err = r.err \/ s.tab[c][n] = "absent"]
  BY DEF GetUser
<1> HIDE DEF r, t
<1>3. (r.err \/ s.tab[c][n] = "absent") \in BOOLEAN
  OBVIOUS
<1>4. t \in Tables /\ t.clist = r.clist /\ t.tab = r.tab /\ t.heap = r.heap /\ t.fault = r.fault
  BY <1>1, <1>2, <1>3 DEF Tables
<1>5. FreeBlocks(t) = FreeBlocks(s)
  BY <1>1, <1>4 DEF FreeBlocks
<1>6. NewBlock(t) = NewBlock(s)
  BY <1>5 DEF NewBlock
<1>7. SameChans(s, t) /\ \A d : ListOf(t, d) = ListOf(s, d) /\ Listing(t, d) = Listing(s, d)
  BY <1>1, <1>4, SameListing
<1> QED BY <1>1, <1>4, <1>5, <1>6, <1>7 DEF t, Got

(* on_join: make_user_info and add_user_info.                               *)
Joined(s, c, n, t) ==
  LET b == NewBlock(s)
      old == s.tab[c][n]
      made == [s.heap EXCEPT ![b] = [live |-> TRUE, nick |-> n, modes |-> {}]]
  IN /\ b \in Blocks /\ b \in FreeBlocks(s) /\ ~s.heap[b].live
     /\ t \in Tables /\ SameChans(s, t)
     /\ \A d : d # c => Listing(t, d) = Listing(s, d)
     /\ old = b => t.tab = s.tab /\ t.heap = made /\ Listing(t, c) = Listing(s, c)
     /\ old \in Blocks /\ old # b =>
          /\ t.tab = [s.tab EXCEPT ![c][n] = b]
          /\ t.heap = [made EXCEPT ![old] = Blank]
          /\ t.fault = s.fault \/ ~s.heap[old].live
          /\ Listing(t, c) = Swap(Listing(s, c), old, b)
     /\ old \notin Blocks =>
          /\ t.tab = [s.tab EXCEPT ![c][n] = IF old = "absent" THEN b ELSE old]
          /\ t.heap = made /\ t.fault = s.fault
          /\ Listing(t, c) = IF ListOf(s, c) # 0 THEN <<b>> \o Listing(s, c) ELSE Listing(s, c)

LEMMA JoinIs ==
  ASSUME setting \in Settings, NEW s \in Tables, FreeBlocks(s) # {}, NEW c \in Chans, NEW n \in Nicks
  PROVE  Joined(s, c, n, OnJoin(s, c, n))
<1> DEFINE b == NewBlock(s)
           old == s.tab[c][n]
           u == [live |-> TRUE, nick |-> n, modes |-> {}]
           made == [s.heap EXCEPT ![b] = u]
           m == MakeUser(s, n)
           t == OnJoin(s, c, n)
<1>1. /\ b \in Blocks /\ b \in FreeBlocks(s) /\ ~s.heap[b].live
      /\ m \in Tables /\ m.clist = s.clist /\ m.tab = s.tab /\ m.err = s.err
      /\ m.heap = made /\ m.fault = s.fault
  BY MakeIs
<1>2. t = AddUser(m, c, b, TRUE)
  BY DEF OnJoin
<1>3. s.heap \in [Blocks -> Record] /\ u.nick = n
  BY TablesAre
<1> HIDE DEF b, m, t, u
<1>4. made[b] = u /\ \A x \in Blocks : x # b => made[x] = s.heap[x]
  BY <1>1, <1>3
<1> HIDE DEF made
<1>5. m.heap[b].nick = n /\ m.tab[c][n] = old
  BY <1>1, <1>3, <1>4
<1>6. SameChans(s, m) /\ \A d : ListOf(m, d) = ListOf(s, d) /\ Listing(m, d) = Listing(s, d)
  BY <1>1, SameListing
<1> HIDE DEF old
<1>7. /\ t \in Tables /\ SameChans(m, t)
      /\ \A d : d # c => Listing(t, d) = Listing(m, d)
      /\ old = b => t = m
      /\ old \in Blocks /\ old # b =>
           /\ t.tab = [m.tab EXCEPT ![c][n] = b]
           /\ t.heap = [m.heap EXCEPT ![old] = Blank]
           /\ t.err = m.err
           /\ t.fault = m.fault \/ ~m.heap[old].live
           /\ Listing(t, c) = Swap(Listing(m, c), old, b)
      /\ old \notin Blocks =>
           /\ t.tab = [m.tab EXCEPT ![c][n] = IF old = "absent" THEN b ELSE old]
           /\ t.heap = m.heap /\ t.err = FALSE /\ t.fault = m.fault
           /\ Listing(t, c) = IF ListOf(m, c) # 0 THEN <<b>> \o Listing(m, c) ELSE Listing(m, c)
  <2>1. Added(m, c, b, TRUE, t)
    BY <1>1, <1>2, AddIs
  <2> QED BY <1>5, <2>1 DEF Added
<1>8. SameChans(s, t)
  BY <1>6, <1>7 DEF SameChans
<1>9. \A d : d # c => Listing(t, d) = Listing(s, d)
  BY <1>6, <1>7
<1>10. old = b => t.tab = s.tab /\ t.heap = made /\ Listing(t, c) = Listing(s, c)
  BY <1>1, <1>6, <1>7
<1>11. ASSUME old \in Blocks, old # b
       PROVE  /\ t.tab = [s.tab EXCEPT ![c][n] = b] /\ t.heap = [made EXCEPT ![old] = Blank]
              /\ t.fault = s.fault \/ ~s.heap[old].live
              /\ Listing(t, c) = Swap(Listing(s, c), old, b)
  BY <1>1, <1>4, <1>6, <1>7, <1>11
<1>12. ASSUME old \notin Blocks
       PROVE  /\ t.tab = [s.tab EXCEPT ![c][n] = IF old = "absent" THEN b ELSE old]
              /\ t.heap = made /\ t.fault = s.fault
              /\ Listing(t, c) = IF ListOf(s, c) # 0 THEN <<b>> \o Listing(s, c) ELSE Listing(s, c)
  BY <1>1, <1>6, <1>7, <1>12
<1> QED BY <1>1, <1>7, <1>8, <1>9, <1>10, <1>11, <1>12 DEF b, old, made, u, t, Joined

(* A handler takes one block of the free ones, at most.                     *)
LEMMA RoomLeft ==
  ASSUME setting \in Settings, NEW s, NEW t, NEW b, FreeBlocks(s) \ {b} \subseteq FreeBlocks(t)
  PROVE  /\ Cardinality(FreeBlocks(s)) \in Nat /\ Cardinality(FreeBlocks(t)) \in Nat
         /\ Cardinality(FreeBlocks(t)) >= Cardinality(FreeBlocks(s)) - 1
         /\ Cardinality(FreeBlocks(s)) >= 1 => FreeBlocks(s) # {}
<1>1. IsFiniteSet(Blocks) /\ FreeBlocks(s) \in SUBSET Blocks /\ FreeBlocks(t) \in SUBSET Blocks
  BY InfoAssumption DEF FreeBlocks
<1>2. IsFiniteSet(FreeBlocks(s)) /\ IsFiniteSet(FreeBlocks(t))
  BY <1>1, FS_Subset
<1>3. Cardinality(FreeBlocks(s)) \in Nat /\ Cardinality(FreeBlocks(t)) \in Nat
  BY <1>2, FS_CardinalityType
<1> DEFINE F == FreeBlocks(s)
           G == FreeBlocks(t)
<1> HIDE DEF F, G
<1>4. Cardinality(F \ {b}) = IF b \in F THEN Cardinality(F) - 1 ELSE Cardinality(F)
  BY <1>2, FS_RemoveElement DEF F
<1>5. Cardinality(F \ {b}) <= Cardinality(G)
  <2>1. (F \ {b}) \in SUBSET G
    BY DEF F, G
  <2> QED BY <1>2, <2>1, FS_Subset DEF G
<1>6. Cardinality(F) \in Nat /\ Cardinality(G) \in Nat
  BY <1>3 DEF F, G
<1>7. Cardinality(G) >= Cardinality(F) - 1
  BY <1>4, <1>5, <1>6
<1>8. F = {} => Cardinality(F) = 0
  BY FS_EmptySet
<1>9. Cardinality(F) >= 1 => F # {}
  BY <1>8
<1> QED BY <1>3, <1>7, <1>9 DEF F, G

LEMMA JoinRoom ==
  ASSUME setting \in Settings, NEW s \in Tables, FreeBlocks(s) # {}, NEW c \in Chans, NEW n \in Nicks
  PROVE  FreeBlocks(s) \ {NewBlock(s)} \subseteq FreeBlocks(OnJoin(s, c, n))
<1> DEFINE b == NewBlock(s)
           old == s.tab[c][n]
           made == [s.heap EXCEPT ![b] = [live |-> TRUE, nick |-> n, modes |-> {}]]
           t == OnJoin(s, c, n)
<1>1. \/ t.heap = made
      \/ old \in Blocks /\ t.heap = [made EXCEPT ![old] = Blank]
  <2>1. Joined(s, c, n, t)
    BY JoinIs
  <2> HIDE DEF t
  <2> QED BY <2>1 DEF Joined
<1>2. s.heap \in [Blocks -> Record] /\ setting.blocks \subseteq Blocks
  BY TablesAre, InfoAssumption
<1>3. \A x \in Blocks : x # b => made[x] = s.heap[x]
  BY <1>2
<1>4. made \in [Blocks -> Record \cup {[live |-> TRUE, nick |-> n, modes |-> {}]}]
  BY <1>2
<1> HIDE DEF made, t, b, old
<1>5. ASSUME NEW x \in Blocks, x # b, ~s.heap[x].live PROVE ~t.heap[x].live
  <2>1. CASE t.heap = made
    BY <1>3, <1>5, <2>1
  <2>2. CASE old \in Blocks /\ t.heap = [made EXCEPT ![old] = Blank]
    <3>1. t.heap[x] = IF x = old THEN Blank ELSE made[x]
      BY <1>4, <2>2
    <3> QED BY <1>3, <1>5, <3>1, BlankIs
  <2> QED BY <1>1, <2>1, <2>2
<1> QED BY <1>2, <1>5 DEF FreeBlocks, t, b

(* The tables with other modes of one block.                                *)
WithModes(s, b, added, removed) == [s EXCEPT !.heap[b].modes = (@ \cup added) \ removed]

Remoded(s, b, added, removed, t) ==
  /\ t \in Tables /\ t.clist = s.clist /\ t.tab = s.tab /\ t.err = s.err /\ t.fault = s.fault
  /\ t.heap[b].modes = (s.heap[b].modes \cup added) \ removed
  /\ \A x \in Blocks : /\ t.heap[x].live = s.heap[x].live /\ t.heap[x].nick = s.heap[x].nick
                       /\ x # b => t.heap[x] = s.heap[x]
  /\ setting.blocks \subseteq Blocks => FreeBlocks(t) = FreeBlocks(s)

LEMMA ModesIs ==
  ASSUME NEW s \in Tables, NEW b \in Blocks, NEW added \in SUBSET Modes, NEW removed \in SUBSET Modes
  PROVE  Remoded(s, b, added, removed, WithModes(s, b, added, removed))
<1> DEFINE ms == (s.heap[b].modes \cup added) \ removed
           e == [s.heap[b] EXCEPT !.modes = ms]
           h == [s.heap EXCEPT ![b] = e]
           t == WithModes(s, b, added, removed)
<1>1. s.heap \in [Blocks -> Record] /\ s.heap[b].modes \subseteq Modes /\ s.heap[b] \in Record
  BY TablesAre
<1>2. t = [s EXCEPT !.heap = h]
  BY DEF WithModes
<1>3. e \in Record /\ e.modes = ms /\ e.live = s.heap[b].live /\ e.nick = s.heap[b].nick
  <2>1. ms \in SUBSET Modes
    BY <1>1
  <2> HIDE DEF ms
  <2> QED BY <1>1, <2>1 DEF Record
<1> HIDE DEF t, ms, e
<1>4. h \in [Blocks -> Record] /\ h[b] = e /\ \A x \in Blocks : x # b => h[x] = s.heap[x]
  BY <1>1, <1>3
<1> HIDE DEF h
<1>5. t \in Tables /\ t.clist = s.clist /\ t.tab = s.tab /\ t.err = s.err /\ t.fault = s.fault
      /\ t.heap = h
  BY <1>2, <1>4 DEF Tables
<1>6. \A x \in Blocks : /\ t.heap[x].live = s.heap[x].live /\ t.heap[x].nick = s.heap[x].nick
                        /\ x # b => t.heap[x] = s.heap[x]
  BY <1>3, <1>4, <1>5
<1>7. t.heap[b].modes = ms
  BY <1>3, <1>4, <1>5
<1>8. ASSUME setting.blocks \subseteq Blocks PROVE FreeBlocks(t) = FreeBlocks(s)
  BY <1>6, <1>8 DEF FreeBlocks
<1> QED BY <1>5, <1>6, <1>7, <1>8 DEF t, ms, Remoded

(* on_mode, on_who and on_names: a handler finds the user, or makes one, and *)
(* changes the modes of the block.                                           *)
Updated(s, c, n, added, removed, t) ==
  \E k \in Tables, b \in Blocks :
    /\ \/ HasUser(s, c, n) /\ k = GetUser(s, c, n) /\ b = s.tab[c][n]
       \/ /\ k = OnJoin(GetUser(s, c, n), c, n) /\ b = NewBlock(GetUser(s, c, n))
          /\ k.heap[b].modes = {}
    /\ t = WithModes(k, b, added, removed)

LEMMA UpdateIs ==
  ASSUME setting \in Settings, NEW s \in Tables, FreeBlocks(s) # {}, NEW c \in Chans, NEW n \in Nicks,
         NEW added \in SUBSET Modes, NEW removed \in SUBSET Modes
  PROVE  LET t == UpdateUser(s, c, n, added, removed)
         IN /\ t \in Tables
            /\ Cardinality(FreeBlocks(t)) >= Cardinality(FreeBlocks(s)) - 1
            /\ Updated(s, c, n, added, removed, t)
<1> DEFINE t == UpdateUser(s, c, n, added, removed)
           got == GetUser(s, c, n)
<1>0. setting.blocks \subseteq Blocks
  BY InfoAssumption
<1>1. got \in Tables /\ FreeBlocks(got) = FreeBlocks(s) /\ NewBlock(got) = NewBlock(s)
  <2>1. Got(s, c, n, got)
    BY GetIs
  <2> HIDE DEF got
  <2> QED BY <2>1 DEF Got
<1>2. CASE HasUser(s, c, n)
  <2> DEFINE b == s.tab[c][n]
  <2>1. b \in Blocks
    BY <1>2 DEF HasUser
  <2>2. t = WithModes(got, b, added, removed)
    BY <1>2 DEF UpdateUser, WithModes
  <2> HIDE DEF got, b, t
  <2>3. t \in Tables /\ FreeBlocks(t) = FreeBlocks(s)
    <3>1. Remoded(got, b, added, removed, t)
      BY <1>1, <2>1, <2>2, ModesIs
    <3> QED BY <1>0, <1>1, <3>1 DEF Remoded
  <2>4. Cardinality(FreeBlocks(t)) >= Cardinality(FreeBlocks(s)) - 1
    <3>1. FreeBlocks(s) \ {b} \subseteq FreeBlocks(t)
      BY <2>3
    <3> QED BY <3>1, RoomLeft
  <2> QED BY <1>1, <1>2, <2>1, <2>2, <2>3, <2>4 DEF got, b, t, Updated
<1>3. CASE ~HasUser(s, c, n)
  <2> DEFINE b == NewBlock(got)
             k == OnJoin(got, c, n)
  <2>1. t = WithModes(k, b, added, removed)
    BY <1>3 DEF UpdateUser, OnJoin, WithModes
  <2> HIDE DEF got, t
  <2>0. Joined(got, c, n, k)
    BY <1>1, JoinIs
  <2> HIDE DEF k
  <2>2. b \in Blocks /\ k \in Tables /\ b \in FreeBlocks(got)
    BY <2>0 DEF Joined
  <2>3. k.heap[b].modes = {}
    <3> DEFINE u == [live |-> TRUE, nick |-> n, modes |-> {}]
               made == [got.heap EXCEPT ![b] = u]
    <3>1. k.heap = made \/ (k.heap = [made EXCEPT ![got.tab[c][n]] = Blank] /\ got.tab[c][n] # b)
      BY <2>0 DEF Joined
    <3>2. made[b] = u /\ u.modes = {}
      BY <1>1, <2>2, TablesAre
    <3>3. made \in [Blocks -> {made[x] : x \in Blocks}]
      BY <1>1, TablesAre
    <3>4. k.heap[b] = made[b]
      <4> HIDE DEF made, u, b
      <4> QED BY <3>1, <2>2, <3>3
    <3> QED BY <3>2, <3>4
  <2> HIDE DEF b
  <2>4. t \in Tables /\ FreeBlocks(t) = FreeBlocks(k)
    <3>1. Remoded(k, b, added, removed, t)
      BY <2>1, <2>2, ModesIs
    <3> QED BY <1>0, <3>1 DEF Remoded
  <2>5. FreeBlocks(got) \ {b} \subseteq FreeBlocks(k)
    BY <1>1, JoinRoom DEF b, k
  <2>6. Cardinality(FreeBlocks(t)) >= Cardinality(FreeBlocks(s)) - 1
    <3>1. FreeBlocks(s) \ {b} \subseteq FreeBlocks(t)
      BY <1>1, <2>4, <2>5
    <3> QED BY <3>1, RoomLeft
  <2> QED BY <2>1, <2>2, <2>3, <2>4, <2>6 DEF b, k, got, t, Updated
<1> QED BY <1>2, <1>3

(***************************************************************************)
(* The loops of the handlers over channels and over names.  Each leaves the *)
(* tables in a set if its steps do.                                         *)
(***************************************************************************)
LEMMA QuitStays ==
  ASSUME NEW s \in Tables, NEW n \in Nicks, NEW Q, s \in Q[0],
         \A i \in 1 .. Len(s.clist) : \A x \in Q[i - 1] :
           RmUser(x, s.clist[i].chan, n, TRUE) \in Q[i]
  PROVE  OnQuit(s, n) \in Q[Len(s.clist)]
<1> DEFINE k == Len(s.clist)
           G == [i \in 1 .. k |-> [x \in Q[i - 1] |-> RmUser(x, s.clist[i].chan, n, TRUE)]]
           Def(f) == [i \in 0 .. k |-> IF i = 0 THEN s ELSE RmUser(f[i - 1], s.clist[i].chan, n, TRUE)]
<1>1. k \in Nat
  BY ClistIs
<1>2. \A i \in 1 .. k : \A x \in Q[i - 1] : G[i][x] = RmUser(x, s.clist[i].chan, n, TRUE)
  OBVIOUS
<1>3. \A i \in 1 .. k : \A x \in Q[i - 1] : G[i][x] \in Q[i]
  BY <1>2
<1> HIDE DEF G, k
<1>4. PICK f : /\ f = [i \in 0 .. k |-> IF i = 0 THEN s ELSE G[i][f[i - 1]]]
               /\ \A i \in 0 .. k : f[i] \in Q[i]
  <2>1. \E f : Staging(f, k, s, G) /\ \A i \in 0 .. k : f[i] \in Q[i]
    BY <1>1, <1>3, StagedRec
  <2> QED BY <2>1 DEF Staging
<1>5. f = Def(f)
  <2>1. ASSUME NEW i \in 0 .. k PROVE f[i] = Def(f)[i]
    <3>1. CASE i = 0
      BY <1>4, <3>1
    <3>2. CASE i # 0
      <4>1. i \in 1 .. k /\ i - 1 \in 0 .. k
        BY <1>1, <3>2
      <4>2. f[i] = G[i][f[i - 1]] /\ f[i - 1] \in Q[i - 1]
        BY <1>4, <3>2, <4>1
      <4> QED BY <1>2, <3>2, <4>1, <4>2
    <3> QED BY <3>1, <3>2
  <2>2. f = [i \in 0 .. k |-> f[i]]
    BY <1>4
  <2> QED BY <2>1, <2>2
<1> DEFINE h == CHOOSE g : g = Def(g)
<1>6. h = Def(h)
  <2> HIDE DEF Def
  <2> QED BY <1>5
<1>7. OnQuit(s, n) = h[k]
  BY DEF OnQuit, k
<1> HIDE DEF h
<1>8. h[0] \in Q[0]
  BY <1>1, <1>6
<1>9. ASSUME NEW i \in 1 .. k, h[i - 1] \in Q[i - 1] PROVE h[i] \in Q[i]
  <2>1. i \in 0 .. k /\ i # 0
    BY <1>1
  <2>2. h[i] = RmUser(h[i - 1], s.clist[i].chan, n, TRUE)
    BY <1>6, <2>1
  <2> QED BY <1>9, <2>2 DEF k
<1>10. h[k] \in Q[k]
  BY <1>1, <1>8, <1>9, StagedIn
<1> QED BY <1>7, <1>10 DEF k

LEMMA NickStays ==
  ASSUME NEW s \in Tables, NEW old \in Nicks, NEW new \in Nicks, NEW harm, NEW Q, s \in Q[0],
         \A i \in 1 .. Len(s.clist) : \A x \in Q[i - 1] :
           Rename(x, s.clist[i].chan, old, new, harm) \in Q[i]
  PROVE  OnNick(s, old, new, harm) \in Q[Len(s.clist)]
<1> DEFINE k == Len(s.clist)
           G == [i \in 1 .. k |-> [x \in Q[i - 1] |-> Rename(x, s.clist[i].chan, old, new, harm)]]
           Def(f) == [i \in 0 .. k |-> IF i = 0 THEN s ELSE Rename(f[i - 1], s.clist[i].chan, old, new, harm)]
<1>1. k \in Nat
  BY ClistIs
<1>2. \A i \in 1 .. k : \A x \in Q[i - 1] : G[i][x] = Rename(x, s.clist[i].chan, old, new, harm)
  OBVIOUS
<1>3. \A i \in 1 .. k : \A x \in Q[i - 1] : G[i][x] \in Q[i]
  BY <1>2
<1> HIDE DEF G, k
<1>4. PICK f : /\ f = [i \in 0 .. k |-> IF i = 0 THEN s ELSE G[i][f[i - 1]]]
               /\ \A i \in 0 .. k : f[i] \in Q[i]
  <2>1. \E f : Staging(f, k, s, G) /\ \A i \in 0 .. k : f[i] \in Q[i]
    BY <1>1, <1>3, StagedRec
  <2> QED BY <2>1 DEF Staging
<1>5. f = Def(f)
  <2>1. ASSUME NEW i \in 0 .. k PROVE f[i] = Def(f)[i]
    <3>1. CASE i = 0
      BY <1>4, <3>1
    <3>2. CASE i # 0
      <4>1. i \in 1 .. k /\ i - 1 \in 0 .. k
        BY <1>1, <3>2
      <4>2. f[i] = G[i][f[i - 1]] /\ f[i - 1] \in Q[i - 1]
        BY <1>4, <3>2, <4>1
      <4> QED BY <1>2, <3>2, <4>1, <4>2
    <3> QED BY <3>1, <3>2
  <2>2. f = [i \in 0 .. k |-> f[i]]
    BY <1>4
  <2> QED BY <2>1, <2>2
<1> DEFINE h == CHOOSE g : g = Def(g)
<1>6. h = Def(h)
  <2> HIDE DEF Def
  <2> QED BY <1>5
<1>7. OnNick(s, old, new, harm) = h[k]
  BY DEF OnNick, k
<1> HIDE DEF h
<1>8. h[0] \in Q[0]
  BY <1>1, <1>6
<1>9. ASSUME NEW i \in 1 .. k, h[i - 1] \in Q[i - 1] PROVE h[i] \in Q[i]
  <2>1. i \in 0 .. k /\ i # 0
    BY <1>1
  <2>2. h[i] = Rename(h[i - 1], s.clist[i].chan, old, new, harm)
    BY <1>6, <2>1
  <2> QED BY <1>9, <2>2 DEF k
<1>10. h[k] \in Q[k]
  BY <1>1, <1>8, <1>9, StagedIn
<1> QED BY <1>7, <1>10 DEF k

LEMMA NamesLoop ==
  ASSUME NEW s, NEW c, NEW names, Len(names) \in Nat, NEW Q, s \in Q[0],
         \A i \in 1 .. Len(names) : \A x \in Q[i - 1] :
           OnWho(x, c, names[i][1], names[i][2]) \in Q[i]
  PROVE  OnNames(s, c, names) \in Q[Len(names)]
<1> DEFINE k == Len(names)
           G == [i \in 1 .. k |-> [x \in Q[i - 1] |-> OnWho(x, c, names[i][1], names[i][2])]]
           Def(f) == [i \in 0 .. k |-> IF i = 0 THEN s ELSE OnWho(f[i - 1], c, names[i][1], names[i][2])]
<1>1. k \in Nat
  OBVIOUS
<1>2. \A i \in 1 .. k : \A x \in Q[i - 1] : G[i][x] = OnWho(x, c, names[i][1], names[i][2])
  OBVIOUS
<1>3. \A i \in 1 .. k : \A x \in Q[i - 1] : G[i][x] \in Q[i]
  BY <1>2
<1> HIDE DEF G, k
<1>4. PICK f : /\ f = [i \in 0 .. k |-> IF i = 0 THEN s ELSE G[i][f[i - 1]]]
               /\ \A i \in 0 .. k : f[i] \in Q[i]
  <2>1. \E f : Staging(f, k, s, G) /\ \A i \in 0 .. k : f[i] \in Q[i]
    BY <1>1, <1>3, StagedRec
  <2> QED BY <2>1 DEF Staging
<1>5. f = Def(f)
  <2>1. ASSUME NEW i \in 0 .. k PROVE f[i] = Def(f)[i]
    <3>1. CASE i = 0
      BY <1>4, <3>1
    <3>2. CASE i # 0
      <4>1. i \in 1 .. k /\ i - 1 \in 0 .. k
        BY <1>1, <3>2
      <4>2. f[i] = G[i][f[i - 1]] /\ f[i - 1] \in Q[i - 1]
        BY <1>4, <3>2, <4>1
      <4> QED BY <1>2, <3>2, <4>1, <4>2
    <3> QED BY <3>1, <3>2
  <2>2. f = [i \in 0 .. k |-> f[i]]
    BY <1>4
  <2> QED BY <2>1, <2>2
<1> DEFINE h == CHOOSE g : g = Def(g)
<1>6. h = Def(h)
  <2> HIDE DEF Def
  <2> QED BY <1>5
<1>7. OnNames(s, c, names) = h[k]
  BY DEF OnNames, k
<1> HIDE DEF h
<1>8. h[0] \in Q[0]
  BY <1>1, <1>6
<1>9. ASSUME NEW i \in 1 .. k, h[i - 1] \in Q[i - 1] PROVE h[i] \in Q[i]
  <2>1. i \in 0 .. k /\ i # 0
    BY <1>1
  <2>2. h[i] = OnWho(h[i - 1], c, names[i][1], names[i][2])
    BY <1>6, <2>1
  <2> QED BY <1>9, <2>2 DEF k
<1>10. h[k] \in Q[k]
  BY <1>1, <1>8, <1>9, StagedIn
<1> QED BY <1>7, <1>10 DEF k

(* The same for the loop over names, which needs a free block for each.     *)
Names == Seq(Nicks \X SUBSET Modes)

LEMMA PrefixIs == \A m : Prefix(m) \subseteq m
BY DEF Prefix

LEMMA NamesAre ==
  ASSUME NEW names \in Names
  PROVE  /\ Len(names) \in Nat
         /\ \A i \in 1 .. Len(names) : names[i][1] \in Nicks /\ names[i][2] \in SUBSET Modes
<1>1. \A i \in 1 .. Len(names) : names[i] \in Nicks \X SUBSET Modes
  BY ElementOfSeq DEF Names
<1> QED BY <1>1, LenProperties DEF Names

LEMMA NamesStay ==
  ASSUME setting \in Settings, NEW c \in Chans, NEW names \in Names, NEW S \in SUBSET Tables, NEW s \in S,
         Cardinality(FreeBlocks(s)) >= Len(names),
         \A x \in S : FreeBlocks(x) # {} =>
           \A i \in 1 .. Len(names) : OnWho(x, c, names[i][1], names[i][2]) \in S
  PROVE  OnNames(s, c, names) \in S
<1> DEFINE k == Len(names)
           Q == [i \in 0 .. k |-> {x \in S : Cardinality(FreeBlocks(x)) >= k - i}]
<1>1. k \in Nat /\ \A i \in 1 .. k : names[i][1] \in Nicks /\ names[i][2] \in SUBSET Modes
  BY NamesAre
<1>2. \A i \in 0 .. k : \A x : x \in Q[i] <=> (x \in S /\ Cardinality(FreeBlocks(x)) >= k - i)
  OBVIOUS
<1> HIDE DEF Q, k
<1>3. s \in Q[0]
  <2>1. 0 \in 0 .. k /\ k - 0 = k
    BY <1>1
  <2> QED BY <1>2, <2>1 DEF k
<1>4. ASSUME NEW i \in 1 .. k, NEW x \in Q[i - 1]
      PROVE  OnWho(x, c, names[i][1], names[i][2]) \in Q[i]
  <2> DEFINE y == OnWho(x, c, names[i][1], names[i][2])
  <2>1. i - 1 \in 0 .. k /\ i \in 0 .. k /\ i \in Int
    BY <1>1
  <2>2. x \in S /\ x \in Tables /\ Cardinality(FreeBlocks(x)) >= k - (i - 1)
    BY <1>2, <1>4, <2>1
  <2>3. Cardinality(FreeBlocks(x)) \in Nat
    BY RoomLeft
  <2>4. k - (i - 1) >= 1
    BY <1>1
  <2>5. Cardinality(FreeBlocks(x)) >= 1
    BY <1>1, <2>1, <2>2, <2>3, <2>4
  <2>6. FreeBlocks(x) # {}
    BY <2>5, RoomLeft
  <2>7. y \in S
    BY <2>2, <2>6 DEF k
  <2>8. Cardinality(FreeBlocks(y)) \in Nat /\ Cardinality(FreeBlocks(y)) >= Cardinality(FreeBlocks(x)) - 1
    <3>1. y = UpdateUser(x, c, names[i][1], Prefix(names[i][2]), {})
      BY DEF OnWho
    <3>2. names[i][1] \in Nicks /\ Prefix(names[i][2]) \in SUBSET Modes
      BY <1>1, PrefixIs
    <3>3. {} \in SUBSET Modes
      OBVIOUS
    <3> HIDE DEF y
    <3>4. Cardinality(FreeBlocks(y)) >= Cardinality(FreeBlocks(x)) - 1
      BY <2>2, <2>6, <3>1, <3>2, <3>3, UpdateIs
    <3>5. Cardinality(FreeBlocks(y)) \in Nat
      BY RoomLeft
    <3> QED BY <3>4, <3>5
  <2> HIDE DEF y
  <2>9. Cardinality(FreeBlocks(y)) >= k - i
    BY <1>1, <2>1, <2>2, <2>3, <2>8
  <2>10. y \in Q[i]
    BY <1>2, <2>1, <2>7, <2>9
  <2> QED BY <2>10 DEF y
<1>5. OnNames(s, c, names) \in Q[k]
  <2>1. k \in Nat /\ \A i \in 1 .. k : \A x \in Q[i - 1] : OnWho(x, c, names[i][1], names[i][2]) \in Q[i]
    BY <1>1, <1>4
  <2> QED BY <1>3, <2>1, NamesLoop DEF k
<1>6. k \in 0 .. k
  BY <1>1
<1> QED BY <1>2, <1>5, <1>6

(* The names the server lists are those of users with their modes.          *)
NamesOf(q, ns, ms) ==
  /\ q \in Names /\ Len(q) = Cardinality(ns) /\ Cardinality(ns) \in Nat
  /\ \A i \in 1 .. Cardinality(ns) : q[i][1] \in ns /\ q[i][2] = ms[q[i][1]]

LEMMA ListedIs ==
  ASSUME NEW ns \in SUBSET Nicks, NEW ms, \A n \in ns : ms[n] \in SUBSET Modes
  PROVE  NamesOf(Listed(ns, ms), ns, ms)
<1> DEFINE k == Cardinality(ns)
           f == SetToSeq(ns)
           q == Listed(ns, ms)
<1>1. IsFiniteSet(ns)
  <2>1. IsFiniteSet(Users \cup {Junk})
    BY InfoAssumption, FS_AddElement
  <2> QED BY <2>1, FS_Subset DEF Nicks
<1>2. k \in Nat /\ ExistsBijection(1 .. k, ns)
  BY <1>1, FS_CardinalityType
<1>3. f \in [1 .. k -> ns]
  <2>1. PICK g \in Bijection(1 .. k, ns) : TRUE
    BY <1>2 DEF ExistsBijection
  <2>2. g \in [1 .. k -> ns] /\ IsInjective(g)
    <3>1. g \in [1 .. k -> ns] /\ \A a, b \in 1 .. k : g[a] = g[b] => a = b
      BY <2>1 DEF Bijection, Injection, IsInjective
    <3> QED BY <3>1 DEF IsInjective
  <2> QED BY <2>2 DEF SetToSeq
<1>4. q = [i \in 1 .. k |-> <<f[i], ms[f[i]]>>]
  BY DEF Listed
<1> HIDE DEF f, q, k
<1>5. \A i \in 1 .. k : f[i] \in ns /\ <<f[i], ms[f[i]]>> \in Nicks \X SUBSET Modes
  BY <1>3
<1>6. q \in [1 .. k -> Nicks \X SUBSET Modes]
  BY <1>4, <1>5
<1>7. q \in Names
  BY <1>2, <1>6 DEF Names
<1>8. Len(q) = k
  BY <1>2, <1>4, <1>7, LenProperties DEF Names
<1>9. \A i \in 1 .. k : q[i][1] \in ns /\ q[i][2] = ms[q[i][1]]
  BY <1>4, <1>5
<1> QED BY <1>2, <1>7, <1>8, <1>9 DEF q, k, NamesOf

(* Names that on_names reads are of users who are there, with no more modes *)
(* than they have, or are read without any.                                 *)
Honest(q, all, ms) ==
  \A i \in 1 .. Len(q) : \/ q[i][1] \in all /\ q[i][2] \subseteq ms[q[i][1]]
                         \/ q[i][2] = {}

LEMMA HonestConcat ==
  ASSUME NEW q \in Names, NEW r \in Names, NEW all, NEW ms, Honest(q, all, ms), Honest(r, all, ms)
  PROVE  q \o r \in Names /\ Len(q \o r) = Len(q) + Len(r) /\ Honest(q \o r, all, ms)
<1> DEFINE t == q \o r
<1>1. Len(q) \in Nat /\ Len(r) \in Nat
  BY NamesAre
<1>2. /\ t \in Names /\ Len(t) = Len(q) + Len(r)
      /\ \A i \in 1 .. Len(q) + Len(r) : t[i] = IF i <= Len(q) THEN q[i] ELSE r[i - Len(q)]
  BY ConcatProperties DEF Names
<1> HIDE DEF t
<1>3. ASSUME NEW i \in 1 .. Len(q) + Len(r)
      PROVE  (\E j \in 1 .. Len(q) : t[i] = q[j]) \/ (\E j \in 1 .. Len(r) : t[i] = r[j])
  <2>1. CASE i <= Len(q)
    <3>1. i \in 1 .. Len(q)
      BY <1>1, <2>1
    <3> QED BY <1>2, <2>1, <3>1
  <2>2. CASE ~(i <= Len(q))
    <3>1. i - Len(q) \in 1 .. Len(r)
      BY <1>1, <2>2
    <3> QED BY <1>2, <2>2, <3>1
  <2> QED BY <2>1, <2>2
<1>4. Honest(t, all, ms)
  BY <1>2, <1>3, SMTT(60) DEF Honest
<1> QED BY <1>2, <1>4 DEF t

LEMMA ThreeLists ==
  ASSUME NEW a \in Names, NEW b \in Names, NEW d \in Names, NEW N,
         \A i \in 1 .. Len(a) : a[i][1] \in N, \A i \in 1 .. Len(b) : b[i][1] \in N,
         \A i \in 1 .. Len(d) : d[i][1] \in N
  PROVE  \A i \in 1 .. Len(a \o b \o d) : (a \o b \o d)[i][1] \in N
<1>a. ASSUME NEW q \in Names, NEW r \in Names,
             \A i \in 1 .. Len(q) : q[i][1] \in N, \A i \in 1 .. Len(r) : r[i][1] \in N
      PROVE  q \o r \in Names /\ \A i \in 1 .. Len(q \o r) : (q \o r)[i][1] \in N
  <2> DEFINE t == q \o r
  <2>1. Len(q) \in Nat /\ Len(r) \in Nat
    BY NamesAre
  <2>2. /\ t \in Names /\ Len(t) = Len(q) + Len(r)
        /\ \A i \in 1 .. Len(q) + Len(r) : t[i] = IF i <= Len(q) THEN q[i] ELSE r[i - Len(q)]
    BY ConcatProperties DEF Names
  <2> HIDE DEF t
  <2>3. ASSUME NEW i \in 1 .. Len(t) PROVE t[i][1] \in N
    <3>1. CASE i <= Len(q)
      <4>1. i \in 1 .. Len(q) /\ t[i] = q[i]
        BY <2>1, <2>2, <3>1
      <4> QED BY <1>a, <4>1
    <3>2. CASE ~(i <= Len(q))
      <4>1. i - Len(q) \in 1 .. Len(r) /\ t[i] = r[i - Len(q)]
        BY <2>1, <2>2, <3>2
      <4> QED BY <1>a, <4>1
    <3> QED BY <3>1, <3>2
  <2> QED BY <2>2, <2>3 DEF t
<1>1. a \o b \in Names /\ \A i \in 1 .. Len(a \o b) : (a \o b)[i][1] \in N
  BY <1>a
<1> QED BY <1>a, <1>1

LEMMA BurstIs ==
  ASSUME NEW all \in SUBSET Users, NEW first \in all, NEW whole \in SUBSET (all \ {first}),
         NEW bare \in SUBSET Nicks, NEW ms \in [Users -> SUBSET Modes]
  PROVE  LET q == Listed({first}, ms) \o Listed(whole, ms) \o Listed(bare, NoModes)
         IN q \in Names /\ Len(q) <= Cardinality(all) + Cardinality(bare) /\ Honest(q, all, ms)
<1> DEFINE a == Listed({first}, ms)
           b == Listed(whole, ms)
           d == Listed(bare, NoModes)
<1>1. \A n \in Nicks : NoModes[n] = {}
  BY DEF NoModes
<1>2. a \in Names /\ Len(a) = Cardinality({first}) /\ Honest(a, all, ms)
  <2>1. {first} \in SUBSET Nicks /\ \A n \in {first} : ms[n] \in SUBSET Modes
    BY DEF Nicks
  <2>2. NamesOf(a, {first}, ms)
    BY <2>1, ListedIs
  <2> HIDE DEF a
  <2> QED BY <2>1, <2>2 DEF Honest, NamesOf
<1>3. b \in Names /\ Len(b) = Cardinality(whole) /\ Honest(b, all, ms)
  <2>1. whole \in SUBSET Nicks /\ \A n \in whole : ms[n] \in SUBSET Modes
    BY DEF Nicks
  <2>2. NamesOf(b, whole, ms)
    BY <2>1, ListedIs
  <2> HIDE DEF b
  <2> QED BY <2>1, <2>2 DEF Honest, NamesOf
<1>4. d \in Names /\ Len(d) = Cardinality(bare) /\ Cardinality(bare) \in Nat /\ Honest(d, all, ms)
  <2>1. \A n \in bare : NoModes[n] \in SUBSET Modes
    BY <1>1
  <2>2. NamesOf(d, bare, NoModes)
    BY <2>1, ListedIs
  <2> HIDE DEF d
  <2>3. ASSUME NEW i \in 1 .. Len(d) PROVE d[i][2] = {}
    BY <1>1, <2>2 DEF NamesOf
  <2> QED BY <2>2, <2>3 DEF Honest, NamesOf
<1> HIDE DEF a, b, d
<1> DEFINE ab == a \o b
<1>5. ab \in Names /\ Len(ab) = Len(a) + Len(b) /\ Honest(ab, all, ms)
  BY <1>2, <1>3, HonestConcat
<1> HIDE DEF ab
<1>6. ab \o d \in Names /\ Len(ab \o d) = Len(ab) + Len(d) /\ Honest(ab \o d, all, ms)
  BY <1>4, <1>5, HonestConcat
<1>7. Cardinality({first}) + Cardinality(whole) <= Cardinality(all) /\ Cardinality(all) \in Nat
      /\ Cardinality({first}) \in Nat /\ Cardinality(whole) \in Nat
  <2> DEFINE fw == {first} \cup whole
  <2>1. IsFiniteSet(all) /\ IsFiniteSet({first}) /\ IsFiniteSet(whole)
    <3>1. IsFiniteSet(all)
      BY InfoAssumption, FS_Subset
    <3>2. {first} \in SUBSET all /\ whole \in SUBSET all
      OBVIOUS
    <3> QED BY <3>1, <3>2, FS_Subset
  <2>2. Cardinality({first}) \in Nat /\ Cardinality(whole) \in Nat /\ Cardinality(all) \in Nat
    BY <2>1, FS_CardinalityType
  <2>3. Cardinality(fw) = Cardinality({first}) + Cardinality(whole)
    <3>1. {first} \cap whole = {}
      OBVIOUS
    <3>2. Cardinality({first} \cap whole) = 0
      BY <3>1, FS_EmptySet
    <3>3. Cardinality(fw) = Cardinality({first}) + Cardinality(whole) - Cardinality({first} \cap whole)
      BY <2>1, FS_Union
    <3> QED BY <2>2, <3>2, <3>3
  <2>4. Cardinality(fw) <= Cardinality(all)
    <3>1. fw \in SUBSET all
      OBVIOUS
    <3> HIDE DEF fw
    <3> QED BY <2>1, <3>1, FS_Subset
  <2> QED BY <2>2, <2>3, <2>4
<1>8. Len(ab \o d) <= Cardinality(all) + Cardinality(bare)
  BY <1>2, <1>3, <1>4, <1>5, <1>6, <1>7
<1> QED BY <1>6, <1>8 DEF a, b, d, ab

(***************************************************************************)
(* The handlers that change more than one user, and the type invariant.     *)
(***************************************************************************)

(* on_nick_change for one channel: the block loses the key of the old nick, *)
(* gets the new one, and is added again.                                    *)
LEMMA RenameIs ==
  ASSUME NEW s \in Tables, NEW c \in Chans, NEW old \in Nicks, NEW new \in Nicks, HasUser(s, c, old)
  PROVE  LET b == s.tab[c][old]
         IN /\ b \in Blocks
            /\ \E m \in Tables : /\ m.clist = s.clist
                                 /\ m.tab = [s.tab EXCEPT ![c][old] = "null"]
                                 /\ m.heap = [s.heap EXCEPT ![b] = [s.heap[b] EXCEPT !.nick = new]]
                                 /\ Added(m, c, b, FALSE, Rename(s, c, old, new, FALSE))
<1> DEFINE b == s.tab[c][old]
           got == GetUser(s, c, old)
           r == [got EXCEPT !.tab[c][old] = "null"]
           h == [s.heap EXCEPT ![b] = [s.heap[b] EXCEPT !.nick = new]]
           m == [r EXCEPT !.heap[b].nick = new]
<1>1. b \in Blocks /\ b # "absent"
  BY NotBlocks DEF HasUser
<1>2. got \in Tables /\ got.clist = s.clist /\ got.tab = s.tab /\ got.heap = s.heap
  <2>1. Got(s, c, old, got)
    BY GetIs
  <2> HIDE DEF got
  <2> QED BY <2>1 DEF Got
<1>3. RmUser(got, c, old, FALSE) = r
  <2>1. got.tab[c][old] # "absent"
    BY <1>1, <1>2, SMTT(60)
  <2> HIDE DEF got
  <2> QED BY <2>1 DEF RmUser
<1>4. Rename(s, c, old, new, FALSE) = AddUser(m, c, b, FALSE)
  <2>1. Rename(s, c, old, new, FALSE)
          = AddUser([RmUser(got, c, old, FALSE) EXCEPT !.heap[b].nick = new], c, b, FALSE)
    BY DEF Rename
  <2> HIDE DEF got, r
  <2> QED BY <1>3, <2>1
<1> HIDE DEF got
<1>5. r \in Tables /\ r.clist = s.clist /\ r.heap = s.heap /\ r.tab = [s.tab EXCEPT ![c][old] = "null"]
  <2>1. "null" \in Data
    BY DEF Data
  <2> QED BY <1>2, <2>1, KeyIs
<1> HIDE DEF r
<1>6. h \in [Blocks -> Record]
  <2>1. s.heap \in [Blocks -> Record] /\ s.heap[b] \in Record
    BY <1>1, TablesAre
  <2>2. [s.heap[b] EXCEPT !.nick = new] \in Record
    BY <2>1 DEF Record
  <2> HIDE DEF b
  <2> QED BY <2>1, <2>2
<1>7. m = [r EXCEPT !.heap = h]
  BY <1>5
<1> HIDE DEF m, h, b
<1>8. m \in Tables /\ m.clist = s.clist /\ m.tab = [s.tab EXCEPT ![c][old] = "null"] /\ m.heap = h
  BY <1>5, <1>6, <1>7 DEF Tables
<1>9. Added(m, c, b, FALSE, Rename(s, c, old, new, FALSE))
  BY <1>1, <1>4, <1>8, AddIs, ZenonT(60)
<1> QED BY <1>1, <1>8, <1>9 DEF b, h

(* Where the nick overruns, the tables are as they were found.              *)
LEMMA HarmIs ==
  ASSUME NEW s \in Tables, NEW c \in Chans, NEW old \in Nicks, NEW new \in Nicks, NEW harm \in BOOLEAN,
         harm \/ ~HasUser(s, c, old)
  PROVE  LET t == Rename(s, c, old, new, harm)
         IN /\ t \in Tables /\ t.clist = s.clist /\ t.tab = s.tab /\ t.heap = s.heap
            /\ SameChans(s, t) /\ \A d : Listing(t, d) = Listing(s, d)
<1> DEFINE got == GetUser(s, c, old)
           t == Rename(s, c, old, new, harm)
<1>1. got \in Tables /\ got.clist = s.clist /\ got.tab = s.tab /\ got.heap = s.heap
  <2>1. Got(s, c, old, got)
    BY GetIs
  <2> HIDE DEF got
  <2> QED BY <2>1 DEF Got
<1>2. t = got \/ t = [got EXCEPT !.fault = "undefined"]
  BY DEF Rename
<1> HIDE DEF got, t
<1>3. t \in Tables /\ t.clist = s.clist /\ t.tab = s.tab /\ t.heap = s.heap
  BY <1>1, <1>2 DEF Tables
<1>4. SameChans(s, t) /\ \A d : Listing(t, d) = Listing(s, d)
  BY <1>3, SameListing
<1> QED BY <1>3, <1>4 DEF t

LEMMA RenameType ==
  ASSUME NEW s \in Tables, NEW c \in Chans, NEW old \in Nicks, NEW new \in Nicks, NEW harm \in BOOLEAN
  PROVE  Rename(s, c, old, new, harm) \in Tables /\ SameChans(s, Rename(s, c, old, new, harm))
<1>1. CASE HasUser(s, c, old) /\ ~harm
  <2>0. harm = FALSE
    BY <1>1
  <2>1. PICK m \in Tables : m.clist = s.clist /\ Added(m, c, s.tab[c][old], FALSE, Rename(s, c, old, new, FALSE))
    BY <1>1, RenameIs
  <2>2. Rename(s, c, old, new, FALSE) \in Tables /\ SameChans(m, Rename(s, c, old, new, FALSE))
    BY <2>1, ZenonT(60) DEF Added
  <2> QED BY <2>0, <2>1, <2>2 DEF SameChans
<1>2. CASE harm \/ ~HasUser(s, c, old)
  BY <1>2, HarmIs
<1> QED BY <1>1, <1>2

(* A JOIN of the bot: a new entry in front of the list of channels.         *)
LEMMA BotJoinIs ==
  ASSUME NEW s \in Tables, NEW c \in Chans
  PROVE  LET t == OnBotJoin(s, c)
         IN /\ t \in Tables /\ t.tab = s.tab /\ t.heap = s.heap /\ t.err = s.err /\ t.fault = s.fault
            /\ FreeBlocks(t) = FreeBlocks(s)
            /\ Len(t.clist) = Len(s.clist) + 1
            /\ t.clist[1] = [chan |-> c, users |-> <<>>]
            /\ \A i \in 1 .. Len(s.clist) : t.clist[i + 1] = s.clist[i]
<1> DEFINE e == [chan |-> c, users |-> <<>>]
           cl == <<e>> \o s.clist
           t == OnBotJoin(s, c)
<1>1. s.clist \in Seq(Entry) /\ Len(s.clist) \in Nat
  BY ClistIs
<1>2. e \in Entry
  BY EmptySeq DEF Entry
<1>3. t = [s EXCEPT !.clist = cl]
  BY DEF OnBotJoin
<1> HIDE DEF e, t
<1>4. <<e>> \in Seq(Entry) /\ Len(<<e>>) = 1 /\ <<e>>[1] = e
  BY <1>2
<1>5. /\ cl \in Seq(Entry) /\ Len(cl) = 1 + Len(s.clist)
      /\ \A i \in 1 .. 1 + Len(s.clist) : cl[i] = IF i <= 1 THEN <<e>>[i] ELSE s.clist[i - 1]
  BY <1>1, <1>4, ConcatProperties
<1> HIDE DEF cl
<1>6. cl[1] = e
  BY <1>1, <1>4, <1>5
<1>7. ASSUME NEW i \in 1 .. Len(s.clist) PROVE cl[i + 1] = s.clist[i]
  <2>1. i + 1 \in 1 .. 1 + Len(s.clist) /\ ~(i + 1 <= 1) /\ (i + 1) - 1 = i
    BY <1>1
  <2> QED BY <1>5, <2>1
<1>8. /\ t \in Tables /\ t.tab = s.tab /\ t.heap = s.heap /\ t.err = s.err /\ t.fault = s.fault
      /\ t.clist = cl
  BY <1>3, <1>5 DEF Tables
<1>9. FreeBlocks(t) = FreeBlocks(s)
  BY <1>8 DEF FreeBlocks
<1>10. Len(cl) = Len(s.clist) + 1
  BY <1>1, <1>5
<1> QED BY <1>6, <1>7, <1>8, <1>9, <1>10 DEF e, t

LEMMA BotPartIs ==
  ASSUME NEW s \in Tables, NEW c \in Chans
  PROVE  LET t == OnBotPart(s, c)
         IN /\ t \in Tables /\ t.tab = s.tab /\ t.heap = s.heap
            /\ \A i \in 1 .. Len(t.clist) : \E j \in 1 .. Len(s.clist) : t.clist[i] = s.clist[j]
<1> DEFINE i == ListOf(s, c)
           t == OnBotPart(s, c)
<1>0. s.clist \in Seq(Entry)
  BY ClistIs
<1>1. CASE i = 0
  <2>1. t = s
    BY <1>1 DEF OnBotPart
  <2> QED BY <2>1
<1>2. CASE i # 0 /\ s.clist[i].users # <<>>
  <2>1. t = [s EXCEPT !.fault = "crash"]
    BY <1>2 DEF OnBotPart
  <2> HIDE DEF t
  <2>2. t \in Tables /\ t.tab = s.tab /\ t.heap = s.heap /\ t.clist = s.clist
    BY <2>1 DEF Tables
  <2> QED BY <2>2 DEF t
<1>3. CASE i # 0 /\ s.clist[i].users = <<>>
  <2> DEFINE cl == RemoveAt(s.clist, i)
  <2>1. t = [s EXCEPT !.clist = cl]
    BY <1>3 DEF OnBotPart
  <2>2. i \in 1 .. Len(s.clist)
    BY <1>3, ListingIs
  <2> HIDE DEF i, t
  <2>3. cl \in Seq(Entry) /\ ToSet(cl) \subseteq ToSet(s.clist)
    BY <1>0, <2>2, CutList
  <2>4. t \in Tables /\ t.tab = s.tab /\ t.heap = s.heap /\ t.clist = cl
    <3> HIDE DEF cl
    <3> QED BY <2>1, <2>3 DEF Tables
  <2>5. ASSUME NEW k \in 1 .. Len(cl) PROVE \E j \in 1 .. Len(s.clist) : cl[k] = s.clist[j]
    <3> HIDE DEF cl
    <3>1. cl[k] \in ToSet(s.clist)
      BY <2>3, SetOf
    <3> QED BY <1>0, <3>1, SetOf
  <2> QED BY <2>4, <2>5 DEF t
<1> QED BY <1>1, <1>2, <1>3

(* The server's side of the type invariant.                                 *)
ServerOK == /\ setting \in Settings /\ members \in [Chans -> SUBSET Users]
            /\ modes \in [Chans -> [Users -> SUBSET Modes]] /\ who \subseteq Chans
            /\ strays \in [Chans -> SUBSET Nicks]

LEMMA TypeIs == TypeOK <=> ServerOK /\ info \in Tables
BY DEF TypeOK, ServerOK, info, Tables, Entry, Data, Record

LEMMA BecomesIs ==
  ASSUME NEW t \in Tables, Becomes(t)
  PROVE  info' = t
<1>1. t = [clist |-> t.clist, tab |-> t.tab, heap |-> t.heap, err |-> t.err, fault |-> t.fault]
  BY DEF Tables
<1>2. info' = [clist |-> clist', tab |-> tab', heap |-> heap', err |-> err', fault |-> fault']
  BY DEF info
<1> QED BY <1>1, <1>2 DEF Becomes

LEMMA SettingIs ==
  ASSUME setting \in Settings
  PROVE  /\ setting.chans \subseteq Chans /\ setting.users \subseteq Users
         /\ setting.blocks \subseteq Blocks /\ Events \subseteq Kinds /\ Bot \in Users
         /\ Users \subseteq Nicks /\ IsFiniteSet(Users)
BY InfoAssumption DEF Events, Nicks

LEMMA UnhookedIs ==
  ASSUME NEW s \in Tables
  PROVE  LET t == Unhooked(s)
         IN t \in Tables /\ t.clist = s.clist /\ t.tab = s.tab /\ t.heap = s.heap /\ t.fault = s.fault
<1>1. Unhooked(s) = [s EXCEPT !.err = TRUE]
  BY DEF Unhooked
<1> QED BY <1>1 DEF Tables

(* A free block for each of n users is there.                               *)
LEMMA RoomIs ==
  ASSUME setting \in Settings, NEW n \in Nat, Room(n), n >= 1
  PROVE  FreeBlocks(info) # {}
<1>1. Cardinality(FreeBlocks(info)) \in Nat /\ Cardinality(FreeBlocks(info)) >= n
  BY RoomLeft DEF Room
<1>2. Cardinality(FreeBlocks(info)) >= 1
  BY <1>1
<1> QED BY <1>2, RoomLeft

LEMMA WhoType ==
  ASSUME setting \in Settings, NEW s \in Tables, FreeBlocks(s) # {}, NEW c \in Chans, NEW n \in Nicks,
         NEW m \in SUBSET Modes
  PROVE  OnWho(s, c, n, m) \in Tables
<1>1. Prefix(m) \in SUBSET Modes /\ {} \in SUBSET Modes
  BY PrefixIs
<1> QED BY <1>1, UpdateIs DEF OnWho

LEMMA ModeType ==
  ASSUME setting \in Settings, NEW s \in Tables, FreeBlocks(s) # {}, NEW c \in Chans, NEW n \in Nicks,
         NEW set \in BOOLEAN, NEW letters \in SUBSET Modes
  PROVE  OnMode(s, c, n, set, letters) \in Tables
<1>1. {} \in SUBSET Modes
  OBVIOUS
<1> QED BY <1>1, UpdateIs DEF OnMode

(* What the bot reads in a burst, and that there is room for it.            *)
LEMMA BotJoinFacts ==
  ASSUME ServerOK, info \in Tables, NEW c \in setting.chans, BotJoin(c)
  PROVE  /\ members' = [members EXCEPT ![c] = members[c] \cup {Bot}]
         /\ modes' = [modes EXCEPT ![c] = [modes[c] EXCEPT ![Bot] = modes'[c][Bot]]]
         /\ modes'[c][Bot] \subseteq Modes /\ modes' \in [Chans -> [Users -> SUBSET Modes]]
         /\ \E q \in Names : /\ Honest(q, members'[c], modes'[c])
                             /\ Cardinality(FreeBlocks(OnBotJoin(info, c))) >= Len(q)
                             /\ Becomes(Unhooked(OnNames(OnBotJoin(info, c), c, q)))
                             /\ \A i \in 1 .. Len(q) : q[i][1] \in members'[c] \cup strays'[c]
         /\ strays' \in [Chans -> SUBSET Nicks] /\ \A d \in Chans \ {c} : strays'[d] = strays[d]
         /\ strays[c] \subseteq members'[c] \cup strays'[c]
<1> DEFINE all == members[c] \cup {Bot}
<1>1. c \in Chans /\ members[c] \in SUBSET Users /\ Bot \in Users /\ IsFiniteSet(Users)
      /\ modes \in [Chans -> [Users -> SUBSET Modes]] /\ modes[c] \in [Users -> SUBSET Modes]
  BY SettingIs DEF ServerOK
<1>2. members' = [members EXCEPT ![c] = all]
  BY DEF BotJoin
<1>3. members'[c] = all /\ all \in SUBSET Users
  BY <1>1, <1>2 DEF ServerOK
<1> DEFINE v == IF members[c] = {} THEN {"op"} \cap Modes ELSE {}
<1>4. modes' = [modes EXCEPT ![c] = [modes[c] EXCEPT ![Bot] = v]]
  BY DEF BotJoin
<1>5. v \in SUBSET Modes
  OBVIOUS
<1> HIDE DEF v
<1>6. /\ modes'[c] = [modes[c] EXCEPT ![Bot] = v] /\ modes'[c][Bot] = v
      /\ modes' \in [Chans -> [Users -> SUBSET Modes]] /\ modes'[c] \in [Users -> SUBSET Modes]
  BY <1>1, <1>4, <1>5
<1>7. PICK first \in members'[c] : \E whole \in SUBSET (members'[c] \ {first}) :
        \E bare \in SUBSET (setting.users \cup {Junk}) :
          /\ Room(Cardinality(members'[c]) + Cardinality(bare))
          /\ Becomes(Unhooked(OnNames(OnBotJoin(info, c), c,
               Listed({first}, modes'[c]) \o Listed(whole, modes'[c]) \o Listed(bare, NoModes))))
          /\ strays' = [strays EXCEPT ![c] = (strays[c] \cup bare) \ members'[c]]
  BY DEF BotJoin
<1>8. PICK whole \in SUBSET (members'[c] \ {first}) :
        \E bare \in SUBSET (setting.users \cup {Junk}) :
          /\ Room(Cardinality(members'[c]) + Cardinality(bare))
          /\ Becomes(Unhooked(OnNames(OnBotJoin(info, c), c,
               Listed({first}, modes'[c]) \o Listed(whole, modes'[c]) \o Listed(bare, NoModes))))
          /\ strays' = [strays EXCEPT ![c] = (strays[c] \cup bare) \ members'[c]]
  BY <1>7
<1>9. PICK bare \in SUBSET (setting.users \cup {Junk}) :
          /\ Room(Cardinality(members'[c]) + Cardinality(bare))
          /\ Becomes(Unhooked(OnNames(OnBotJoin(info, c), c,
               Listed({first}, modes'[c]) \o Listed(whole, modes'[c]) \o Listed(bare, NoModes))))
          /\ strays' = [strays EXCEPT ![c] = (strays[c] \cup bare) \ members'[c]]
  BY <1>8
<1> DEFINE q == Listed({first}, modes'[c]) \o Listed(whole, modes'[c]) \o Listed(bare, NoModes)
           ms == modes'[c]
           N == all \cup bare
<1>n. bare \in SUBSET Nicks /\ all \in SUBSET Nicks
  BY <1>3, SettingIs DEF ServerOK, Nicks
<1>10. q \in Names /\ Len(q) <= Cardinality(all) + Cardinality(bare) /\ Honest(q, members'[c], ms)
  <2>1. /\ all \in SUBSET Users /\ first \in all /\ whole \in SUBSET (all \ {first})
        /\ bare \in SUBSET Nicks /\ ms \in [Users -> SUBSET Modes]
    BY <1>3, <1>6, <1>7, <1>8, <1>n
  <2> HIDE DEF all, ms
  <2> QED BY <1>3, <2>1, BurstIs, ZenonT(60) DEF ms
<1>11. Cardinality(FreeBlocks(OnBotJoin(info, c))) >= Len(q)
  <2>1. FreeBlocks(OnBotJoin(info, c)) = FreeBlocks(info)
    BY <1>1, BotJoinIs
  <2>2. Cardinality(FreeBlocks(info)) \in Nat
        /\ Cardinality(FreeBlocks(info)) >= Cardinality(all) + Cardinality(bare)
    BY <1>3, <1>9, RoomLeft DEF Room, ServerOK
  <2>3. Len(q) \in Nat /\ Cardinality(all) \in Nat /\ Cardinality(bare) \in Nat
    <3>1. IsFiniteSet(Nicks)
      BY <1>1, FS_AddElement DEF Nicks
    <3>2. IsFiniteSet(all) /\ IsFiniteSet(bare)
      BY <1>n, <3>1, FS_Subset
    <3> QED BY <1>10, <3>2, NamesAre, FS_CardinalityType
  <2> HIDE DEF q, all
  <2> QED BY <1>10, <2>1, <2>2, <2>3
<1>12. Becomes(Unhooked(OnNames(OnBotJoin(info, c), c, q)))
  BY <1>9
<1>13. /\ strays' \in [Chans -> SUBSET Nicks] /\ \A d \in Chans \ {c} : strays'[d] = strays[d]
       /\ strays[c] \subseteq members'[c] \cup strays'[c]
  BY <1>1, <1>9, <1>n DEF ServerOK
<1>14. \A i \in 1 .. Len(q) : q[i][1] \in members'[c] \cup strays'[c]
  <2>1. ASSUME NEW i \in 1 .. Len(q) PROVE q[i][1] \in N
    <3>1. \A k \in Nicks : NoModes[k] \in SUBSET Modes
      BY DEF NoModes
    <3>2. /\ {first} \in SUBSET Nicks /\ whole \in SUBSET Nicks
          /\ {first} \subseteq N /\ whole \subseteq N /\ bare \subseteq N
          /\ \A k \in {first} \cup whole : ms[k] \in SUBSET Modes
      BY <1>3, <1>6, <1>7, <1>8, <1>n
    <3> HIDE DEF N, ms
    <3>3. /\ NamesOf(Listed({first}, ms), {first}, ms) /\ NamesOf(Listed(whole, ms), whole, ms)
          /\ NamesOf(Listed(bare, NoModes), bare, NoModes)
      BY <1>n, <3>1, <3>2, ListedIs
    <3> DEFINE a == Listed({first}, ms)
               b == Listed(whole, ms)
               d == Listed(bare, NoModes)
    <3>4. a \in Names /\ b \in Names /\ d \in Names
      BY <3>3 DEF NamesOf
    <3>5. \A j \in 1 .. Len(a) : a[j][1] \in N
      <4> HIDE DEF a
      <4> QED BY <3>2, <3>3 DEF NamesOf, a
    <3>6. \A j \in 1 .. Len(b) : b[j][1] \in N
      <4> HIDE DEF b
      <4> QED BY <3>2, <3>3 DEF NamesOf, b
    <3>7. \A j \in 1 .. Len(d) : d[j][1] \in N
      <4> HIDE DEF d
      <4> QED BY <3>2, <3>3 DEF NamesOf, d
    <3>8. i \in 1 .. Len(a \o b \o d)
      BY DEF ms
    <3> HIDE DEF a, b, d
    <3>9. (a \o b \o d)[i][1] \in N
      BY <3>4, <3>5, <3>6, <3>7, <3>8, ThreeLists
    <3> QED BY <3>9 DEF a, b, d, ms
  <2>2. N \subseteq members'[c] \cup strays'[c]
    BY <1>1, <1>3, <1>9 DEF ServerOK
  <2> HIDE DEF q, N
  <2> QED BY <2>1, <2>2
<1> HIDE DEF q
<1> QED BY <1>2, <1>4, <1>5, <1>6, <1>10, <1>11, <1>12, <1>13, <1>14

(* Each event keeps the types of the server's state ...                      *)
LEMMA ServerKeeps == ServerOK /\ info \in Tables /\ Next => ServerOK'
<1> SUFFICES ASSUME ServerOK, info \in Tables, Next PROVE ServerOK'
  OBVIOUS
<1>0. /\ setting' = setting /\ setting \in Settings /\ members \in [Chans -> SUBSET Users]
      /\ modes \in [Chans -> [Users -> SUBSET Modes]] /\ who \subseteq Chans
      /\ setting.chans \subseteq Chans /\ setting.users \subseteq Users /\ Bot \in Users
      /\ strays \in [Chans -> SUBSET Nicks] /\ Users \subseteq Nicks
  BY SettingIs DEF Next, ServerOK
<1>a. ASSUME NEW c \in Chans, NEW n \in Users, NEW told \in BOOLEAN, Leave(c, n, told)
      PROVE  members' \in [Chans -> SUBSET Users] /\ modes' \in [Chans -> [Users -> SUBSET Modes]]
             /\ who' \subseteq Chans /\ strays' \in [Chans -> SUBSET Nicks]
  BY <1>0, <1>a DEF Leave
<1>b. \A c \in Chans : Sees(c) \in BOOLEAN
  BY DEF Sees
<1>1. CASE Other
  BY <1>0, <1>1 DEF Other, ServerOK
<1>2. ASSUME NEW c \in setting.chans, BotJoin(c) PROVE ServerOK'
  <2>1. members' = [members EXCEPT ![c] = members[c] \cup {Bot}]
        /\ modes' \in [Chans -> [Users -> SUBSET Modes]] /\ strays' \in [Chans -> SUBSET Nicks]
    BY <1>2, BotJoinFacts
  <2>2. who' = who \cup {c}
    BY <1>2 DEF BotJoin
  <2> QED BY <1>0, <2>1, <2>2 DEF ServerOK
<1>3. ASSUME NEW c \in setting.chans, WhoReply(c) PROVE ServerOK'
  BY <1>0, <1>3 DEF WhoReply, ServerOK
<1>4. ASSUME NEW c \in setting.chans, BotPart(c) PROVE ServerOK'
  BY <1>0, <1>4, <1>a DEF BotPart, ServerOK
<1>5. ASSUME NEW c \in setting.chans, NEW n \in setting.users, Join(c, n) PROVE ServerOK'
  <2>1. members' = [members EXCEPT ![c] = members[c] \cup {n}] /\ who' = who
        /\ modes' = [modes EXCEPT ![c] = [modes[c] EXCEPT ![n] = {}]]
        /\ strays' = [strays EXCEPT ![c] = strays[c] \ {n}]
    BY <1>5 DEF Join
  <2> QED BY <1>0, <2>1 DEF ServerOK
<1>6. ASSUME NEW c \in setting.chans, NEW n \in setting.users, Part(c, n) PROVE ServerOK'
  BY <1>0, <1>6, <1>a, <1>b DEF Part, ServerOK
<1>7. ASSUME NEW c \in setting.chans, NEW n \in setting.users, Kick(c, n) PROVE ServerOK'
  BY <1>0, <1>7, <1>a DEF Kick, ServerOK
<1>8. ASSUME NEW c \in setting.chans, NEW n \in setting.users, NEW m \in Modes, NEW set \in BOOLEAN,
             Mode(c, n, m, set)
      PROVE  ServerOK'
  <2>1. members' = members /\ who' = who /\ strays' = strays
        /\ modes' = [modes EXCEPT ![c] = [modes[c] EXCEPT ![n] =
                       IF set THEN modes[c][n] \cup {m} ELSE modes[c][n] \ {m}]]
    BY <1>8 DEF Mode
  <2> DEFINE v == IF set THEN modes[c][n] \cup {m} ELSE modes[c][n] \ {m}
  <2>2. v \in SUBSET Modes
    BY <1>0
  <2> HIDE DEF v
  <2>3. modes' \in [Chans -> [Users -> SUBSET Modes]]
    BY <1>0, <2>1, <2>2 DEF v
  <2> QED BY <1>0, <2>1, <2>3 DEF ServerOK
<1>9. ASSUME NEW c \in setting.chans, NEW n \in setting.users, NEW k \in setting.users, TwoModes(c, n, k)
      PROVE  ServerOK'
  <2> DEFINE f == [modes[c] EXCEPT ![n] = modes[c][n] \cup ({"op"} \cap Modes)]
             g == [f EXCEPT ![k] = f[k] \cup ({"voice"} \cap Modes)]
  <2>1. members' = members /\ who' = who /\ strays' = strays /\ modes' = [modes EXCEPT ![c] = g]
    <3>1. c \in Chans /\ DOMAIN modes = Chans
      BY <1>0
    <3> QED BY <1>9, <3>1 DEF TwoModes
  <2>2. f \in [Users -> SUBSET Modes]
    BY <1>0
  <2>3. g \in [Users -> SUBSET Modes]
    <3> HIDE DEF f
    <3> QED BY <1>0, <2>2
  <2> HIDE DEF g
  <2> QED BY <1>0, <2>1, <2>3 DEF ServerOK
<1>10. ASSUME NEW n \in setting.users, Quit(n) PROVE ServerOK'
  BY <1>0, <1>10 DEF Quit, ServerOK
<1>11. ASSUME NEW n \in setting.users, NEW new \in setting.users, Nick(n, new) PROVE ServerOK'
  <2>1. /\ members' = [c \in Chans |-> IF n \in members[c] THEN (members[c] \ {n}) \cup {new}
                                                            ELSE members[c]]
        /\ modes' = [c \in Chans |-> [modes[c] EXCEPT ![n] = {}, ![new] = modes[c][n]]]
        /\ strays' = [c \in Chans |-> IF n \in members[c] \cup strays[c]
                                       THEN (strays[c] \cup {n, new}) \ members'[c] ELSE strays[c]]
        /\ who' = who
    BY <1>11 DEF Nick
  <2>2. members' \in [Chans -> SUBSET Users]
    BY <1>0, <2>1
  <2>3. modes' \in [Chans -> [Users -> SUBSET Modes]]
    BY <1>0, <2>1
  <2>4. strays' \in [Chans -> SUBSET Nicks]
    BY <1>0, <2>1
  <2> QED BY <1>0, <2>1, <2>2, <2>3, <2>4 DEF ServerOK
<1> QED BY <1>1, <1>2, <1>3, <1>4, <1>5, <1>6, <1>7, <1>8, <1>9, <1>10, <1>11 DEF Next

(* ... and its handlers those of the tables.                                *)
LEMMA TablesKeep == ServerOK /\ info \in Tables /\ Next => info' \in Tables
<1> SUFFICES ASSUME ServerOK, info \in Tables, Next PROVE info' \in Tables
  OBVIOUS
<1>0. /\ setting \in Settings /\ setting.chans \subseteq Chans /\ setting.users \subseteq Nicks
      /\ members \in [Chans -> SUBSET Users] /\ modes \in [Chans -> [Users -> SUBSET Modes]]
      /\ Users \subseteq Nicks /\ Bot \in Users
  BY SettingIs DEF ServerOK
<1>1. CASE Other
  BY <1>1, BecomesIs, UnhookedIs DEF Other
<1>2. ASSUME NEW c \in setting.chans, BotJoin(c) PROVE info' \in Tables
  <2> DEFINE s == OnBotJoin(info, c)
  <2>1. PICK q \in Names : /\ Cardinality(FreeBlocks(s)) >= Len(q)
                           /\ Becomes(Unhooked(OnNames(s, c, q)))
    BY <1>2, BotJoinFacts
  <2>2. s \in Tables
    BY <1>0, BotJoinIs
  <2> HIDE DEF s
  <2>3. OnNames(s, c, q) \in Tables
    <3>1. \A x \in Tables : FreeBlocks(x) # {} =>
            \A i \in 1 .. Len(q) : OnWho(x, c, q[i][1], q[i][2]) \in Tables
      BY <1>0, NamesAre, WhoType
    <3>2. Tables \in SUBSET Tables
      OBVIOUS
    <3> QED BY <1>0, <2>1, <2>2, <3>1, <3>2, NamesStay
  <2> QED BY <2>1, <2>3, BecomesIs, UnhookedIs
<1>3. ASSUME NEW c \in setting.chans, WhoReply(c) PROVE info' \in Tables
  <2> DEFINE q == Listed(members[c], modes[c])
  <2>1. Cardinality(FreeBlocks(info)) >= Cardinality(members[c]) /\ Becomes(Unhooked(OnNames(info, c, q)))
    BY <1>3 DEF WhoReply, Room
  <2>2. q \in Names /\ Len(q) = Cardinality(members[c])
    <3>1. members[c] \in SUBSET Nicks /\ \A n \in members[c] : modes[c][n] \in SUBSET Modes
      BY <1>0
    <3> QED BY <3>1, ListedIs DEF NamesOf
  <2> HIDE DEF q
  <2>3. OnNames(info, c, q) \in Tables
    <3>1. \A x \in Tables : FreeBlocks(x) # {} =>
            \A i \in 1 .. Len(q) : OnWho(x, c, q[i][1], q[i][2]) \in Tables
      BY <1>0, <2>2, NamesAre, WhoType
    <3>2. Tables \in SUBSET Tables
      OBVIOUS
    <3> QED BY <1>0, <2>1, <2>2, <3>1, <3>2, NamesStay
  <2> QED BY <2>1, <2>3, BecomesIs, UnhookedIs
<1>4. ASSUME NEW c \in setting.chans, BotPart(c) PROVE info' \in Tables
  BY <1>0, <1>4, BotPartIs, BecomesIs DEF BotPart
<1>5. ASSUME NEW c \in setting.chans, NEW n \in setting.users, Join(c, n) PROVE info' \in Tables
  <2>1. FreeBlocks(info) # {}
    BY <1>0, <1>5, RoomIs DEF Join
  <2>2. OnJoin(info, c, n) \in Tables
    BY <1>0, <2>1, JoinIs DEF Joined
  <2> QED BY <1>5, <2>2, BecomesIs DEF Join
<1>6. ASSUME NEW c \in setting.chans, NEW n \in setting.users, Part(c, n) PROVE info' \in Tables
  <2>1. OnPart(info, c, n) \in Tables
    BY <1>0, RmIs DEF Removed, OnPart
  <2> QED BY <1>6, <2>1, BecomesIs DEF Part
<1>7. ASSUME NEW c \in setting.chans, NEW n \in setting.users, Kick(c, n) PROVE info' \in Tables
  BY <1>7, UnhookedIs, BecomesIs DEF Kick
<1>8. ASSUME NEW c \in setting.chans, NEW n \in setting.users, NEW m \in Modes, NEW set \in BOOLEAN,
             Mode(c, n, m, set)
      PROVE  info' \in Tables
  <2>1. FreeBlocks(info) # {}
    BY <1>0, <1>8, RoomIs DEF Mode
  <2>2. OnMode(info, c, n, set, {m}) \in Tables
    BY <1>0, <2>1, ModeType
  <2> QED BY <1>8, <2>2, BecomesIs DEF Mode
<1>9. ASSUME NEW c \in setting.chans, NEW n \in setting.users, NEW k \in setting.users, TwoModes(c, n, k)
      PROVE  info' \in Tables
  <2>1. FreeBlocks(info) # {}
    BY <1>0, <1>9, RoomIs DEF TwoModes
  <2>2. OnMode(info, c, n, TRUE, Modes) \in Tables
    BY <1>0, <2>1, ModeType
  <2> QED BY <1>9, <2>2, BecomesIs DEF TwoModes
<1>10. ASSUME NEW n \in setting.users, Quit(n) PROVE info' \in Tables
  <2>1. OnQuit(info, n) \in Tables
    <3> DEFINE Q == [i \in 0 .. Len(info.clist) |-> Tables]
    <3>1. Len(info.clist) \in Nat /\ \A i \in 1 .. Len(info.clist) : info.clist[i].chan \in Chans
      BY ClistIs
    <3>2. \A i \in 0 .. Len(info.clist) : Q[i] = Tables
      OBVIOUS
    <3> HIDE DEF Q
    <3>3. \A i \in 1 .. Len(info.clist) : \A x \in Q[i - 1] :
            RmUser(x, info.clist[i].chan, n, TRUE) \in Q[i]
      <4> SUFFICES ASSUME NEW i \in 1 .. Len(info.clist), NEW x \in Q[i - 1]
                   PROVE  RmUser(x, info.clist[i].chan, n, TRUE) \in Q[i]
        OBVIOUS
      <4>1. i \in 0 .. Len(info.clist) /\ i - 1 \in 0 .. Len(info.clist)
        BY <3>1
      <4> QED BY <1>0, <3>1, <3>2, <4>1, RmIs DEF Removed
    <3>4. 0 \in 0 .. Len(info.clist) /\ Len(info.clist) \in 0 .. Len(info.clist)
      BY <3>1
    <3>5. OnQuit(info, n) \in Q[Len(info.clist)]
      BY <1>0, <3>2, <3>3, <3>4, QuitStays
    <3> QED BY <3>2, <3>4, <3>5
  <2> QED BY <1>10, <2>1, BecomesIs DEF Quit
<1>11. ASSUME NEW n \in setting.users, NEW new \in setting.users, Nick(n, new) PROVE info' \in Tables
  <2>1. ASSUME NEW harm \in BOOLEAN PROVE OnNick(info, n, new, harm) \in Tables
    <3> DEFINE Q == [i \in 0 .. Len(info.clist) |-> Tables]
    <3>1. Len(info.clist) \in Nat /\ \A i \in 1 .. Len(info.clist) : info.clist[i].chan \in Chans
      BY ClistIs
    <3>2. \A i \in 0 .. Len(info.clist) : Q[i] = Tables
      OBVIOUS
    <3> HIDE DEF Q
    <3>3. \A i \in 1 .. Len(info.clist) : \A x \in Q[i - 1] :
            Rename(x, info.clist[i].chan, n, new, harm) \in Q[i]
      <4> SUFFICES ASSUME NEW i \in 1 .. Len(info.clist), NEW x \in Q[i - 1]
                   PROVE  Rename(x, info.clist[i].chan, n, new, harm) \in Q[i]
        OBVIOUS
      <4>1. i \in 0 .. Len(info.clist) /\ i - 1 \in 0 .. Len(info.clist)
        BY <3>1
      <4> QED BY <1>0, <3>1, <3>2, <4>1, RenameType
    <3>4. 0 \in 0 .. Len(info.clist) /\ Len(info.clist) \in 0 .. Len(info.clist)
      BY <3>1
    <3>5. OnNick(info, n, new, harm) \in Q[Len(info.clist)]
      BY <1>0, <3>2, <3>3, <3>4, NickStays
    <3> QED BY <3>2, <3>4, <3>5
  <2> QED BY <1>11, <2>1, BecomesIs DEF Nick
<1> QED BY <1>1, <1>2, <1>3, <1>4, <1>5, <1>6, <1>7, <1>8, <1>9, <1>10, <1>11 DEF Next

LEMMA TypeKeeps == TypeOK /\ [Next]_vars => TypeOK'
<1>1. CASE Next
  <2>1. TypeOK => ServerOK' /\ info' \in Tables
    BY <1>1, TypeIs, ServerKeeps, TablesKeep
  <2>2. TypeOK' <=> ServerOK' /\ info' \in Tables
    BY DEF TypeOK, ServerOK, info, Tables, Entry, Data, Record
  <2> QED BY <2>1, <2>2
<1>2. CASE UNCHANGED vars
  BY <1>2 DEF vars, TypeOK, Events
<1> QED BY <1>1, <1>2

LEMMA TypeStarts == Init => TypeOK
<1> SUFFICES ASSUME Init PROVE TypeOK
  OBVIOUS
<1>1. clist \in Seq([chan : Chans, users : Seq(Blocks)])
  BY EmptySeq DEF Init
<1>2. heap \in [Blocks -> [live : BOOLEAN, nick : Nicks, modes : SUBSET Modes]]
  <2>1. Blank \in [live : BOOLEAN, nick : Nicks, modes : SUBSET Modes]
    BY BlankIs DEF Record
  <2> QED BY <2>1 DEF Init
<1> QED BY <1>1, <1>2 DEF Init, TypeOK

(* structs.c and info.c: whatever the server does and however lists of names *)
(* are misread, the lists lead to blocks, the keys to blocks or to nothing,  *)
(* and a handler never needs a block that is not there.                      *)
THEOREM TypeCorrect == Spec => []TypeOK
<1> QED BY TypeStarts, TypeKeeps, PTL DEF Spec

(***************************************************************************)
(* The keys of the hash table.                                             *)
(***************************************************************************)

(* A key leads to a live block with its nick, and no other key leads there.  *)
Owned(s) ==
  \A c \in Chans, n \in Nicks : s.tab[c][n] \in Blocks =>
    /\ s.heap[s.tab[c][n]].live /\ s.heap[s.tab[c][n]].nick = n
    /\ \A d \in Chans, k \in Nicks : s.tab[d][k] = s.tab[c][n] => d = c /\ k = n

(* The block is nobody's yet.                                               *)
Loose(s, b) == s.heap[b].live /\ \A d \in Chans, k \in Nicks : s.tab[d][k] # b

(* A block in the list of a channel has no key of another channel.          *)
Apart(s) == \A c \in Chans : \A b \in ToSet(Listing(s, c)) :
              \A d \in Chans, k \in Nicks : s.tab[d][k] = b => d = c

(* Every list has live blocks, each once and in no other list.              *)
Tidy(s) == \A c \in Chans :
             /\ Once(Listing(s, c))
             /\ \A b \in ToSet(Listing(s, c)) :
                  /\ s.heap[b].live
                  /\ \A d \in Chans : b \in ToSet(Listing(s, d)) => d = c

Within(s) == /\ \A c \in Chans, n \in Nicks : s.tab[c][n] \in Blocks => c \in setting.chans
             /\ \A i \in 1 .. Len(s.clist) : s.clist[i].chan \in setting.chans

(* Tables that differ in nothing the keys and lists are about.              *)
SameView(s, t) == /\ t \in Tables /\ t.tab = s.tab /\ SameChans(s, t)
                  /\ \A b \in Blocks : t.heap[b].live = s.heap[b].live /\ t.heap[b].nick = s.heap[b].nick
                  /\ \A c : Listing(t, c) = Listing(s, c)

LEMMA ViewKeeps ==
  ASSUME NEW s \in Tables, NEW t, SameView(s, t)
  PROVE  /\ Owned(s) => Owned(t)
         /\ Apart(s) => Apart(t)
         /\ Tidy(s) => Tidy(t)
         /\ Within(s) => Within(t)
<1>1. /\ t.tab = s.tab /\ SameChans(s, t)
      /\ \A b \in Blocks : t.heap[b].live = s.heap[b].live /\ t.heap[b].nick = s.heap[b].nick
      /\ \A c : Listing(t, c) = Listing(s, c)
  BY DEF SameView
<1>2. Owned(s) => Owned(t)
  BY <1>1 DEF Owned
<1>3. Apart(s) => Apart(t)
  BY <1>1 DEF Apart
<1>4. Tidy(s) => Tidy(t)
  <2>1. \A c : \A b \in ToSet(Listing(s, c)) : b \in Blocks
    BY ListingIs, SetOf
  <2> QED BY <1>1, <2>1 DEF Tidy
<1>5. Within(s) => Within(t)
  BY <1>1 DEF Within, SameChans
<1> QED BY <1>2, <1>3, <1>4, <1>5

LEMMA MakeLoose ==
  ASSUME setting \in Settings, NEW s \in Tables, FreeBlocks(s) # {}, NEW n \in Nicks, Owned(s)
  PROVE  LET t == MakeUser(s, n)
             b == NewBlock(s)
         IN /\ t \in Tables /\ t.clist = s.clist /\ t.tab = s.tab /\ t.fault = s.fault
            /\ b \in Blocks /\ ~s.heap[b].live /\ t.heap[b].nick = n /\ t.heap[b].modes = {}
            /\ \A x \in Blocks : x # b => t.heap[x] = s.heap[x]
            /\ Owned(t) /\ Loose(t, b)
            /\ Tidy(s) => Tidy(t) /\ \A c \in Chans : b \notin ToSet(Listing(t, c))
            /\ Within(s) => Within(t)
<1> DEFINE t == MakeUser(s, n)
           b == NewBlock(s)
           u == [live |-> TRUE, nick |-> n, modes |-> {}]
<1>1. /\ b \in Blocks /\ ~s.heap[b].live
      /\ t \in Tables /\ t.clist = s.clist /\ t.tab = s.tab /\ t.fault = s.fault
      /\ t.heap = [s.heap EXCEPT ![b] = u]
  BY MakeIs
<1>2. s.heap \in [Blocks -> Record] /\ u.live /\ u.nick = n /\ u.modes = {}
  BY TablesAre
<1> HIDE DEF t, b, u
<1>3. t.heap[b] = u /\ \A x \in Blocks : x # b => t.heap[x] = s.heap[x]
  BY <1>1, <1>2
<1>4. \A d \in Chans, k \in Nicks : s.tab[d][k] # b
  BY <1>1 DEF Owned
<1>5. Owned(t)
  BY <1>1, <1>3, <1>4 DEF Owned
<1>6. Loose(t, b)
  BY <1>1, <1>2, <1>3, <1>4 DEF Loose
<1>7. \A c : Listing(t, c) = Listing(s, c)
  BY <1>1, SameListing
<1>8. ASSUME Tidy(s) PROVE Tidy(t) /\ \A c \in Chans : b \notin ToSet(Listing(t, c))
  <2>1. \A c \in Chans : \A x \in ToSet(Listing(s, c)) : x \in Blocks /\ x # b
    <3>1. \A c \in Chans : \A x \in ToSet(Listing(s, c)) : x \in Blocks
      BY ListingIs, SetOf
    <3> QED BY <1>1, <1>8, <3>1 DEF Tidy
  <2> QED BY <1>3, <1>7, <1>8, <2>1 DEF Tidy
<1>9. Within(s) => Within(t)
  BY <1>1 DEF Within
<1> QED BY <1>1, <1>2, <1>3, <1>5, <1>6, <1>8, <1>9 DEF t, b

(* What the keys are after add_user_info.                                   *)
LEMMA AddOwned ==
  ASSUME NEW s \in Tables, NEW c \in Chans, NEW b \in Blocks, NEW append, NEW t,
         Added(s, c, b, append, t), Owned(s), Loose(s, b)
  PROVE  Owned(t)
<1> DEFINE n == s.heap[b].nick
           old == s.tab[c][n]
<1>0. n \in Nicks /\ old # b /\ s.heap[b].live /\ (\A d \in Chans, k \in Nicks : s.tab[d][k] # b)
      /\ s.tab \in [Chans -> [Nicks -> Data]] /\ s.heap \in [Blocks -> Record]
  BY TablesAre DEF Loose
<1>1. CASE old \in Blocks
  <2>1. t.tab = [s.tab EXCEPT ![c][n] = b] /\ t.heap = [s.heap EXCEPT ![old] = Blank]
    BY <1>0, <1>1 DEF Added
  <2> HIDE DEF old
  <2>2. \A d \in Chans, k \in Nicks : t.tab[d][k] = IF d = c /\ k = n THEN b ELSE s.tab[d][k]
    <3> HIDE DEF n
    <3> QED BY <1>0, <2>1
  <2>3. \A x \in Blocks : x # old => t.heap[x] = s.heap[x]
    BY <1>0, <2>1
  <2>4. \A d \in Chans, k \in Nicks : s.tab[d][k] = old => d = c /\ k = n
    BY <1>0, <1>1 DEF Owned, old
  <2>5. ASSUME NEW d \in Chans, NEW k \in Nicks, t.tab[d][k] \in Blocks
        PROVE  t.heap[t.tab[d][k]].live /\ t.heap[t.tab[d][k]].nick = k
    <3>1. CASE d = c /\ k = n
      BY <1>0, <2>2, <2>3, <3>1, ZenonT(60)
    <3>2. CASE ~(d = c /\ k = n)
      <4>1. t.tab[d][k] = s.tab[d][k] /\ s.tab[d][k] # old
        BY <2>2, <2>4, <3>2
      <4> QED BY <2>3, <2>5, <4>1 DEF Owned
    <3> QED BY <3>1, <3>2, SMTT(60)
  <2>6. ASSUME NEW d \in Chans, NEW k \in Nicks, t.tab[d][k] \in Blocks,
               NEW e \in Chans, NEW j \in Nicks, t.tab[e][j] = t.tab[d][k]
        PROVE  e = d /\ j = k
    <3>1. CASE t.tab[d][k] = b
      BY <1>0, <2>2, <2>6, <3>1
    <3>2. CASE t.tab[d][k] # b
      <4>1. t.tab[d][k] = s.tab[d][k] /\ t.tab[e][j] = s.tab[e][j]
        BY <2>2, <2>6, <3>2, SMTT(60)
      <4> QED BY <2>6, <4>1 DEF Owned
    <3> QED BY <3>1, <3>2
  <2> QED BY <2>5, <2>6, SMTT(60) DEF Owned
<1>2. CASE old \notin Blocks
  <2> DEFINE v == IF old = "absent" THEN b ELSE old
  <2>1. t.tab = [s.tab EXCEPT ![c][n] = v] /\ t.heap = s.heap
    BY <1>2 DEF Added
  <2>2. v = b \/ v \notin Blocks
    BY <1>2
  <2> HIDE DEF v
  <2>3. \A d \in Chans, k \in Nicks : t.tab[d][k] = IF d = c /\ k = n THEN v ELSE s.tab[d][k]
    <3> HIDE DEF n
    <3> QED BY <1>0, <2>1, SMTT(60)
  <2>4. ASSUME NEW d \in Chans, NEW k \in Nicks, t.tab[d][k] \in Blocks
        PROVE  t.heap[t.tab[d][k]].live /\ t.heap[t.tab[d][k]].nick = k
    <3>1. CASE d = c /\ k = n
      BY <1>0, <2>1, <2>2, <2>3, <2>4, <3>1
    <3>2. CASE ~(d = c /\ k = n)
      <4>1. t.tab[d][k] = s.tab[d][k]
        BY <2>3, <3>2
      <4> QED BY <2>1, <2>4, <4>1 DEF Owned
    <3> QED BY <3>1, <3>2
  <2>5. ASSUME NEW d \in Chans, NEW k \in Nicks, t.tab[d][k] \in Blocks,
               NEW e \in Chans, NEW j \in Nicks, t.tab[e][j] = t.tab[d][k]
        PROVE  e = d /\ j = k
    <3>1. CASE t.tab[d][k] = b
      BY <1>0, <2>3, <2>5, <3>1
    <3>2. CASE t.tab[d][k] # b
      <4>1. t.tab[d][k] = s.tab[d][k] /\ t.tab[e][j] = s.tab[e][j]
        BY <2>2, <2>3, <2>5, <3>2
      <4> QED BY <2>5, <4>1 DEF Owned
    <3> QED BY <3>1, <3>2
  <2> QED BY <2>4, <2>5 DEF Owned
<1> QED BY <1>1, <1>2

(* What the keys and the list of the channel are after add_user_info, for   *)
(* whichever of its branches.                                               *)
Placed(s, c, b, t) ==
  LET n == s.heap[b].nick
      old == s.tab[c][n]
  IN /\ Once(Listing(t, c))
     /\ ToSet(Listing(t, c)) \subseteq ToSet(Listing(s, c)) \cup {b}
     /\ \A x \in ToSet(Listing(s, c)) : x # old => x \in ToSet(Listing(t, c))
     /\ old \notin ToSet(Listing(t, c))
     /\ \A x \in Blocks : x # old => t.heap[x] = s.heap[x]
     /\ \A d \in Chans, k \in Nicks :
          t.tab[d][k] \in Blocks => \/ t.tab[d][k] = s.tab[d][k] /\ (d # c \/ k # n)
                                    \/ t.tab[d][k] = b /\ d = c /\ k = n

LEMMA AddList ==
  ASSUME NEW s \in Tables, NEW c \in Chans, NEW b \in Blocks, NEW append \in BOOLEAN, NEW t,
         Added(s, c, b, append, t), Once(Listing(s, c)), b \notin ToSet(Listing(s, c)), Loose(s, b)
  PROVE  Placed(s, c, b, t)
<1> DEFINE n == s.heap[b].nick
           old == s.tab[c][n]
           l == Listing(s, c)
<1>0. n \in Nicks /\ old # b /\ s.tab \in [Chans -> [Nicks -> Data]] /\ s.heap \in [Blocks -> Record]
      /\ l \in Seq(Blocks) /\ old \in Data /\ ToSet(l) \subseteq Blocks
  <2>1. l \in Seq(Blocks)
    BY ListingIs
  <2>2. ToSet(l) \subseteq Blocks
    <3> HIDE DEF l
    <3> QED BY <2>1, SetOf, SMTT(60)
  <2> QED BY <2>1, <2>2, TablesAre DEF Loose
<1>1. CASE old \in Blocks
  <2>1. /\ t.tab = [s.tab EXCEPT ![c][n] = b] /\ t.heap = [s.heap EXCEPT ![old] = Blank]
        /\ Listing(t, c) = Swap(l, old, b)
    BY <1>0, <1>1 DEF Added
  <2> DEFINE q == Swap(l, old, b)
  <2>2. /\ Once(q) /\ ToSet(q) \subseteq ToSet(l) \cup {b} /\ old \notin ToSet(q)
        /\ \A x \in ToSet(l) : x # old => x \in ToSet(q)
    <3> HIDE DEF old
    <3> QED BY <1>0, <1>1, SwapList DEF l
  <2>3. \A d \in Chans, k \in Nicks : t.tab[d][k] = IF d = c /\ k = n THEN b ELSE s.tab[d][k]
    <3> HIDE DEF n, old, l, q
    <3> QED BY <1>0, <2>1
  <2>4. \A x \in Blocks : x # old => t.heap[x] = s.heap[x]
    <3> HIDE DEF old, l, q
    <3> QED BY <1>0, <2>1
  <2>5. /\ Once(Listing(t, c)) /\ ToSet(Listing(t, c)) \subseteq ToSet(l) \cup {b}
        /\ old \notin ToSet(Listing(t, c)) /\ \A x \in ToSet(l) : x # old => x \in ToSet(Listing(t, c))
    <3>1. Listing(t, c) = q
      BY <2>1
    <3> HIDE DEF q, old, l
    <3> QED BY <2>2, <3>1, SMTT(60)
  <2>6. \A d \in Chans, k \in Nicks :
          t.tab[d][k] \in Blocks => \/ t.tab[d][k] = s.tab[d][k] /\ (d # c \/ k # n)
                                    \/ t.tab[d][k] = b /\ d = c /\ k = n
    <3> HIDE DEF n, old, l, q
    <3> QED BY <2>3
  <2> QED BY <2>4, <2>5, <2>6, SMTT(60) DEF Placed
<1>2. CASE old \notin Blocks
  <2> DEFINE v == IF old = "absent" THEN b ELSE old
             q == IF append /\ ListOf(s, c) # 0 THEN <<b>> \o l ELSE l
  <2>1. t.tab = [s.tab EXCEPT ![c][n] = v] /\ t.heap = s.heap /\ Listing(t, c) = q
    BY <1>2 DEF Added
  <2>2. /\ Once(q) /\ ToSet(q) \subseteq ToSet(l) \cup {b} /\ old \notin ToSet(q)
        /\ \A x \in ToSet(l) : x \in ToSet(q)
    <3>1. CASE append /\ ListOf(s, c) # 0
      <4>1. q = <<b>> \o l
        BY <3>1
      <4> HIDE DEF q
      <4>2. ToSet(q) = {b} \cup ToSet(l) /\ Once(q)
        BY <1>0, <4>1, ConsList
      <4> QED BY <1>0, <1>2, <4>2
    <3>2. CASE ~(append /\ ListOf(s, c) # 0)
      <4>1. q = l
        BY <3>2
      <4> HIDE DEF q
      <4> QED BY <1>0, <1>2, <4>1
    <3> QED BY <3>1, <3>2
  <2>3. v = b \/ v \notin Blocks
    BY <1>2
  <2> HIDE DEF v, q
  <2>4. \A d \in Chans, k \in Nicks : t.tab[d][k] = IF d = c /\ k = n THEN v ELSE s.tab[d][k]
    <3> HIDE DEF n, old, l
    <3> QED BY <1>0, <2>1
  <2> QED BY <2>1, <2>2, <2>3, <2>4, SMTT(60) DEF Placed
<1> QED BY <1>1, <1>2

LEMMA AddTidy ==
  ASSUME NEW s \in Tables, NEW c \in Chans, NEW b \in Blocks, NEW append \in BOOLEAN, NEW t,
         Added(s, c, b, append, t), Owned(s), Apart(s), Tidy(s), Loose(s, b),
         \A d \in Chans : b \notin ToSet(Listing(s, d))
  PROVE  Tidy(t) /\ Apart(t)
<1> DEFINE n == s.heap[b].nick
           old == s.tab[c][n]
<1>0. n \in Nicks
  BY TablesAre
<1>1. /\ Once(Listing(t, c))
      /\ ToSet(Listing(t, c)) \subseteq ToSet(Listing(s, c)) \cup {b}
      /\ old \notin ToSet(Listing(t, c))
      /\ \A x \in Blocks : x # old => t.heap[x] = s.heap[x]
      /\ \A d \in Chans, k \in Nicks :
           t.tab[d][k] \in Blocks => \/ t.tab[d][k] = s.tab[d][k]
                                     \/ t.tab[d][k] = b /\ d = c
  <2>1. Once(Listing(s, c)) /\ b \notin ToSet(Listing(s, c))
    BY DEF Tidy
  <2>2. Placed(s, c, b, t)
    BY <2>1, AddList, SMTT(60)
  <2> QED BY <2>2 DEF Placed
<1>2. \A d : d # c => Listing(t, d) = Listing(s, d)
  BY DEF Added
<1>3. \A d \in Chans : \A x \in ToSet(Listing(s, d)) : x \in Blocks
  BY ListingIs, SetOf
<1>4. \A d \in Chans : d # c => old \notin ToSet(Listing(s, d))
  BY <1>0 DEF Apart
<1>5. s.heap[b].live /\ old # b
  BY <1>0 DEF Loose
<1> HIDE DEF old, n
<1>6. \A d \in Chans : \A x \in ToSet(Listing(t, d)) :
        x \in Blocks /\ x # old /\ (x \in ToSet(Listing(s, d)) \/ (x = b /\ d = c))
  BY <1>1, <1>2, <1>3, <1>4
<1>7. Tidy(t)
  <2>1. ASSUME NEW d \in Chans PROVE Once(Listing(t, d))
    BY <1>1, <1>2 DEF Tidy
  <2>2. ASSUME NEW d \in Chans, NEW x \in ToSet(Listing(t, d)) PROVE t.heap[x].live
    BY <1>1, <1>5, <1>6 DEF Tidy
  <2>3. ASSUME NEW d \in Chans, NEW x \in ToSet(Listing(t, d)), NEW e \in Chans, x \in ToSet(Listing(t, e))
        PROVE  e = d
    BY <1>6, <2>3 DEF Tidy
  <2> QED BY <2>1, <2>2, <2>3 DEF Tidy
<1>8. Apart(t)
  <2>1. ASSUME NEW d \in Chans, NEW x \in ToSet(Listing(t, d)), NEW e \in Chans, NEW k \in Nicks,
               t.tab[e][k] = x
        PROVE  e = d
    <3>1. x \in Blocks /\ (x \in ToSet(Listing(s, d)) \/ (x = b /\ d = c))
      BY <1>6
    <3>2. x = s.tab[e][k] \/ (x = b /\ e = c)
      BY <1>1, <2>1, <3>1
    <3>3. x = s.tab[e][k] => x # b
      BY DEF Loose
    <3>4. CASE x = b
      BY <3>1, <3>2, <3>3, <3>4
    <3>5. CASE x # b
      BY <3>1, <3>2, <3>5 DEF Apart
    <3> QED BY <3>4, <3>5
  <2> QED BY <2>1 DEF Apart
<1> QED BY <1>7, <1>8

LEMMA AddWithin ==
  ASSUME NEW s \in Tables, NEW c \in setting.chans, c \in Chans, NEW b \in Blocks, NEW append, NEW t,
         Added(s, c, b, append, t), Within(s)
  PROVE  Within(t)
<1> DEFINE n == s.heap[b].nick
           old == s.tab[c][n]
<1>0. n \in Nicks /\ s.tab \in [Chans -> [Nicks -> Data]]
  BY TablesAre, SMTT(60)
<1>1. SameChans(s, t)
  BY DEF Added
<1>2. \A d \in Chans, k \in Nicks : d # c => t.tab[d][k] = s.tab[d][k]
  <2>1. \/ t = s
        \/ t.tab = [s.tab EXCEPT ![c][n] = b]
        \/ t.tab = [s.tab EXCEPT ![c][n] = IF old = "absent" THEN b ELSE old]
    BY DEF Added
  <2> HIDE DEF n, old
  <2> QED BY <1>0, <2>1, SMTT(60)
<1>3. \A d \in Chans, k \in Nicks : t.tab[d][k] \in Blocks => d \in setting.chans
  BY <1>2 DEF Within
<1> QED BY <1>1, <1>3 DEF Within, SameChans

(* What the keys and the list of the channel are after rm_user_info.        *)
Cut(s, c, n, t) ==
  /\ t \in Tables /\ SameChans(s, t)
  /\ \A d \in Chans, k \in Nicks : t.tab[d][k] \in Blocks =>
       t.tab[d][k] = s.tab[d][k] /\ (d # c \/ k # n)
  /\ \A d : d # c => Listing(t, d) = Listing(s, d)
  /\ \/ Listing(t, c) = Listing(s, c) /\ t.heap = s.heap
     \/ \E b \in ToSet(Listing(s, c)) :
          /\ b \in Blocks /\ s.heap[b].nick = n
          /\ t.heap = [s.heap EXCEPT ![b] = Blank]
          /\ ToSet(Listing(t, c)) \subseteq ToSet(Listing(s, c))
          /\ \A x \in ToSet(Listing(s, c)) : x # b => x \in ToSet(Listing(t, c))
          /\ Once(Listing(s, c)) => Once(Listing(t, c)) /\ b \notin ToSet(Listing(t, c))

LEMMA RmList ==
  ASSUME NEW s \in Tables, NEW c \in Chans, NEW n \in Nicks, NEW t, Removed(s, c, n, t)
  PROVE  Cut(s, c, n, t)
<1> DEFINE list == Listing(s, c)
<1>1. t \in Tables /\ SameChans(s, t) /\ \A d : d # c => Listing(t, d) = Listing(s, d)
  BY DEF Removed
<1>2. list \in Seq(Blocks)
  BY ListingIs
<1>3. s.tab \in [Chans -> [Nicks -> Data]] /\ "null" \notin Blocks /\ "absent" \notin Blocks
  BY TablesAre, NotBlocks
<1>4. CASE s.tab[c][n] = "absent"
  <2>1. t.clist = s.clist /\ t.tab = s.tab /\ t.heap = s.heap
    BY <1>4 DEF Removed
  <2>2. Listing(t, c) = Listing(s, c)
    BY <1>1, <2>1, SameListing
  <2> QED BY <1>1, <1>3, <1>4, <2>1, <2>2 DEF Cut
<1>5. CASE s.tab[c][n] # "absent"
  <2>1. /\ t.tab = [s.tab EXCEPT ![c][n] = "null"]
        /\ \/ t.clist = s.clist /\ t.heap = s.heap
           \/ \E j \in 1 .. Len(list) :
                /\ s.heap[list[j]].nick = n
                /\ t.heap = [s.heap EXCEPT ![list[j]] = Blank]
                /\ Listing(t, c) = RemoveAt(list, j)
    BY <1>5 DEF Removed
  <2>2. \A d \in Chans, k \in Nicks : t.tab[d][k] = IF d = c /\ k = n THEN "null" ELSE s.tab[d][k]
    <3> HIDE DEF list
    <3> QED BY <1>3, <2>1
  <2>3. \A d \in Chans, k \in Nicks : t.tab[d][k] \in Blocks =>
          t.tab[d][k] = s.tab[d][k] /\ (d # c \/ k # n)
    BY <1>3, <2>2
  <2>4. CASE t.clist = s.clist /\ t.heap = s.heap
    <3>1. Listing(t, c) = Listing(s, c)
      BY <1>1, <2>4, SameListing
    <3> QED BY <1>1, <2>3, <2>4, <3>1 DEF Cut
  <2>5. ASSUME NEW j \in 1 .. Len(list), s.heap[list[j]].nick = n,
               t.heap = [s.heap EXCEPT ![list[j]] = Blank], Listing(t, c) = RemoveAt(list, j)
        PROVE  \E b \in ToSet(Listing(s, c)) :
                 /\ b \in Blocks /\ s.heap[b].nick = n
                 /\ t.heap = [s.heap EXCEPT ![b] = Blank]
                 /\ ToSet(Listing(t, c)) \subseteq ToSet(Listing(s, c))
                 /\ \A x \in ToSet(Listing(s, c)) : x # b => x \in ToSet(Listing(t, c))
                 /\ Once(Listing(s, c)) => Once(Listing(t, c)) /\ b \notin ToSet(Listing(t, c))
    <3>1. list[j] \in ToSet(list) /\ list[j] \in Blocks
      <4> HIDE DEF list
      <4> QED BY <1>2, SetOf
    <3>2. /\ ToSet(RemoveAt(list, j)) \subseteq ToSet(list)
          /\ \A x \in ToSet(list) : x # list[j] => x \in ToSet(RemoveAt(list, j))
          /\ Once(list) => Once(RemoveAt(list, j)) /\ list[j] \notin ToSet(RemoveAt(list, j))
      <4> HIDE DEF list
      <4> QED BY <1>2, CutList
    <3> QED BY <2>5, <3>1, <3>2
  <2> QED BY <1>1, <2>1, <2>3, <2>4, <2>5 DEF Cut
<1> QED BY <1>4, <1>5

(* The keys that rm_user_info leaves lead where they led: the block it      *)
(* frees had no other key than the one that is cleared.                     *)
LEMMA RmKept ==
  ASSUME NEW s \in Tables, NEW c \in Chans, NEW n \in Nicks, NEW t, Removed(s, c, n, t),
         Owned(s), Apart(s)
  PROVE  \A d \in Chans, k \in Nicks : t.tab[d][k] \in Blocks =>
           /\ t.tab[d][k] = s.tab[d][k] /\ (d # c \/ k # n)
           /\ t.heap[t.tab[d][k]] = s.heap[t.tab[d][k]]
           /\ t.tab[d][k] \in ToSet(Listing(s, d)) => t.tab[d][k] \in ToSet(Listing(t, d))
<1> SUFFICES ASSUME NEW d \in Chans, NEW k \in Nicks, t.tab[d][k] \in Blocks
             PROVE  /\ t.tab[d][k] = s.tab[d][k] /\ (d # c \/ k # n)
                    /\ t.heap[t.tab[d][k]] = s.heap[t.tab[d][k]]
                    /\ t.tab[d][k] \in ToSet(Listing(s, d)) => t.tab[d][k] \in ToSet(Listing(t, d))
  OBVIOUS
<1> DEFINE x == t.tab[d][k]
<1>0. Cut(s, c, n, t)
  BY RmList
<1>1. x = s.tab[d][k] /\ (d # c \/ k # n) /\ x \in Blocks
  BY <1>0 DEF Cut
<1>2. s.heap \in [Blocks -> Record] /\ s.heap[x].nick = k
  BY <1>1, TablesAre DEF Owned
<1>3. CASE Listing(t, c) = Listing(s, c) /\ t.heap = s.heap
  <2>1. \A e : Listing(t, e) = Listing(s, e)
    BY <1>0, <1>3 DEF Cut
  <2> QED BY <1>1, <1>3, <2>1
<1>4. ASSUME NEW b \in ToSet(Listing(s, c)), b \in Blocks, s.heap[b].nick = n,
             t.heap = [s.heap EXCEPT ![b] = Blank],
             \A y \in ToSet(Listing(s, c)) : y # b => y \in ToSet(Listing(t, c))
      PROVE  t.heap[x] = s.heap[x] /\ (x \in ToSet(Listing(s, d)) => x \in ToSet(Listing(t, d)))
  <2>1. x # b
    BY <1>1, <1>2, <1>4 DEF Apart
  <2>2. t.heap[x] = s.heap[x]
    <3> HIDE DEF x
    <3> QED BY <1>1, <1>2, <1>4, <2>1
  <2>3. d # c => Listing(t, d) = Listing(s, d)
    BY <1>0 DEF Cut
  <2> QED BY <1>4, <2>1, <2>2, <2>3
<1> QED BY <1>0, <1>1, <1>3, <1>4 DEF Cut

LEMMA RmKeys ==
  ASSUME NEW s \in Tables, NEW c \in Chans, NEW n \in Nicks, NEW t, Removed(s, c, n, t),
         Owned(s), Apart(s)
  PROVE  /\ Owned(t) /\ Apart(t)
         /\ Tidy(s) => Tidy(t)
         /\ Within(s) => Within(t)
<1>0. Cut(s, c, n, t)
  BY RmList
<1>1. /\ t \in Tables /\ SameChans(s, t)
      /\ \A d \in Chans, k \in Nicks : t.tab[d][k] \in Blocks =>
           t.tab[d][k] = s.tab[d][k] /\ t.heap[t.tab[d][k]] = s.heap[t.tab[d][k]]
  BY <1>0, RmKept DEF Cut
<1>2. \A d \in Chans : /\ ToSet(Listing(t, d)) \subseteq ToSet(Listing(s, d))
                       /\ \A x \in ToSet(Listing(t, d)) : x \in Blocks
  <2>1. \A d \in Chans : ToSet(Listing(t, d)) \subseteq ToSet(Listing(s, d))
    <3>1. ToSet(Listing(t, c)) \subseteq ToSet(Listing(s, c))
      BY <1>0 DEF Cut
    <3>2. \A d : d # c => Listing(t, d) = Listing(s, d)
      BY <1>0 DEF Cut
    <3> QED BY <3>1, <3>2
  <2>2. \A d \in Chans : \A x \in ToSet(Listing(t, d)) : x \in Blocks
    BY <1>1, ListingIs, SetOf
  <2> QED BY <2>1, <2>2
<1>3. Owned(t)
  BY <1>1, SMTT(60) DEF Owned
<1>4. Apart(t)
  BY <1>1, <1>2 DEF Apart
<1>5. ASSUME Tidy(s) PROVE Tidy(t)
  <2>1. \A d \in Chans : Once(Listing(t, d))
    BY <1>0, <1>5 DEF Tidy, Cut
  <2>2. ASSUME NEW d \in Chans, NEW x \in ToSet(Listing(t, d)) PROVE t.heap[x].live
    <3>1. s.heap[x].live /\ x \in Blocks /\ x \in ToSet(Listing(s, d))
      BY <1>2, <1>5, <2>2 DEF Tidy
    <3>2. s.heap \in [Blocks -> Record]
      BY TablesAre
    <3>3. ASSUME NEW b \in ToSet(Listing(s, c)), b \in Blocks, t.heap = [s.heap EXCEPT ![b] = Blank],
                 b \notin ToSet(Listing(t, c))
          PROVE  t.heap[x].live
      <4>1. x # b
        BY <1>5, <2>2, <3>1, <3>3 DEF Tidy
      <4> QED BY <3>1, <3>2, <3>3, <4>1
    <3>4. Once(Listing(s, c))
      BY <1>5 DEF Tidy
    <3> QED BY <1>0, <3>1, <3>3, <3>4 DEF Cut
  <2>3. \A d \in Chans : \A x \in ToSet(Listing(t, d)) : \A e \in Chans :
          x \in ToSet(Listing(t, e)) => e = d
    BY <1>2, <1>5 DEF Tidy
  <2> QED BY <2>1, <2>2, <2>3 DEF Tidy
<1>6. Within(s) => Within(t)
  BY <1>1 DEF Within, SameChans
<1> QED BY <1>3, <1>4, <1>5, <1>6

(* Where there is one channel, no list is about another.                    *)
OneChan == \A c, d \in setting.chans : c = d

LEMMA ApartIs ==
  ASSUME NEW s \in Tables, Within(s), OneChan
  PROVE  Apart(s)
<1> SUFFICES ASSUME NEW c \in Chans, NEW b \in ToSet(Listing(s, c)),
                    NEW d \in Chans, NEW k \in Nicks, s.tab[d][k] = b
             PROVE  d = c
  BY DEF Apart
<1>1. b \in Blocks
  BY ListingIs, SetOf
<1>2. d \in setting.chans
  BY <1>1 DEF Within
<1>3. ListOf(s, c) # 0
  <2>1. SUFFICES ASSUME ListOf(s, c) = 0 PROVE FALSE
    OBVIOUS
  <2>2. Listing(s, c) = <<>>
    BY <2>1, ListingIs
  <2>3. \E i \in 1 .. Len(Listing(s, c)) : Listing(s, c)[i] = b
    BY ListingIs, SetOf
  <2> QED BY <2>2, <2>3
<1>4. ListOf(s, c) \in 1 .. Len(s.clist) /\ s.clist[ListOf(s, c)].chan = c
  BY <1>3, ListingIs
<1>5. c \in setting.chans
  BY <1>4 DEF Within
<1> QED BY <1>2, <1>5 DEF OneChan

(***************************************************************************)
(* The handlers keep the keys.                                             *)
(***************************************************************************)
Sound(s) == Within(s) /\ Owned(s) /\ Apart(s) /\ (OneChan \/ Tidy(s))

LEMMA ViewSound ==
  ASSUME NEW s \in Tables, NEW t, SameView(s, t), Sound(s)
  PROVE  Sound(t)
BY ViewKeeps DEF Sound

LEMMA ChanIs ==
  ASSUME setting \in Settings, NEW c \in setting.chans
  PROVE  c \in Chans
BY SettingIs

(* on_join.                                                                 *)
LEMMA JoinSound ==
  ASSUME setting \in Settings, NEW s \in Tables, FreeBlocks(s) # {}, NEW c \in setting.chans,
         NEW n \in Nicks, Sound(s)
  PROVE  Sound(OnJoin(s, c, n))
<1> DEFINE m == MakeUser(s, n)
           b == NewBlock(s)
           t == OnJoin(s, c, n)
<1>0. c \in Chans
  BY ChanIs
<1>1. /\ m \in Tables /\ m.clist = s.clist /\ m.tab = s.tab /\ b \in Blocks
      /\ Owned(m) /\ Loose(m, b) /\ Within(m)
      /\ Tidy(s) => Tidy(m) /\ \A d \in Chans : b \notin ToSet(Listing(m, d))
  BY MakeLoose DEF Sound
<1>2. Added(m, c, b, TRUE, t)
  BY <1>0, <1>1, AddIs DEF OnJoin
<1>3. Apart(m)
  <2>1. \A d : Listing(m, d) = Listing(s, d)
    BY <1>1, SameListing
  <2> QED BY <1>1, <2>1 DEF Sound, Apart
<1>4. t \in Tables
  BY <1>2, ZenonT(60) DEF Added
<1> HIDE DEF t, m, b
<1>5. Owned(t)
  BY <1>0, <1>1, <1>2, AddOwned
<1>6. Within(t)
  BY <1>0, <1>1, <1>2, AddWithin
<1>7. CASE OneChan
  BY <1>4, <1>5, <1>6, <1>7, ApartIs DEF Sound, t
<1>8. CASE Tidy(s)
  BY <1>0, <1>1, <1>2, <1>3, <1>5, <1>6, <1>8, AddTidy DEF Sound, t
<1> QED BY <1>7, <1>8 DEF Sound

(* on_part, and on_quit in one channel.                                     *)
LEMMA RmSound ==
  ASSUME NEW s \in Tables, NEW c \in Chans, NEW n \in Nicks, Sound(s)
  PROVE  RmUser(s, c, n, TRUE) \in Tables /\ Sound(RmUser(s, c, n, TRUE))
<1> DEFINE t == RmUser(s, c, n, TRUE)
<1>1. Removed(s, c, n, t)
  BY RmIs
<1>2. t \in Tables
  BY <1>1 DEF Removed
<1> HIDE DEF t
<1>3. Owned(t) /\ Apart(t) /\ (Tidy(s) => Tidy(t)) /\ (Within(s) => Within(t))
  BY <1>1, RmKeys DEF Sound
<1> QED BY <1>2, <1>3 DEF Sound, t

LEMMA GetSound ==
  ASSUME NEW s \in Tables, NEW c \in Chans, NEW n \in Nicks, Sound(s)
  PROVE  GetUser(s, c, n) \in Tables /\ Sound(GetUser(s, c, n))
<1>1. Got(s, c, n, GetUser(s, c, n))
  BY GetIs
<1>2. SameView(s, GetUser(s, c, n))
  BY <1>1 DEF Got, SameView
<1> QED BY <1>1, <1>2, ViewSound DEF Got

LEMMA ModesSound ==
  ASSUME NEW s \in Tables, NEW b \in Blocks, NEW added \in SUBSET Modes, NEW removed \in SUBSET Modes,
         Sound(s)
  PROVE  Sound(WithModes(s, b, added, removed))
<1> DEFINE t == WithModes(s, b, added, removed)
<1>1. Remoded(s, b, added, removed, t)
  BY ModesIs
<1>2. t \in Tables /\ t.clist = s.clist
  BY <1>1 DEF Remoded
<1>3. SameChans(s, t) /\ \A d : Listing(t, d) = Listing(s, d)
  BY <1>2, SameListing
<1> HIDE DEF t
<1>4. SameView(s, t)
  BY <1>1, <1>2, <1>3 DEF Remoded, SameView
<1> QED BY <1>4, ViewSound DEF t

(* on_mode, and on_who and on_names for one user.                           *)
LEMMA UpdateSound ==
  ASSUME setting \in Settings, NEW s \in Tables, FreeBlocks(s) # {}, NEW c \in setting.chans,
         NEW n \in Nicks, NEW added \in SUBSET Modes, NEW removed \in SUBSET Modes, Sound(s)
  PROVE  Sound(UpdateUser(s, c, n, added, removed))
<1> DEFINE got == GetUser(s, c, n)
<1>0. c \in Chans
  BY ChanIs
<1>1. got \in Tables /\ Sound(got)
  BY <1>0, GetSound
<1>2. FreeBlocks(got) # {}
  BY <1>0, GetIs DEF Got
<1>3. PICK k \in Tables, b \in Blocks :
        /\ k = got \/ k = OnJoin(got, c, n)
        /\ UpdateUser(s, c, n, added, removed) = WithModes(k, b, added, removed)
  <2>1. Updated(s, c, n, added, removed, UpdateUser(s, c, n, added, removed))
    BY <1>0, UpdateIs
  <2> QED BY <2>1 DEF Updated
<1> HIDE DEF got
<1>4. Sound(k)
  BY <1>1, <1>2, <1>3, JoinSound
<1> QED BY <1>3, <1>4, ModesSound

(* on_join for the bot: the newest entry hides the older ones.              *)
LEMMA BotJoinSound ==
  ASSUME NEW s \in Tables, NEW c \in setting.chans, c \in Chans, Sound(s)
  PROVE  /\ OnBotJoin(s, c) \in Tables /\ Sound(OnBotJoin(s, c))
         /\ Tidy(s) => Tidy(OnBotJoin(s, c))
         /\ \A d \in Chans : ToSet(Listing(OnBotJoin(s, c), d)) \subseteq ToSet(Listing(s, d))
         /\ \A d \in Chans : d # c => Listing(OnBotJoin(s, c), d) = Listing(s, d)
<1> DEFINE t == OnBotJoin(s, c)
<1>1. /\ t \in Tables /\ t.tab = s.tab /\ t.heap = s.heap
      /\ Len(t.clist) = Len(s.clist) + 1 /\ t.clist[1] = [chan |-> c, users |-> <<>>]
      /\ \A i \in 1 .. Len(s.clist) : t.clist[i + 1] = s.clist[i]
  BY BotJoinIs
<1> HIDE DEF t
<1>2. Len(s.clist) \in Nat /\ \A i \in 1 .. Len(t.clist) : i = 1 \/ i - 1 \in 1 .. Len(s.clist)
  BY <1>1, ClistIs
<1>3. \A i \in 1 .. Len(t.clist) : i = 1 \/ t.clist[i] = s.clist[i - 1]
  BY <1>1, <1>2
<1>4. Listing(t, c) = <<>>
  <2>1. ListOf(t, c) = 1
    <3>1. 1 \in 1 .. Len(t.clist) /\ t.clist[1].chan = c
      BY <1>1, <1>2
    <3>2. ListOf(t, c) \in 1 .. Len(t.clist) /\ ListOf(t, c) <= 1
      BY <1>1, <3>1, ListOfIs
    <3> QED BY <1>2, <3>2
  <2> QED BY <1>1, <2>1 DEF Listing, UserList
<1>5. ASSUME NEW d, d # c PROVE Listing(t, d) = Listing(s, d)
  <2>1. CASE ListOf(s, d) = 0
    <3>1. \A i \in 1 .. Len(s.clist) : s.clist[i].chan # d
      BY <1>2, <2>1, ListOfIs
    <3>2. \A i \in 1 .. Len(t.clist) : t.clist[i].chan # d
      <4> SUFFICES ASSUME NEW i \in 1 .. Len(t.clist) PROVE t.clist[i].chan # d
        OBVIOUS
      <4>1. i = 1 => t.clist[i].chan = c
        BY <1>1
      <4>2. i # 1 => i - 1 \in 1 .. Len(s.clist) /\ t.clist[i] = s.clist[i - 1]
        BY <1>2, <1>3
      <4> QED BY <1>5, <3>1, <4>1, <4>2
    <3>3. ListOf(t, d) = 0
      BY <1>1, <3>2, ListOfIs
    <3> QED BY <2>1, <3>3 DEF Listing
  <2>2. CASE ListOf(s, d) # 0
    <3> DEFINE i == ListOf(s, d)
               j == ListOf(t, d)
    <3>1. i \in 1 .. Len(s.clist) /\ s.clist[i].chan = d
          /\ \A k \in 1 .. Len(s.clist) : s.clist[k].chan = d => i <= k
      BY <2>2, ListOfIs
    <3>2. t.clist[i + 1] = s.clist[i] /\ i + 1 \in 1 .. Len(t.clist)
      BY <1>1, <1>2, <3>1
    <3>3. j \in 1 .. Len(t.clist) /\ t.clist[j].chan = d
          /\ \A k \in 1 .. Len(t.clist) : t.clist[k].chan = d => j <= k
      BY <1>1, <3>1, <3>2, ListOfIs, SMTT(60)
    <3> HIDE DEF i, j
    <3>4. j # 1
      BY <1>1, <1>5, <3>3
    <3>5. j - 1 \in 1 .. Len(s.clist) /\ s.clist[j - 1].chan = d
      BY <1>2, <1>3, <3>3, <3>4
    <3>6. j = i + 1
      BY <1>1, <1>2, <3>1, <3>2, <3>3, <3>5, SMTT(60)
    <3>7. j # 0 /\ i # 0 /\ t.clist[j].users = s.clist[i].users
      BY <3>1, <3>2, <3>3, <3>6
    <3> QED BY <3>7 DEF Listing, UserList, i, j
  <2> QED BY <2>1, <2>2
<1>6. ToSet(<<>>) = {} /\ Once(<<>>)
  BY DEF ToSet, Once
<1>7. \A d : ToSet(Listing(t, d)) \subseteq ToSet(Listing(s, d))
  BY <1>4, <1>5, <1>6
<1>8. Owned(t) /\ Apart(t)
  BY <1>1, <1>7 DEF Sound, Owned, Apart
<1>9. Within(t)
  <2>1. \A i \in 1 .. Len(t.clist) : t.clist[i].chan \in setting.chans
    <3> SUFFICES ASSUME NEW i \in 1 .. Len(t.clist) PROVE t.clist[i].chan \in setting.chans
      OBVIOUS
    <3>1. i = 1 => t.clist[i].chan = c
      BY <1>1
    <3>2. i # 1 => i - 1 \in 1 .. Len(s.clist) /\ t.clist[i] = s.clist[i - 1]
      BY <1>2, <1>3
    <3> QED BY <3>1, <3>2 DEF Sound, Within
  <2> QED BY <1>1, <2>1 DEF Sound, Within
<1>10. Tidy(s) => Tidy(t)
  <2>1. Tidy(s) => \A d \in Chans : Once(Listing(t, d))
    BY <1>4, <1>5, <1>6 DEF Tidy
  <2> QED BY <1>1, <1>7, <2>1 DEF Tidy
<1> QED BY <1>1, <1>5, <1>7, <1>8, <1>9, <1>10 DEF Sound, t

(* on_nick_change in the one channel there is.                              *)
LEMMA RenameSound ==
  ASSUME setting \in Settings, NEW s \in Tables, NEW c \in setting.chans, NEW old \in Nicks,
         NEW new \in Nicks, NEW harm \in BOOLEAN, Sound(s), OneChan
  PROVE  Rename(s, c, old, new, harm) \in Tables /\ Sound(Rename(s, c, old, new, harm))
<1> DEFINE t == Rename(s, c, old, new, harm)
<1>0. c \in Chans
  BY ChanIs
<1>1. CASE HasUser(s, c, old) /\ harm = FALSE
  <2> DEFINE b == s.tab[c][old]
  <2>1. b \in Blocks
    BY <1>0, <1>1, RenameIs
  <2>2. PICK m \in Tables : /\ m.clist = s.clist
                            /\ m.tab = [s.tab EXCEPT ![c][old] = "null"]
                            /\ m.heap = [s.heap EXCEPT ![b] = [s.heap[b] EXCEPT !.nick = new]]
                            /\ Added(m, c, b, FALSE, t)
    BY <1>0, <1>1, RenameIs
  <2>3. s.tab \in [Chans -> [Nicks -> Data]] /\ s.heap \in [Blocks -> Record] /\ "null" \notin Blocks
    BY TablesAre, NotBlocks
  <2> HIDE DEF t
  <2>4. \A d \in Chans, k \in Nicks : s.tab[d][k] = b => d = c /\ k = old
    BY <1>0, <2>1 DEF Sound, Owned
  <2>5. s.heap[b].live
    BY <1>0, <2>1 DEF Sound, Owned
  <2> HIDE DEF b
  <2>6. \A d \in Chans, k \in Nicks :
          m.tab[d][k] = IF d = c /\ k = old THEN "null" ELSE s.tab[d][k]
    BY <1>0, <2>2, <2>3
  <2>7. m.heap[b].live = s.heap[b].live /\ \A x \in Blocks : x # b => m.heap[x] = s.heap[x]
    BY <2>1, <2>2, <2>3
  <2>8. Owned(m)
    BY <2>3, <2>4, <2>6, <2>7 DEF Sound, Owned
  <2>9. Loose(m, b)
    BY <2>1, <2>3, <2>4, <2>5, <2>6, <2>7 DEF Loose
  <2>10. Within(m)
    BY <2>2, <2>3, <2>6, SMTT(60) DEF Sound, Within
  <2>11. t \in Tables
    BY <2>2 DEF Added
  <2>12. Owned(t)
    BY <1>0, <2>1, <2>2, <2>8, <2>9, AddOwned
  <2>13. Within(t)
    BY <1>0, <2>1, <2>2, <2>10, AddWithin
  <2> QED BY <2>11, <2>12, <2>13, ApartIs DEF Sound, t
<1>2. CASE harm \/ ~HasUser(s, c, old)
  <2>1. SameView(s, t) /\ t \in Tables
    BY <1>0, <1>2, HarmIs DEF SameView
  <2> QED BY <2>1, ViewSound
<1> QED BY <1>1, <1>2

(* on_part for the bot, where there is one channel.                         *)
LEMMA BotPartSound ==
  ASSUME NEW s \in Tables, NEW c \in Chans, Sound(s), OneChan
  PROVE  Sound(OnBotPart(s, c))
<1> DEFINE t == OnBotPart(s, c)
<1>1. /\ t \in Tables /\ t.tab = s.tab /\ t.heap = s.heap
      /\ \A i \in 1 .. Len(t.clist) : \E j \in 1 .. Len(s.clist) : t.clist[i] = s.clist[j]
  BY BotPartIs
<1> HIDE DEF t
<1>2. Owned(t)
  BY <1>1 DEF Sound, Owned
<1>3. Within(t)
  <2>1. ASSUME NEW i \in 1 .. Len(t.clist) PROVE t.clist[i].chan \in setting.chans
    BY <1>1 DEF Sound, Within
  <2> QED BY <1>1, <2>1 DEF Sound, Within
<1> QED BY <1>1, <1>2, <1>3, ApartIs DEF Sound, t

(* The loop over names, and those over channels.                            *)
LEMMA NamesSound ==
  ASSUME setting \in Settings, NEW c \in setting.chans, NEW q \in Names, NEW s \in Tables, Sound(s),
         Cardinality(FreeBlocks(s)) >= Len(q)
  PROVE  OnNames(s, c, q) \in Tables /\ Sound(OnNames(s, c, q))
<1> DEFINE S == {x \in Tables : Sound(x)}
<1>0. c \in Chans
  BY ChanIs
<1>1. \A x \in S : FreeBlocks(x) # {} => \A i \in 1 .. Len(q) : OnWho(x, c, q[i][1], q[i][2]) \in S
  <2> SUFFICES ASSUME NEW x \in S, FreeBlocks(x) # {}, NEW i \in 1 .. Len(q)
               PROVE  OnWho(x, c, q[i][1], q[i][2]) \in S
    OBVIOUS
  <2>1. q[i][1] \in Nicks /\ q[i][2] \in SUBSET Modes
    BY NamesAre
  <2>2. Prefix(q[i][2]) \in SUBSET Modes /\ {} \in SUBSET Modes
    BY <2>1, PrefixIs
  <2>3. OnWho(x, c, q[i][1], q[i][2]) \in Tables
    BY <1>0, <2>1, WhoType
  <2>4. Sound(OnWho(x, c, q[i][1], q[i][2]))
    BY <2>1, <2>2, UpdateSound DEF OnWho
  <2> QED BY <2>3, <2>4
<1>2. S \in SUBSET Tables /\ s \in S
  OBVIOUS
<1> HIDE DEF S
<1>3. OnNames(s, c, q) \in S
  BY <1>0, <1>1, <1>2, NamesStay
<1> QED BY <1>3 DEF S

LEMMA QuitSound ==
  ASSUME NEW s \in Tables, NEW n \in Nicks, Sound(s)
  PROVE  OnQuit(s, n) \in Tables /\ Sound(OnQuit(s, n))
<1> DEFINE S == {x \in Tables : Sound(x)}
           Q == [i \in 0 .. Len(s.clist) |-> S]
<1>1. Len(s.clist) \in Nat /\ \A i \in 1 .. Len(s.clist) : s.clist[i].chan \in Chans
  BY ClistIs
<1>2. \A i \in 0 .. Len(s.clist) : Q[i] = S
  OBVIOUS
<1>3. s \in S
  OBVIOUS
<1>4. \A x \in S : \A c \in Chans : RmUser(x, c, n, TRUE) \in S
  BY RmSound
<1>5. 0 \in 0 .. Len(s.clist) /\ Len(s.clist) \in 0 .. Len(s.clist)
      /\ \A i \in 1 .. Len(s.clist) : i \in 0 .. Len(s.clist) /\ i - 1 \in 0 .. Len(s.clist)
  BY <1>1
<1> HIDE DEF Q, S
<1>6. OnQuit(s, n) \in Q[Len(s.clist)]
  BY <1>1, <1>2, <1>3, <1>4, <1>5, QuitStays
<1>7. OnQuit(s, n) \in S
  BY <1>2, <1>5, <1>6
<1> QED BY <1>7 DEF S

LEMMA NickSound ==
  ASSUME setting \in Settings, NEW s \in Tables, NEW old \in Nicks, NEW new \in Nicks,
         NEW harm \in BOOLEAN, Sound(s), OneChan
  PROVE  OnNick(s, old, new, harm) \in Tables /\ Sound(OnNick(s, old, new, harm))
<1> DEFINE S == {x \in Tables : Sound(x)}
           Q == [i \in 0 .. Len(s.clist) |-> S]
<1>1. Len(s.clist) \in Nat /\ \A i \in 1 .. Len(s.clist) : s.clist[i].chan \in setting.chans
  BY ClistIs DEF Sound, Within
<1>2. \A i \in 0 .. Len(s.clist) : Q[i] = S
  OBVIOUS
<1>3. s \in S
  OBVIOUS
<1>4. \A x \in S : \A c \in setting.chans : Rename(x, c, old, new, harm) \in S
  BY RenameSound
<1>5. 0 \in 0 .. Len(s.clist) /\ Len(s.clist) \in 0 .. Len(s.clist)
      /\ \A i \in 1 .. Len(s.clist) : i \in 0 .. Len(s.clist) /\ i - 1 \in 0 .. Len(s.clist)
  BY <1>1
<1> HIDE DEF Q, S
<1>6. OnNick(s, old, new, harm) \in Q[Len(s.clist)]
  BY <1>1, <1>2, <1>3, <1>4, <1>5, NickStays
<1>7. OnNick(s, old, new, harm) \in S
  BY <1>2, <1>5, <1>6
<1> QED BY <1>7 DEF S

(* Where renames and departures of the bot happen, there is one channel.    *)
LEMMA ApartMeans == ListsApart /\ Events \cap {"nick", "botpart"} # {} => OneChan
BY DEF ListsApart, OneChan

LEMMA SoundKeeps ==
  ServerOK /\ info \in Tables /\ ListsApart /\ Sound(info) /\ Next => Sound(info')
<1> SUFFICES ASSUME ServerOK, info \in Tables, ListsApart, Sound(info), Next PROVE Sound(info')
  OBVIOUS
<1>0. /\ setting \in Settings /\ setting.chans \subseteq Chans /\ setting.users \subseteq Nicks
      /\ members \in [Chans -> SUBSET Users] /\ modes \in [Chans -> [Users -> SUBSET Modes]]
  BY SettingIs DEF ServerOK
<1>a. ASSUME NEW t \in Tables, Sound(t), Becomes(Unhooked(t)) PROVE Sound(info')
  <2>1. /\ Unhooked(t) \in Tables /\ Unhooked(t).clist = t.clist /\ Unhooked(t).tab = t.tab
        /\ Unhooked(t).heap = t.heap
    BY <1>a, UnhookedIs
  <2>2. SameChans(t, Unhooked(t)) /\ \A c : Listing(Unhooked(t), c) = Listing(t, c)
    BY <1>a, <2>1, SameListing
  <2>3. SameView(t, Unhooked(t))
    BY <2>1, <2>2 DEF SameView
  <2>4. Sound(Unhooked(t))
    BY <1>a, <2>3, ViewSound
  <2> QED BY <1>a, <2>1, <2>4, BecomesIs
<1>b. ASSUME NEW t \in Tables, Sound(t), Becomes(t) PROVE Sound(info')
  BY <1>b, BecomesIs
<1>1. CASE Other
  BY <1>1, <1>a DEF Other
<1>2. ASSUME NEW c \in setting.chans, BotJoin(c) PROVE Sound(info')
  <2> DEFINE s == OnBotJoin(info, c)
  <2>1. PICK q \in Names : /\ Cardinality(FreeBlocks(s)) >= Len(q)
                           /\ Becomes(Unhooked(OnNames(s, c, q)))
    BY <1>2, BotJoinFacts
  <2>2. s \in Tables /\ Sound(s)
    BY <1>0, BotJoinSound
  <2> HIDE DEF s
  <2>3. OnNames(s, c, q) \in Tables /\ Sound(OnNames(s, c, q))
    BY <1>0, <2>1, <2>2, NamesSound
  <2> QED BY <1>a, <2>1, <2>3
<1>3. ASSUME NEW c \in setting.chans, WhoReply(c) PROVE Sound(info')
  <2> DEFINE q == Listed(members[c], modes[c])
  <2>1. Cardinality(FreeBlocks(info)) >= Cardinality(members[c]) /\ Becomes(Unhooked(OnNames(info, c, q)))
    BY <1>3 DEF WhoReply, Room
  <2>2. q \in Names /\ Len(q) = Cardinality(members[c])
    <3>1. members[c] \in SUBSET Nicks /\ \A n \in members[c] : modes[c][n] \in SUBSET Modes
      BY <1>0, SettingIs
    <3> QED BY <3>1, ListedIs DEF NamesOf
  <2> HIDE DEF q
  <2>3. OnNames(info, c, q) \in Tables /\ Sound(OnNames(info, c, q))
    BY <1>0, <2>1, <2>2, NamesSound
  <2> QED BY <1>a, <2>1, <2>3
<1>4. ASSUME NEW c \in setting.chans, BotPart(c) PROVE Sound(info')
  <2>1. OneChan
    BY <1>4, ApartMeans DEF BotPart
  <2>2. OnBotPart(info, c) \in Tables /\ Sound(OnBotPart(info, c))
    BY <1>0, <2>1, BotPartIs, BotPartSound
  <2> QED BY <1>4, <1>b, <2>2 DEF BotPart
<1>5. ASSUME NEW c \in setting.chans, NEW n \in setting.users, Join(c, n) PROVE Sound(info')
  <2>1. FreeBlocks(info) # {}
    BY <1>0, <1>5, RoomIs DEF Join
  <2>2. OnJoin(info, c, n) \in Tables
    BY <1>0, <2>1, JoinIs DEF Joined
  <2>3. Sound(OnJoin(info, c, n))
    BY <1>0, <2>1, JoinSound
  <2> QED BY <1>5, <1>b, <2>2, <2>3 DEF Join
<1>6. ASSUME NEW c \in setting.chans, NEW n \in setting.users, Part(c, n) PROVE Sound(info')
  <2>1. OnPart(info, c, n) \in Tables /\ Sound(OnPart(info, c, n))
    BY <1>0, RmSound DEF OnPart
  <2> QED BY <1>6, <1>b, <2>1 DEF Part
<1>7. ASSUME NEW c \in setting.chans, NEW n \in setting.users, Kick(c, n) PROVE Sound(info')
  BY <1>7, <1>a, <1>b DEF Kick
<1>c. ASSUME NEW c \in setting.chans, NEW n \in setting.users, Room(1),
             NEW set \in BOOLEAN, NEW letters \in SUBSET Modes
      PROVE  OnMode(info, c, n, set, letters) \in Tables /\ Sound(OnMode(info, c, n, set, letters))
  <2>1. FreeBlocks(info) # {} /\ {} \in SUBSET Modes
    BY <1>0, <1>c, RoomIs
  <2>2. OnMode(info, c, n, set, letters) \in Tables
    BY <1>0, <2>1, ModeType
  <2>3. Sound(OnMode(info, c, n, set, letters))
    BY <1>0, <2>1, UpdateSound DEF OnMode
  <2> QED BY <2>2, <2>3
<1>8. ASSUME NEW c \in setting.chans, NEW n \in setting.users, NEW m \in Modes, NEW set \in BOOLEAN,
             Mode(c, n, m, set)
      PROVE  Sound(info')
  <2>1. Room(1) /\ Becomes(IF Sees(c) THEN OnMode(info, c, n, set, {m}) ELSE info)
    BY <1>8 DEF Mode
  <2>2. OnMode(info, c, n, set, {m}) \in Tables /\ Sound(OnMode(info, c, n, set, {m}))
    BY <1>c, <2>1
  <2> QED BY <1>b, <2>1, <2>2
<1>9. ASSUME NEW c \in setting.chans, NEW n \in setting.users, NEW k \in setting.users, TwoModes(c, n, k)
      PROVE  Sound(info')
  <2>1. Room(1) /\ Becomes(IF Sees(c) THEN OnMode(info, c, n, TRUE, Modes) ELSE info)
    BY <1>9 DEF TwoModes
  <2>2. OnMode(info, c, n, TRUE, Modes) \in Tables /\ Sound(OnMode(info, c, n, TRUE, Modes))
    BY <1>c, <2>1
  <2> QED BY <1>b, <2>1, <2>2
<1>10. ASSUME NEW n \in setting.users, Quit(n) PROVE Sound(info')
  <2>1. OnQuit(info, n) \in Tables /\ Sound(OnQuit(info, n))
    BY <1>0, QuitSound
  <2> QED BY <1>10, <1>b, <2>1 DEF Quit
<1>11. ASSUME NEW n \in setting.users, NEW new \in setting.users, Nick(n, new) PROVE Sound(info')
  <2>1. OneChan
    BY <1>11, ApartMeans DEF Nick
  <2>2. \A harm \in BOOLEAN : OnNick(info, n, new, harm) \in Tables /\ Sound(OnNick(info, n, new, harm))
    BY <1>0, <2>1, NickSound
  <2> QED BY <1>11, <1>b, <2>2 DEF Nick
<1> QED BY <1>1, <1>2, <1>3, <1>4, <1>5, <1>6, <1>7, <1>8, <1>9, <1>10, <1>11 DEF Next

(* The inductive invariant of the keys.                                     *)
KeysInv == TypeOK /\ (ListsApart => Sound(info))

LEMMA EmptySound ==
  Init => /\ Sound(info) /\ Tidy(info) /\ info.clist = <<>>
          /\ \A c \in Chans, n \in Nicks : info.tab[c][n] \notin Blocks
          /\ \A c : ListOf(info, c) = 0
<1> SUFFICES ASSUME Init
             PROVE  /\ Sound(info) /\ Tidy(info) /\ info.clist = <<>>
                    /\ \A c \in Chans, n \in Nicks : info.tab[c][n] \notin Blocks
                    /\ \A c : ListOf(info, c) = 0
  OBVIOUS
<1>1. /\ info.clist = <<>> /\ "absent" \notin Blocks
      /\ \A c \in Chans, n \in Nicks : info.tab[c][n] = "absent"
  BY NotBlocks DEF Init, info
<1>2. Len(info.clist) = 0 /\ (\A i \in 1 .. Len(info.clist) : FALSE)
  BY <1>1
<1>3. \A c : ListOf(info, c) = 0 /\ Listing(info, c) = <<>>
  BY <1>2 DEF Listing, ListOf
<1>4. ToSet(<<>>) = {} /\ Once(<<>>)
  BY DEF ToSet, Once
<1>5. Within(info) /\ Owned(info) /\ Apart(info)
  BY <1>1, <1>2, <1>3, <1>4 DEF Within, Owned, Apart
<1>6. Tidy(info)
  BY <1>3, <1>4 DEF Tidy
<1> QED BY <1>1, <1>3, <1>5, <1>6 DEF Sound

LEMMA KeysStart == Init => KeysInv
BY TypeStarts, EmptySound DEF KeysInv

(* The setting of a behaviour is the same before and after a step.          *)
LEMMA SoundPrimed == setting' = setting /\ Sound(info') => Sound(info)'
<1> SUFFICES ASSUME setting' = setting, Sound(info') PROVE Sound(info)'
  OBVIOUS
<1>1. Within(info') => Within(info)'
  BY DEF Within
<1>2. Owned(info') => Owned(info)'
  BY DEF Owned
<1>3. Apart(info') => Apart(info)'
  BY DEF Apart
<1>4. Tidy(info') => Tidy(info)'
  BY DEF Tidy
<1>5. OneChan => OneChan'
  BY DEF OneChan
<1> QED BY <1>1, <1>2, <1>3, <1>4, <1>5 DEF Sound

LEMMA KeysKeep == KeysInv /\ [Next]_vars => KeysInv'
<1> SUFFICES ASSUME KeysInv, [Next]_vars PROVE KeysInv'
  OBVIOUS
<1>1. TypeOK'
  BY TypeKeeps DEF KeysInv
<1>2. setting' = setting
  BY DEF Next, vars
<1>3. ListsApart' <=> ListsApart
  BY <1>2 DEF ListsApart, Events
<1>4. ASSUME ListsApart PROVE Sound(info')
  <2>1. CASE Next
    BY <1>4, <2>1, TypeIs, SoundKeeps DEF KeysInv
  <2>2. CASE UNCHANGED vars
    <3>1. info' = info
      BY <2>2 DEF vars, info
    <3> QED BY <1>4, <3>1 DEF KeysInv
  <2> QED BY <2>1, <2>2
<1> QED BY <1>1, <1>2, <1>3, <1>4, SoundPrimed DEF KeysInv

(* structs.c:70-183: add_user_info, rm_user_info and on_nick_change keep a   *)
(* block of its own, with its nick, behind every key of the hash table,     *)
(* however users join, leave and are renamed and lists of names are misread, *)
(* in any number of channels while nobody is renamed and the bot does not    *)
(* leave, and otherwise in one: nobody's answer is about somebody else, and  *)
(* no key leads to freed memory.                                             *)
THEOREM KeysLeadToOwners == Spec => []KeysFindOwner
<1>1. KeysInv => KeysFindOwner
  BY DEF KeysInv, KeysFindOwner, Sound, Owned, info
<1> QED BY <1>1, KeysStart, KeysKeep, PTL DEF Spec

(***************************************************************************)
(* While users only join and leave and the bot stays.                      *)
(***************************************************************************)

(* The block of a key is in the list of its channel.                        *)
Covered(s) == \A c \in Chans, n \in Nicks :
                s.tab[c][n] \in Blocks => s.tab[c][n] \in ToSet(Listing(s, c))

Whole(s) == Sound(s) /\ Tidy(s) /\ Covered(s) /\ s.fault = "none"

(* A handler that takes s to t is about the key of n in c, whose modes are  *)
(* then among v.                                                            *)
Touched(s, c, n, v, t) ==
  /\ t \in Tables /\ SameChans(s, t) /\ Whole(t)
  /\ \A d \in Chans, k \in Nicks : t.tab[d][k] \in Blocks =>
       \/ d = c /\ k = n /\ t.heap[t.tab[d][k]].modes \subseteq v
       \/ /\ d # c \/ k # n
          /\ t.tab[d][k] = s.tab[d][k]
          /\ t.heap[t.tab[d][k]].modes = s.heap[t.tab[d][k]].modes

(* What add_user_info does then: the list has the block, nothing faults, and *)
(* a key leads where it led, or to the block.                                *)
Filed(s, c, b, t) ==
  /\ Covered(t) /\ t.fault = "none"
  /\ \A d \in Chans, k \in Nicks : t.tab[d][k] \in Blocks =>
       /\ t.heap[t.tab[d][k]] = s.heap[t.tab[d][k]]
       /\ \/ t.tab[d][k] = s.tab[d][k] /\ (d # c \/ k # s.heap[b].nick)
          \/ t.tab[d][k] = b /\ d = c /\ k = s.heap[b].nick

LEMMA AddWhole ==
  ASSUME NEW s \in Tables, NEW c \in Chans, NEW b \in Blocks, NEW t, Added(s, c, b, TRUE, t),
         Owned(s), Tidy(s), Covered(s), Loose(s, b), b \notin ToSet(Listing(s, c)),
         ListOf(s, c) # 0, s.fault = "none"
  PROVE  Filed(s, c, b, t)
<1> DEFINE n == s.heap[b].nick
           old == s.tab[c][n]
           l == Listing(s, c)
<1>0. n \in Nicks /\ old # b /\ l \in Seq(Blocks) /\ Once(l) /\ old \in Data
      /\ \A d : d # c => Listing(t, d) = Listing(s, d)
  <2>1. n \in Nicks /\ old \in Data
    BY TablesAre
  <2>2. old # b
    BY <2>1 DEF Loose
  <2>3. l \in Seq(Blocks)
    BY ListingIs
  <2>4. Once(l)
    BY DEF Tidy
  <2> QED BY <2>1, <2>2, <2>3, <2>4 DEF Added
<1>1. /\ \A x \in ToSet(Listing(s, c)) : x # old => x \in ToSet(Listing(t, c))
      /\ \A x \in Blocks : x # old => t.heap[x] = s.heap[x]
      /\ \A d \in Chans, k \in Nicks : t.tab[d][k] \in Blocks =>
           \/ t.tab[d][k] = s.tab[d][k] /\ (d # c \/ k # n)
           \/ t.tab[d][k] = b /\ d = c /\ k = n
  <2>1. TRUE \in BOOLEAN /\ Once(Listing(s, c))
    BY DEF Tidy
  <2>2. Placed(s, c, b, t)
    BY <2>1, AddList
  <2> QED BY <2>2 DEF Placed
<1>2. b \in ToSet(Listing(t, c))
  <2>1. CASE old \in Blocks
    <3>1. old \in ToSet(l) /\ Listing(t, c) = Swap(l, old, b)
      BY <1>0, <2>1 DEF Covered, Added
    <3> HIDE DEF old, l
    <3> QED BY <1>0, <2>1, <3>1, SwapList
  <2>2. CASE old \notin Blocks
    <3>1. Listing(t, c) = <<b>> \o l
      BY <2>2, SMTT(60) DEF Added
    <3> HIDE DEF l
    <3> QED BY <1>0, <3>1, ConsList, SMTT(60)
  <2> QED BY <2>1, <2>2
<1>3. t.fault = "none"
  <2>1. old \in Blocks => s.heap[old].live
    BY <1>0 DEF Owned
  <2> QED BY <1>0, <2>1, ZenonT(60) DEF Added
<1>4. ASSUME NEW d \in Chans, NEW k \in Nicks, t.tab[d][k] \in Blocks, s.tab[d][k] = old, d # c \/ k # n
      PROVE  t.tab[d][k] # old
  BY <1>0, <1>4 DEF Owned
<1>5. \A d \in Chans, k \in Nicks : t.tab[d][k] \in Blocks => t.tab[d][k] # old
  BY <1>0, <1>1, <1>4
<1> HIDE DEF old, l, n
<1>6. Covered(t)
  BY <1>0, <1>1, <1>2, <1>5 DEF Covered, l
<1> QED BY <1>1, <1>3, <1>5, <1>6, SMTT(60) DEF n, Filed

LEMMA JoinWhole ==
  ASSUME setting \in Settings, NEW s \in Tables, FreeBlocks(s) # {}, NEW c \in setting.chans,
         NEW n \in Nicks, Whole(s), ListOf(s, c) # 0
  PROVE  Touched(s, c, n, {}, OnJoin(s, c, n))
<1> DEFINE m == MakeUser(s, n)
           b == NewBlock(s)
           t == OnJoin(s, c, n)
<1>0. c \in Chans
  BY ChanIs
<1>1. /\ m \in Tables /\ m.clist = s.clist /\ m.tab = s.tab /\ m.fault = s.fault
      /\ b \in Blocks /\ m.heap[b].nick = n /\ m.heap[b].modes = {}
      /\ \A x \in Blocks : x # b => m.heap[x] = s.heap[x]
      /\ Owned(m) /\ Loose(m, b) /\ Tidy(m) /\ b \notin ToSet(Listing(m, c))
  BY <1>0, MakeLoose DEF Sound, Whole
<1>2. Added(m, c, b, TRUE, t)
  BY <1>0, <1>1, AddIs DEF OnJoin
<1>3. \A d : Listing(m, d) = Listing(s, d) /\ ListOf(m, d) = ListOf(s, d)
  BY <1>1, SameListing
<1>4. Covered(m) /\ Apart(m)
  BY <1>1, <1>3 DEF Sound, Whole, Covered, Apart
<1>5. Sound(t)
  BY JoinSound, SMTT(60) DEF Whole
<1>6. t \in Tables /\ SameChans(m, t)
  BY <1>2, ZenonT(60) DEF Added
<1> HIDE DEF t, m, b
<1>7. Tidy(t)
  <2>1. \A d \in Chans : b \notin ToSet(Listing(m, d))
    BY <1>3, MakeLoose DEF Sound, Whole, b, m
  <2> QED BY <1>0, <1>1, <1>2, <1>4, <2>1, AddTidy
<1>8. /\ Covered(t) /\ t.fault = "none"
      /\ \A d \in Chans, k \in Nicks : t.tab[d][k] \in Blocks =>
           /\ t.heap[t.tab[d][k]] = m.heap[t.tab[d][k]]
           /\ \/ t.tab[d][k] = m.tab[d][k] /\ (d # c \/ k # m.heap[b].nick)
              \/ t.tab[d][k] = b /\ d = c /\ k = m.heap[b].nick
  <2>1. m.fault = "none" /\ ListOf(m, c) # 0
    BY <1>1, <1>3 DEF Whole
  <2>2. m \in Tables /\ b \in Blocks /\ Owned(m) /\ Tidy(m) /\ Covered(m) /\ Loose(m, b)
        /\ b \notin ToSet(Listing(m, c))
    BY <1>1, <1>4
  <2>3. Filed(m, c, b, t)
    BY <1>0, <1>2, <2>1, <2>2, AddWhole
  <2> QED BY <2>3 DEF Filed
<1>9. \A d \in Chans, k \in Nicks : m.tab[d][k] # b
  BY <1>1 DEF Loose
<1>10. SameChans(s, t)
  BY <1>1, <1>6 DEF SameChans
<1>11. ASSUME NEW d \in Chans, NEW k \in Nicks, t.tab[d][k] \in Blocks
       PROVE  \/ d = c /\ k = n /\ t.heap[t.tab[d][k]].modes \subseteq {}
              \/ /\ d # c \/ k # n
                 /\ t.tab[d][k] = s.tab[d][k]
                 /\ t.heap[t.tab[d][k]].modes = s.heap[t.tab[d][k]].modes
  <2>1. CASE t.tab[d][k] = m.tab[d][k] /\ (d # c \/ k # n)
    <3> DEFINE x == t.tab[d][k]
    <3>1. x = s.tab[d][k] /\ x \in Blocks /\ x # b
      BY <1>1, <1>9, <1>11, <2>1
    <3>2. t.heap[x] = m.heap[x]
      BY <1>8, <1>11
    <3>3. m.heap[x] = s.heap[x]
      <4> HIDE DEF x
      <4> QED BY <1>1, <3>1
    <3> QED BY <2>1, <3>1, <3>2, <3>3
  <2>2. CASE t.tab[d][k] = b /\ d = c /\ k = n
    BY <1>1, <1>8, <1>11, <2>2
  <2> QED BY <1>1, <1>8, <1>11, <2>1, <2>2
<1> QED BY <1>5, <1>6, <1>7, <1>8, <1>10, <1>11 DEF Touched, Whole, t

LEMMA RmWhole ==
  ASSUME NEW s \in Tables, NEW c \in Chans, NEW n \in Nicks, Whole(s), ListOf(s, c) # 0
  PROVE  /\ Touched(s, c, n, {}, RmUser(s, c, n, TRUE))
         /\ RmUser(s, c, n, TRUE).tab[c][n] \notin Blocks
<1> DEFINE t == RmUser(s, c, n, TRUE)
<1>1. Removed(s, c, n, t) /\ t \in Tables /\ SameChans(s, t)
  <2>1. Removed(s, c, n, t)
    BY RmIs
  <2> QED BY <2>1 DEF Removed
<1> HIDE DEF t
<1>2. Sound(t) /\ Tidy(t)
  BY <1>1, RmSound, RmKeys DEF Whole, Sound, t
<1>3. \A d \in Chans, k \in Nicks : t.tab[d][k] \in Blocks =>
        /\ t.tab[d][k] = s.tab[d][k] /\ (d # c \/ k # n)
        /\ t.heap[t.tab[d][k]] = s.heap[t.tab[d][k]]
        /\ t.tab[d][k] \in ToSet(Listing(s, d)) => t.tab[d][k] \in ToSet(Listing(t, d))
  BY <1>1, RmKept DEF Whole, Sound
<1>4. Covered(t)
  BY <1>3 DEF Whole, Covered
<1>5. t.fault = "none"
  <2>1. \A b \in ToSet(Listing(s, c)) : s.heap[b].live
    BY DEF Whole, Tidy
  <2> QED BY <1>1, <2>1 DEF Whole, Removed
<1> QED BY <1>1, <1>2, <1>3, <1>4, <1>5 DEF Touched, Whole, t

LEMMA GetWhole ==
  ASSUME NEW s \in Tables, NEW c \in Chans, NEW n \in Nicks, Whole(s)
  PROVE  Whole(GetUser(s, c, n))
<1> DEFINE t == GetUser(s, c, n)
<1>1. Got(s, c, n, t)
  BY GetIs
<1> HIDE DEF t
<1>2. SameView(s, t)
  BY <1>1 DEF Got, SameView
<1>3. Sound(t) /\ Tidy(t)
  BY <1>2, ViewSound, ViewKeeps DEF Whole
<1>4. Covered(t)
  BY <1>1 DEF Whole, Covered, Got
<1>5. s.tab[c][n] \in Blocks => s.heap[s.tab[c][n]].live
  BY DEF Whole, Sound, Owned
<1>6. t.fault = "none"
  BY <1>1, <1>5 DEF Whole, Got
<1> QED BY <1>3, <1>4, <1>6 DEF Whole, t

LEMMA ModesWhole ==
  ASSUME NEW s \in Tables, NEW b \in Blocks, NEW added \in SUBSET Modes, NEW removed \in SUBSET Modes,
         Whole(s)
  PROVE  Whole(WithModes(s, b, added, removed))
<1> DEFINE t == WithModes(s, b, added, removed)
<1>1. Remoded(s, b, added, removed, t)
  BY ModesIs
<1>2. Sound(t)
  BY ModesSound DEF Whole
<1> HIDE DEF t
<1>3. t \in Tables /\ t.clist = s.clist /\ t.tab = s.tab /\ t.fault = s.fault
  BY <1>1 DEF Remoded
<1>4. SameChans(s, t) /\ \A d : Listing(t, d) = Listing(s, d)
  BY <1>3, SameListing
<1>5. SameView(s, t)
  BY <1>1, <1>3, <1>4 DEF Remoded, SameView
<1>6. Tidy(t)
  BY <1>5, ViewKeeps DEF Whole
<1>7. Covered(t)
  BY <1>3, <1>4 DEF Whole, Covered
<1> QED BY <1>2, <1>3, <1>6, <1>7 DEF Whole, t

(* on_mode, and on_who and on_names for one user: he is known with modes    *)
(* among v if those he was known with, changed, are.                        *)
LEMMA UpdateWhole ==
  ASSUME setting \in Settings, NEW s \in Tables, FreeBlocks(s) # {}, NEW c \in setting.chans,
         NEW n \in Nicks, NEW added \in SUBSET Modes, NEW removed \in SUBSET Modes,
         Whole(s), ListOf(s, c) # 0, NEW v, added \ removed \subseteq v,
         s.tab[c][n] \in Blocks => (s.heap[s.tab[c][n]].modes \cup added) \ removed \subseteq v
  PROVE  Touched(s, c, n, v, UpdateUser(s, c, n, added, removed))
<1> DEFINE got == GetUser(s, c, n)
           t == UpdateUser(s, c, n, added, removed)
<1>0. c \in Chans
  BY ChanIs
<1>1. got \in Tables /\ Whole(got)
  BY <1>0, GetWhole, GetIs DEF Got
<1>2. /\ FreeBlocks(got) # {} /\ got.tab = s.tab /\ got.heap = s.heap /\ SameChans(s, got)
      /\ ListOf(got, c) # 0
  BY <1>0, GetIs DEF Got
<1>a. Updated(s, c, n, added, removed, t)
  BY <1>0, UpdateIs
<1>3. PICK k \in Tables, b \in Blocks :
        /\ \/ HasUser(s, c, n) /\ k = got /\ b = s.tab[c][n]
           \/ k = OnJoin(got, c, n) /\ b = NewBlock(got) /\ k.heap[b].modes = {}
        /\ t = WithModes(k, b, added, removed)
  BY <1>a DEF Updated
<1>4. Remoded(k, b, added, removed, t)
  BY <1>3, ModesIs
<1> HIDE DEF got, t
<1>5. /\ t \in Tables /\ t.tab = k.tab /\ SameChans(k, t)
      /\ t.heap[b].modes = (k.heap[b].modes \cup added) \ removed
      /\ \A x \in Blocks : x # b => t.heap[x] = k.heap[x]
  BY <1>4, SameListing DEF Remoded
<1>6. ASSUME k = got, b = s.tab[c][n] PROVE Touched(s, c, n, v, t)
  <2>1. Whole(t)
    BY <1>1, <1>3, <1>6, ModesWhole
  <2>2. SameChans(s, t)
    BY <1>2, <1>5, <1>6 DEF SameChans
  <2>3. ASSUME NEW d \in Chans, NEW j \in Nicks, t.tab[d][j] \in Blocks, d # c \/ j # n
        PROVE  t.tab[d][j] = s.tab[d][j] /\ t.tab[d][j] # b
    BY <1>0, <1>2, <1>5, <1>6, <2>3 DEF Whole, Sound, Owned
  <2>4. t.tab[c][n] = b /\ t.heap[b].modes \subseteq v
    BY <1>2, <1>5, <1>6
  <2>5. t \in Tables
    BY <1>5
  <2>6. ASSUME NEW d \in Chans, NEW j \in Nicks, t.tab[d][j] \in Blocks
        PROVE  \/ d = c /\ j = n /\ t.heap[t.tab[d][j]].modes \subseteq v
               \/ /\ d # c \/ j # n
                  /\ t.tab[d][j] = s.tab[d][j]
                  /\ t.heap[t.tab[d][j]].modes = s.heap[t.tab[d][j]].modes
    <3>1. CASE d = c /\ j = n
      BY <2>4, <3>1
    <3>2. CASE d # c \/ j # n
      <4>1. t.tab[d][j] = s.tab[d][j] /\ t.tab[d][j] # b
        BY <2>3, <2>6, <3>2
      <4>2. t.heap[t.tab[d][j]] = s.heap[t.tab[d][j]]
        BY <1>2, <1>5, <1>6, <2>6, <4>1
      <4> QED BY <3>2, <4>1, <4>2
    <3> QED BY <3>1, <3>2
  <2> QED BY <2>1, <2>2, <2>5, <2>6 DEF Touched
<1>7. ASSUME k = OnJoin(got, c, n), b = NewBlock(got), k.heap[b].modes = {}
      PROVE  Touched(s, c, n, v, t)
  <2>1. Touched(got, c, n, {}, k)
    BY <1>1, <1>2, <1>7, JoinWhole
  <2>2. ~s.heap[b].live
    BY <1>1, <1>2, <1>7, MakeIs
  <2>3. Whole(t)
    BY <1>3, <2>1, ModesWhole DEF Touched
  <2>4. SameChans(s, t)
    BY <1>2, <1>5, <2>1 DEF SameChans, Touched
  <2>5. \A d \in Chans, j \in Nicks : t.tab[d][j] \in Blocks =>
          \/ d = c /\ j = n /\ k.heap[t.tab[d][j]].modes \subseteq {}
          \/ /\ d # c \/ j # n
             /\ t.tab[d][j] = s.tab[d][j]
             /\ k.heap[t.tab[d][j]].modes = s.heap[t.tab[d][j]].modes
    BY <1>2, <1>5, <2>1, SMTT(60) DEF Touched
  <2>6. ASSUME NEW d \in Chans, NEW j \in Nicks, t.tab[d][j] \in Blocks
        PROVE  \/ d = c /\ j = n /\ t.heap[t.tab[d][j]].modes \subseteq v
               \/ /\ d # c \/ j # n
                  /\ t.tab[d][j] = s.tab[d][j]
                  /\ t.heap[t.tab[d][j]].modes = s.heap[t.tab[d][j]].modes
    <3> DEFINE x == t.tab[d][j]
    <3>1. CASE d = c /\ j = n /\ k.heap[x].modes \subseteq {}
      <4>1. CASE x = b
        BY <1>5, <1>7, <3>1, <4>1
      <4>2. CASE x # b
        <5>1. t.heap[x] = k.heap[x]
          BY <1>5, <2>6, <4>2, SMTT(60)
        <5> QED BY <3>1, <5>1
      <4> QED BY <4>1, <4>2
    <3>2. CASE (d # c \/ j # n) /\ x = s.tab[d][j] /\ k.heap[x].modes = s.heap[x].modes
      <4>1. x # b
        BY <2>2, <2>6, <3>2 DEF Whole, Sound, Owned
      <4>2. t.heap[x] = k.heap[x]
        BY <1>5, <2>6, <4>1
      <4> QED BY <3>2, <4>2, SMTT(60)
    <3> QED BY <2>5, <2>6, <3>1, <3>2
  <2>7. t \in Tables
    BY <1>5
  <2> QED BY <2>3, <2>4, <2>6, <2>7 DEF Touched
<1> QED BY <1>3, <1>6, <1>7 DEF t

(* Nobody is known with modes he does not have.                             *)
Real(s, ms) ==
  \A c \in Chans, n \in Users : s.tab[c][n] \in Blocks =>
    s.heap[s.tab[c][n]].modes \subseteq ms[c][n]

(* The bot has one list for every channel it is in.                         *)
Lists(s, mem) ==
  /\ \A i, j \in 1 .. Len(s.clist) : s.clist[i].chan = s.clist[j].chan => i = j
  /\ \A c \in Chans : Bot \in mem[c] <=> ListOf(s, c) # 0

Faithful(s, mem, ms) == Whole(s) /\ Lists(s, mem) /\ Real(s, ms)

LEMMA ListsStay ==
  ASSUME NEW s \in Tables, NEW t \in Tables, SameChans(s, t), NEW mem, NEW mems,
         \A c \in Chans : Bot \in mems[c] <=> Bot \in mem[c], Lists(s, mem)
  PROVE  Lists(t, mems)
<1>1. \A c : ListOf(t, c) = ListOf(s, c)
  BY SameList
<1>2. \A i, j \in 1 .. Len(t.clist) : t.clist[i].chan = t.clist[j].chan => i = j
  BY DEF Lists, SameChans
<1> QED BY <1>1, <1>2 DEF Lists

(* The server takes no modes but from n in c, who then has at least the      *)
(* modes v, unless he has no key.                                            *)
Follows(c, n, v, t, mem, ms, mems, mss) ==
  /\ \A d \in Chans : Bot \in mems[d] <=> Bot \in mem[d]
  /\ \A d \in Chans, k \in Users : d # c \/ k # n => ms[d][k] \subseteq mss[d][k]
  /\ n \in Users /\ t.tab[c][n] \in Blocks => v \subseteq mss[c][n]

(* A handler about n in c is right about such a change.                     *)
LEMMA TouchedFaithful ==
  ASSUME NEW s \in Tables, NEW c \in Chans, NEW n \in Nicks, NEW v, NEW t, Touched(s, c, n, v, t),
         NEW mem, NEW ms, NEW mems, NEW mss, Faithful(s, mem, ms),
         Follows(c, n, v, t, mem, ms, mems, mss)
  PROVE  t \in Tables /\ Faithful(t, mems, mss)
<1>1. t \in Tables /\ SameChans(s, t) /\ Whole(t)
  BY DEF Touched
<1>2. Lists(t, mems)
  BY <1>1, ListsStay DEF Faithful, Follows
<1>3. ASSUME NEW d \in Chans, NEW k \in Users, t.tab[d][k] \in Blocks
      PROVE  t.heap[t.tab[d][k]].modes \subseteq mss[d][k]
  <2>1. k \in Nicks
    BY DEF Nicks
  <2>2. CASE d = c /\ k = n /\ t.heap[t.tab[d][k]].modes \subseteq v
    BY <1>3, <2>2, SMTT(60) DEF Follows
  <2>3. CASE /\ d # c \/ k # n
             /\ t.tab[d][k] = s.tab[d][k]
             /\ t.heap[t.tab[d][k]].modes = s.heap[t.tab[d][k]].modes
    <3>1. s.heap[s.tab[d][k]].modes \subseteq ms[d][k]
      BY <1>3, <2>3 DEF Faithful, Real
    <3> QED BY <2>3, <3>1, SMTT(60) DEF Follows
  <2> QED BY <1>3, <2>1, <2>2, <2>3 DEF Touched
<1>4. Real(t, mss)
  BY <1>3 DEF Real
<1> QED BY <1>1, <1>2, <1>4 DEF Faithful

LEMMA KeyHasList ==
  ASSUME NEW s \in Tables, Whole(s), NEW c \in Chans, NEW n \in Nicks, s.tab[c][n] \in Blocks
  PROVE  ListOf(s, c) # 0
<1> SUFFICES ASSUME ListOf(s, c) = 0 PROVE FALSE
  OBVIOUS
<1>1. Listing(s, c) = <<>> /\ s.tab[c][n] \in ToSet(Listing(s, c))
  BY ListingIs DEF Whole, Covered
<1> QED BY <1>1 DEF ToSet

LEMMA SameFaithful ==
  ASSUME NEW s \in Tables, NEW t \in Tables, t.clist = s.clist, t.tab = s.tab, t.heap = s.heap,
         t.fault = s.fault, NEW mem, NEW ms, Faithful(s, mem, ms)
  PROVE  Faithful(t, mem, ms)
<1>1. SameChans(s, t) /\ \A c : ListOf(t, c) = ListOf(s, c) /\ Listing(t, c) = Listing(s, c)
  BY SameListing
<1>2. SameView(s, t)
  BY <1>1 DEF SameView
<1>3. Sound(t) /\ Tidy(t)
  BY <1>2, ViewSound, ViewKeeps DEF Faithful, Whole
<1>4. Covered(t)
  BY <1>1 DEF Faithful, Whole, Covered
<1>5. Lists(t, mem) /\ Real(t, ms)
  BY <1>1 DEF Faithful, Lists, Real
<1> QED BY <1>3, <1>4, <1>5 DEF Faithful, Whole

(* What happens in a channel the bot is not in is not its concern.          *)
Elsewhere(c, mem, ms, mems, mss) ==
  /\ Bot \notin mem[c] /\ Bot \notin mems[c]
  /\ \A d \in Chans : d # c => mems[d] = mem[d] /\ mss[d] = ms[d]

LEMMA UnseenFaithful ==
  ASSUME NEW s \in Tables, NEW c \in Chans, NEW mem, NEW ms, NEW mems, NEW mss, Faithful(s, mem, ms),
         Elsewhere(c, mem, ms, mems, mss)
  PROVE  Faithful(s, mems, mss)
<1>1. Lists(s, mems)
  BY DEF Faithful, Lists, Elsewhere
<1>2. \A n \in Users : s.tab[c][n] \notin Blocks
  BY KeyHasList DEF Faithful, Lists, Nicks, Elsewhere
<1>3. Real(s, mss)
  BY <1>2 DEF Faithful, Real, Elsewhere
<1> QED BY <1>1, <1>3 DEF Faithful

(* on_who and on_names, for what the server lists of a channel.             *)
LEMMA NamesFaithful ==
  ASSUME setting \in Settings, NEW c \in setting.chans, NEW q \in Names, NEW s \in Tables,
         NEW mem \in [Chans -> SUBSET Users], NEW ms \in [Chans -> [Users -> SUBSET Modes]],
         Honest(q, mem[c], ms[c]), Faithful(s, mem, ms), Bot \in mem[c],
         Cardinality(FreeBlocks(s)) >= Len(q)
  PROVE  OnNames(s, c, q) \in Tables /\ Faithful(OnNames(s, c, q), mem, ms)
<1> DEFINE S == {x \in Tables : Faithful(x, mem, ms)}
<1>0. c \in Chans
  BY ChanIs
<1>1. ASSUME NEW x \in S, FreeBlocks(x) # {}, NEW i \in 1 .. Len(q)
      PROVE  OnWho(x, c, q[i][1], q[i][2]) \in S
  <2> DEFINE n == q[i][1]
             m == q[i][2]
             t == OnWho(x, c, n, m)
             v == IF n \in Users THEN ms[c][n] ELSE Modes
  <2>1. /\ n \in Nicks /\ m \in SUBSET Modes
        /\ m = {} \/ (n \in mem[c] /\ m \subseteq ms[c][n])
    <3>1. q[i][1] \in Nicks /\ q[i][2] \in SUBSET Modes
      BY NamesAre
    <3>2. \/ q[i][1] \in mem[c] /\ q[i][2] \subseteq ms[c][q[i][1]]
          \/ q[i][2] = {}
      BY DEF Honest
    <3> QED BY <3>1, <3>2
  <2>2. mem[c] \subseteq Users
    BY <1>0
  <2> HIDE DEF n, m, S
  <2>3. /\ Prefix(m) \in SUBSET Modes /\ {} \in SUBSET Modes /\ Prefix(m) \ {} \subseteq v
        /\ x \in Tables /\ Faithful(x, mem, ms) /\ Whole(x) /\ ListOf(x, c) # 0
    <3>1. Prefix(m) \subseteq m
      BY PrefixIs
    <3>2. m \subseteq v
      BY <2>1, <2>2
    <3> QED BY <1>0, <1>1, <2>1, <3>1, <3>2 DEF S, Faithful, Lists
  <2>4. x.tab[c][n] \in Blocks => (x.heap[x.tab[c][n]].modes \cup Prefix(m)) \ {} \subseteq v
    <3>1. CASE n \in Users
      BY <1>0, <2>3, <3>1 DEF Faithful, Real
    <3>2. CASE n \notin Users
      <4>1. x.tab[c][n] \in Blocks => x.heap[x.tab[c][n]].modes \subseteq Modes
        BY <2>3, TablesAre
      <4> QED BY <2>3, <3>2, <4>1
    <3> QED BY <3>1, <3>2
  <2> HIDE DEF v
  <2>5. Touched(x, c, n, v, t)
    BY <1>1, <2>1, <2>3, <2>4, UpdateWhole DEF OnWho
  <2> HIDE DEF t
  <2>6. n \in Users => v \subseteq ms[c][n]
    BY DEF v
  <2>7. t \in Tables /\ Faithful(t, mem, ms)
    <3>1. Follows(c, n, v, t, mem, ms, mem, ms)
      BY <2>6 DEF Follows
    <3> QED BY <1>0, <2>1, <2>3, <2>5, <3>1, TouchedFaithful
  <2> QED BY <2>7 DEF S, n, m, t
<1>2. S \in SUBSET Tables /\ s \in S
  OBVIOUS
<1> HIDE DEF S
<1>3. OnNames(s, c, q) \in S
  BY <1>0, <1>1, <1>2, NamesStay
<1> QED BY <1>3 DEF S

(* on_quit clears the keys of the nick, one channel after the other.        *)
LEMMA QuitFaithful ==
  ASSUME NEW s \in Tables, NEW n \in Users, n # Bot, NEW mem, NEW ms, Faithful(s, mem, ms),
         NEW mems, NEW mss, \A d \in Chans, k \in Users : k # n => ms[d][k] \subseteq mss[d][k],
         \A d \in Chans : Bot \in mems[d] <=> Bot \in mem[d]
  PROVE  OnQuit(s, n) \in Tables /\ Faithful(OnQuit(s, n), mems, mss)
<1> DEFINE len == Len(s.clist)
           Q == [i \in 0 .. len |->
                  {x \in Tables : /\ Faithful(x, mem, ms) /\ SameChans(s, x)
                                  /\ \A j \in 1 .. i : x.tab[s.clist[j].chan][n] \notin Blocks}]
<1>0. n \in Nicks
  BY DEF Nicks
<1>1. len \in Nat /\ \A i \in 1 .. len : s.clist[i].chan \in Chans
  BY ClistIs
<1>2. s \in Q[0]
  <2>1. SameChans(s, s) /\ 0 \in 0 .. len /\ 1 .. 0 = {}
    BY <1>1, SMTT(60) DEF SameChans
  <2> QED BY <2>1
<1>3. ASSUME NEW i \in 1 .. len, NEW x \in Q[i - 1]
      PROVE  RmUser(x, s.clist[i].chan, n, TRUE) \in Q[i]
  <2> DEFINE c == s.clist[i].chan
             t == RmUser(x, c, n, TRUE)
  <2>1. i \in 0 .. len /\ i - 1 \in 0 .. len /\ \A j \in 1 .. i : j = i \/ j \in 1 .. i - 1
    BY <1>1
  <2>2. /\ x \in Tables /\ Faithful(x, mem, ms) /\ SameChans(s, x)
        /\ \A j \in 1 .. i - 1 : x.tab[s.clist[j].chan][n] \notin Blocks
    BY <1>3, <2>1
  <2>3. c \in Chans /\ ListOf(x, c) # 0 /\ Whole(x)
    <3>1. x.clist[i].chan = c /\ i \in 1 .. Len(x.clist)
      BY <2>2 DEF SameChans
    <3> HIDE DEF Q
    <3> QED BY <1>1, <2>2, <3>1, ListOfIs DEF Faithful
  <2> HIDE DEF Q
  <2>4. Touched(x, c, n, {}, t) /\ t.tab[c][n] \notin Blocks
    BY <1>0, <2>2, <2>3, RmWhole
  <2> HIDE DEF t
  <2>5. t \in Tables /\ Faithful(t, mem, ms)
    <3>1. Follows(c, n, {}, t, mem, ms, mem, ms)
      BY <2>4 DEF Follows
    <3> QED BY <1>0, <2>2, <2>3, <2>4, <3>1, TouchedFaithful
  <2>6. SameChans(s, t)
    BY <2>2, <2>4 DEF Touched, SameChans
  <2>7. ASSUME NEW j \in 1 .. i PROVE t.tab[s.clist[j].chan][n] \notin Blocks
    <3>1. CASE j = i
      BY <2>4, <3>1
    <3>2. CASE j # i
      <4>1. j \in 1 .. i - 1 /\ s.clist[j].chan \in Chans
        BY <1>1, <2>1, <3>2
      <4> QED BY <1>0, <2>2, <2>4, <4>1 DEF Touched
    <3> QED BY <3>1, <3>2
  <2> QED BY <2>1, <2>5, <2>6, <2>7 DEF Q, t
<1> DEFINE t == OnQuit(s, n)
<1>4. t \in Q[len]
  <2> HIDE DEF Q
  <2> QED BY <1>0, <1>2, <1>3, QuitStays
<1>5. /\ t \in Tables /\ Faithful(t, mem, ms) /\ SameChans(s, t)
      /\ \A j \in 1 .. len : t.tab[s.clist[j].chan][n] \notin Blocks
  <2>1. len \in 0 .. len
    BY <1>1
  <2> HIDE DEF t
  <2> QED BY <1>4, <2>1
<1> HIDE DEF t, Q
<1>6. ASSUME NEW d \in Chans PROVE t.tab[d][n] \notin Blocks
  <2> SUFFICES ASSUME t.tab[d][n] \in Blocks PROVE FALSE
    OBVIOUS
  <2>1. ListOf(t, d) # 0
    BY <1>0, <1>5, KeyHasList DEF Faithful
  <2>2. ListOf(t, d) \in 1 .. Len(t.clist) /\ t.clist[ListOf(t, d)].chan = d
    BY <1>5, <2>1, ListOfIs
  <2> QED BY <1>5, <2>2 DEF SameChans
<1>7. Real(t, mss)
  BY <1>5, <1>6 DEF Faithful, Real
<1>8. Lists(t, mems)
  BY <1>5 DEF Faithful, Lists
<1> QED BY <1>5, <1>7, <1>8 DEF Faithful, t

(* on_join for the bot.                                                     *)
LEMMA BotJoinFaithful ==
  ASSUME NEW s \in Tables, NEW c \in setting.chans, c \in Chans, NEW mem, NEW ms, Faithful(s, mem, ms),
         Bot \notin mem[c], NEW mems, NEW mss, Bot \in mems[c],
         \A d \in Chans : d # c => mems[d] = mem[d] /\ mss[d] = ms[d]
  PROVE  OnBotJoin(s, c) \in Tables /\ Faithful(OnBotJoin(s, c), mems, mss)
<1> DEFINE t == OnBotJoin(s, c)
<1>1. /\ t \in Tables /\ t.tab = s.tab /\ t.heap = s.heap /\ t.fault = s.fault
      /\ Len(t.clist) = Len(s.clist) + 1 /\ t.clist[1].chan = c
      /\ \A i \in 1 .. Len(s.clist) : t.clist[i + 1] = s.clist[i]
  <2>1. /\ t \in Tables /\ t.tab = s.tab /\ t.heap = s.heap /\ t.fault = s.fault
        /\ Len(t.clist) = Len(s.clist) + 1 /\ t.clist[1] = [chan |-> c, users |-> <<>>]
        /\ \A i \in 1 .. Len(s.clist) : t.clist[i + 1] = s.clist[i]
    BY BotJoinIs
  <2> HIDE DEF t
  <2>2. t.clist[1].chan = c
    BY <2>1
  <2> QED BY <2>1, <2>2
<1>2. /\ Sound(t) /\ Tidy(t)
      /\ \A d \in Chans : d # c => Listing(t, d) = Listing(s, d)
  BY BotJoinSound DEF Faithful, Whole
<1> HIDE DEF t
<1>3. ListOf(s, c) = 0 /\ \A n \in Nicks : s.tab[c][n] \notin Blocks
  BY KeyHasList DEF Faithful, Lists
<1>4. Covered(t)
  BY <1>1, <1>2, <1>3 DEF Faithful, Whole, Covered
<1>5. /\ Len(s.clist) \in Nat /\ Len(t.clist) \in Nat
      /\ \A i \in 1 .. Len(s.clist) : s.clist[i].chan # c /\ i + 1 \in 1 .. Len(t.clist)
      /\ \A i \in 1 .. Len(t.clist) : i = 1 \/ i - 1 \in 1 .. Len(s.clist)
      /\ 1 \in 1 .. Len(t.clist)
  BY <1>1, <1>3, ClistIs, ListOfIs
<1>6. ASSUME NEW i \in 1 .. Len(t.clist)
      PROVE  i = 1 \/ (i - 1 \in 1 .. Len(s.clist) /\ t.clist[i] = s.clist[i - 1] /\ t.clist[i].chan # c)
  <2> SUFFICES ASSUME i # 1
               PROVE  /\ i - 1 \in 1 .. Len(s.clist) /\ t.clist[i] = s.clist[i - 1]
                      /\ t.clist[i].chan # c
    OBVIOUS
  <2>1. i - 1 \in 1 .. Len(s.clist) /\ (i - 1) + 1 = i
    BY <1>5
  <2>2. t.clist[(i - 1) + 1] = s.clist[i - 1] /\ s.clist[i - 1].chan # c
    BY <1>1, <1>5, <2>1
  <2> QED BY <2>1, <2>2
<1>7. ASSUME NEW i \in 1 .. Len(t.clist), NEW j \in 1 .. Len(t.clist), t.clist[i].chan = t.clist[j].chan
      PROVE  i = j
  <2>1. CASE i = 1 \/ j = 1
    BY <1>1, <1>6, <1>7, <2>1
  <2>2. CASE i # 1 /\ j # 1
    <3>1. /\ i - 1 \in 1 .. Len(s.clist) /\ j - 1 \in 1 .. Len(s.clist)
          /\ s.clist[i - 1].chan = s.clist[j - 1].chan
      BY <1>6, <1>7, <2>2
    <3>2. i - 1 = j - 1
      BY <3>1 DEF Faithful, Lists
    <3> QED BY <3>2
  <2> QED BY <2>1, <2>2
<1>8. ASSUME NEW d \in Chans PROVE Bot \in mems[d] <=> ListOf(t, d) # 0
  <2>1. CASE d = c
    BY <1>1, <1>5, <2>1, ListOfIs
  <2>2. CASE d # c
    <3>1. Bot \in mems[d] <=> ListOf(s, d) # 0
      BY <2>2 DEF Faithful, Lists
    <3>2. ASSUME ListOf(s, d) # 0 PROVE ListOf(t, d) # 0
      <4>1. PICK i \in 1 .. Len(s.clist) : s.clist[i].chan = d
        BY <3>2, ListOfIs
      <4>2. i + 1 \in 1 .. Len(t.clist) /\ t.clist[i + 1].chan = d
        BY <1>1, <1>5, <4>1
      <4> QED BY <1>1, <4>2, ListOfIs
    <3>3. ASSUME ListOf(t, d) # 0 PROVE ListOf(s, d) # 0
      <4>1. PICK i \in 1 .. Len(t.clist) : t.clist[i].chan = d
        BY <1>1, <3>3, ListOfIs
      <4>2. i - 1 \in 1 .. Len(s.clist) /\ s.clist[i - 1].chan = d
        BY <1>1, <1>6, <2>2, <4>1
      <4> QED BY <4>2, ListOfIs
    <3> QED BY <3>1, <3>2, <3>3
  <2> QED BY <2>1, <2>2
<1>9. Lists(t, mems)
  BY <1>7, <1>8 DEF Lists
<1>10. Real(t, mss)
  <2>1. \A n \in Users : n \in Nicks
    BY DEF Nicks
  <2> QED BY <1>1, <1>3, <2>1 DEF Faithful, Real
<1> QED BY <1>1, <1>2, <1>4, <1>9, <1>10 DEF Faithful, Whole, t

(* Where there are only such events, the tables are right about the server. *)
Right == /\ Faithful(info, members, modes) /\ \A c \in who : Bot \in members[c]
         /\ \A c \in Chans, n \in Users : n \notin members[c] => modes[c][n] = {}

LEMMA OrderlyMeans == Orderly => /\ Events \cap {"nick", "multi", "kick", "botkick", "botpart"} = {}
                                 /\ ListsApart
BY DEF Orderly, ListsApart

LEMMA RightKeeps ==
  ServerOK /\ info \in Tables /\ Orderly /\ Right /\ Next =>
    /\ Faithful(info', members', modes') /\ \A c \in who' : Bot \in members'[c]
<1> DEFINE R == Faithful(info', members', modes')
           W == \A c \in who' : Bot \in members'[c]
<1> SUFFICES ASSUME ServerOK, info \in Tables, Orderly, Right, Next PROVE R /\ W
  OBVIOUS
<1>0. /\ setting \in Settings /\ setting.chans \subseteq Chans /\ setting.users \subseteq Users
      /\ setting.users \subseteq Nicks /\ Bot \in Users
      /\ members \in [Chans -> SUBSET Users] /\ modes \in [Chans -> [Users -> SUBSET Modes]]
      /\ who \subseteq Chans /\ Faithful(info, members, modes) /\ \A c \in who : Bot \in members[c]
      /\ \A c \in Chans, n \in Users : n \notin members[c] => modes[c][n] = {}
  BY SettingIs DEF ServerOK, Right
<1>a. ASSUME NEW t \in Tables, Faithful(t, members', modes'), Becomes(Unhooked(t)) PROVE R
  <2>1. /\ Unhooked(t) \in Tables /\ Unhooked(t).clist = t.clist /\ Unhooked(t).tab = t.tab
        /\ Unhooked(t).heap = t.heap /\ Unhooked(t).fault = t.fault
    BY <1>a, UnhookedIs
  <2>2. Faithful(Unhooked(t), members', modes')
    BY <1>a, <2>1, SameFaithful
  <2> QED BY <1>a, <2>1, <2>2, BecomesIs
<1>b. ASSUME NEW t \in Tables, Faithful(t, members', modes'), Becomes(t) PROVE R
  BY <1>b, BecomesIs
<1>1. CASE Other
  <2>1. members' = members /\ modes' = modes /\ who' = who /\ Becomes(Unhooked(info))
    BY <1>1 DEF Other
  <2> QED BY <1>0, <1>a, <2>1
<1>2. ASSUME NEW c \in setting.chans, BotJoin(c) PROVE R /\ W
  <2> DEFINE s == OnBotJoin(info, c)
  <2>1. PICK q \in Names : /\ Honest(q, members'[c], modes'[c])
                           /\ Cardinality(FreeBlocks(s)) >= Len(q)
                           /\ Becomes(Unhooked(OnNames(s, c, q)))
    BY <1>2, BotJoinFacts
  <2>2. /\ members' = [members EXCEPT ![c] = members[c] \cup {Bot}]
        /\ modes' = [modes EXCEPT ![c] = [modes[c] EXCEPT ![Bot] = modes'[c][Bot]]]
        /\ modes' \in [Chans -> [Users -> SUBSET Modes]]
    BY <1>2, BotJoinFacts
  <2>3. who' = who \cup {c} /\ Bot \notin members[c]
    BY <1>2 DEF BotJoin, Sees
  <2> HIDE DEF s
  <2>4. /\ members' \in [Chans -> SUBSET Users] /\ Bot \in members'[c]
        /\ \A d \in Chans : Bot \in members[d] => Bot \in members'[d]
    BY <1>0, <2>2
  <2>5. \A d \in Chans : d # c => members'[d] = members[d] /\ modes'[d] = modes[d]
    BY <1>0, <2>2
  <2>6. s \in Tables /\ Faithful(s, members', modes')
    <3>1. c \in Chans /\ Faithful(info, members, modes) /\ Bot \notin members[c]
      BY <1>0, <2>3
    <3>2. Bot \in members'[c]
      BY <2>4
    <3> QED BY <2>5, <3>1, <3>2, BotJoinFaithful DEF s
  <2>7. OnNames(s, c, q) \in Tables /\ Faithful(OnNames(s, c, q), members', modes')
    BY <1>0, <2>1, <2>2, <2>4, <2>6, NamesFaithful
  <2>8. W
    BY <1>0, <2>3, <2>4
  <2> QED BY <1>a, <2>1, <2>7, <2>8
<1>3. ASSUME NEW c \in setting.chans, WhoReply(c) PROVE R /\ W
  <2> DEFINE q == Listed(members[c], modes[c])
  <2>1. Cardinality(FreeBlocks(info)) >= Cardinality(members[c]) /\ Becomes(Unhooked(OnNames(info, c, q)))
        /\ members' = members /\ modes' = modes /\ c \in who /\ who' = who \ {c}
    BY <1>3 DEF WhoReply, Room
  <2>2. members[c] \in SUBSET Nicks /\ \A n \in members[c] : modes[c][n] \in SUBSET Modes
    BY <1>0, SettingIs
  <2>3. NamesOf(q, members[c], modes[c])
    BY <2>2, ListedIs
  <2> HIDE DEF q
  <2>4. q \in Names /\ Len(q) = Cardinality(members[c]) /\ Honest(q, members[c], modes[c])
    BY <2>3 DEF NamesOf, Honest
  <2>5. OnNames(info, c, q) \in Tables /\ Faithful(OnNames(info, c, q), members, modes)
    BY <1>0, <2>1, <2>4, NamesFaithful
  <2>6. W
    BY <1>0, <2>1
  <2> QED BY <1>a, <2>1, <2>5, <2>6
<1>4. ASSUME NEW c \in setting.chans, NEW n \in setting.users, Join(c, n) PROVE R /\ W
  <2>1. /\ n # Bot /\ n \notin members[c] /\ Room(1) /\ who' = who
        /\ members' = [members EXCEPT ![c] = members[c] \cup {n}]
        /\ modes' = [modes EXCEPT ![c] = [modes[c] EXCEPT ![n] = {}]]
        /\ Becomes(IF Sees(c) THEN OnJoin(info, c, n) ELSE info)
    BY <1>4 DEF Join
  <2>2. /\ \A d \in Chans : Bot \in members'[d] <=> Bot \in members[d]
        /\ n \in members'[c] /\ c \in Chans
    BY <1>0, <2>1
  <2>3. /\ \A d \in Chans : d # c => members'[d] = members[d] /\ modes'[d] = modes[d]
        /\ \A d \in Chans, k \in Users : d # c \/ k # n => modes[d][k] \subseteq modes'[d][k]
    BY <1>0, <2>1
  <2>4. ASSUME Sees(c) PROVE R
    <3> DEFINE t == OnJoin(info, c, n)
    <3>1. FreeBlocks(info) # {} /\ ListOf(info, c) # 0 /\ Whole(info)
      BY <1>0, <2>1, <2>4, RoomIs DEF Faithful, Lists, Sees
    <3>2. Touched(info, c, n, {}, t)
      BY <1>0, <3>1, JoinWhole
    <3> HIDE DEF t
    <3>3. t \in Tables /\ Faithful(t, members', modes')
      <4>1. Follows(c, n, {}, t, members, modes, members', modes')
        BY <2>2, <2>3, <3>2 DEF Follows
      <4> QED BY <1>0, <2>2, <3>2, <4>1, TouchedFaithful
    <3> QED BY <1>b, <2>1, <2>4, <3>3 DEF t
  <2>5. ASSUME ~Sees(c) PROVE R
    <3>1. Faithful(info, members', modes')
      <4>1. Elsewhere(c, members, modes, members', modes')
        BY <2>2, <2>3, <2>5 DEF Elsewhere, Sees
      <4> QED BY <1>0, <2>2, <4>1, UnseenFaithful
    <3> QED BY <1>b, <2>1, <2>5, <3>1
  <2>6. W
    BY <1>0, <2>1, <2>2
  <2> QED BY <2>4, <2>5, <2>6
<1>5. ASSUME NEW c \in setting.chans, NEW n \in setting.users, Part(c, n) PROVE R /\ W
  <2>1. /\ n # Bot /\ n \in members[c] /\ who' = who
        /\ members' = [members EXCEPT ![c] = members[c] \ {n}]
        /\ modes' = [modes EXCEPT ![c] = [modes[c] EXCEPT ![n] = {}]]
        /\ Becomes(IF Sees(c) THEN OnPart(info, c, n) ELSE info)
    BY <1>5 DEF Part, Leave
  <2>2. /\ \A d \in Chans : Bot \in members'[d] <=> Bot \in members[d]
        /\ c \in Chans
    BY <1>0, <2>1
  <2>3. /\ \A d \in Chans : d # c => members'[d] = members[d] /\ modes'[d] = modes[d]
        /\ \A d \in Chans, k \in Users : d # c \/ k # n => modes[d][k] \subseteq modes'[d][k]
    BY <1>0, <2>1
  <2>4. ASSUME Sees(c) PROVE R
    <3> DEFINE t == OnPart(info, c, n)
    <3>1. ListOf(info, c) # 0 /\ Whole(info)
      BY <1>0, <2>4 DEF Faithful, Lists, Sees
    <3>2. Touched(info, c, n, {}, t) /\ t.tab[c][n] \notin Blocks
      BY <1>0, <3>1, RmWhole DEF OnPart
    <3> HIDE DEF t
    <3>3. t \in Tables /\ Faithful(t, members', modes')
      <4>1. Follows(c, n, {}, t, members, modes, members', modes')
        BY <2>2, <2>3, <3>2 DEF Follows
      <4> QED BY <1>0, <2>2, <3>2, <4>1, TouchedFaithful
    <3> QED BY <1>b, <2>1, <2>4, <3>3 DEF t
  <2>5. ASSUME ~Sees(c) PROVE R
    <3>1. Faithful(info, members', modes')
      <4>1. Elsewhere(c, members, modes, members', modes')
        BY <2>2, <2>3, <2>5 DEF Elsewhere, Sees
      <4> QED BY <1>0, <2>2, <4>1, UnseenFaithful
    <3> QED BY <1>b, <2>1, <2>5, <3>1
  <2>6. W
    BY <1>0, <2>1, <2>2
  <2> QED BY <2>4, <2>5, <2>6
<1>6. ASSUME NEW c \in setting.chans, NEW n \in setting.users, NEW m \in Modes, NEW set \in BOOLEAN,
             Mode(c, n, m, set)
      PROVE  R /\ W
  <2> DEFINE v == IF set THEN modes[c][n] \cup {m} ELSE modes[c][n] \ {m}
             added == IF set THEN {m} ELSE {}
             removed == IF set THEN {} ELSE {m}
             t == OnMode(info, c, n, set, {m})
  <2>1. /\ n \in members[c] /\ Room(1) /\ members' = members /\ who' = who
        /\ modes' = [modes EXCEPT ![c] = [modes[c] EXCEPT ![n] = v]]
        /\ Becomes(IF Sees(c) THEN t ELSE info)
    BY <1>6 DEF Mode
  <2>2. t = UpdateUser(info, c, n, added, removed)
    BY DEF OnMode
  <2> HIDE DEF t
  <2>3. /\ \A d \in Chans : d # c => members'[d] = members[d] /\ modes'[d] = modes[d]
        /\ \A d \in Chans, k \in Users : d # c \/ k # n => modes[d][k] \subseteq modes'[d][k]
        /\ \A d \in Chans : Bot \in members'[d] <=> Bot \in members[d]
        /\ n \in members'[c] /\ v \subseteq modes'[c][n] /\ c \in Chans
    <3> HIDE DEF v
    <3> QED BY <1>0, <2>1
  <2>4. ASSUME Sees(c) PROVE R
    <3>1. FreeBlocks(info) # {} /\ ListOf(info, c) # 0 /\ Whole(info)
      BY <1>0, <2>1, <2>4, RoomIs DEF Faithful, Lists, Sees
    <3>2. added \in SUBSET Modes /\ removed \in SUBSET Modes /\ added \ removed \subseteq v
      OBVIOUS
    <3>3. info.tab[c][n] \in Blocks => (info.heap[info.tab[c][n]].modes \cup added) \ removed \subseteq v
      <4> SUFFICES ASSUME info.tab[c][n] \in Blocks
                   PROVE  (info.heap[info.tab[c][n]].modes \cup added) \ removed \subseteq v
        OBVIOUS
      <4>1. info.heap[info.tab[c][n]].modes \subseteq modes[c][n]
        BY <1>0 DEF Faithful, Real
      <4> QED BY <4>1
    <3> HIDE DEF v, added, removed
    <3>4. Touched(info, c, n, v, t)
      BY <1>0, <2>2, <3>1, <3>2, <3>3, UpdateWhole
    <3>5. t \in Tables /\ Faithful(t, members', modes')
      <4>1. Follows(c, n, v, t, members, modes, members', modes')
        BY <2>3 DEF Follows
      <4> QED BY <1>0, <2>3, <3>4, <4>1, TouchedFaithful
    <3> QED BY <1>b, <2>1, <2>4, <3>5
  <2>5. ASSUME ~Sees(c) PROVE R
    <3>1. Faithful(info, members', modes')
      <4>1. Elsewhere(c, members, modes, members', modes')
        BY <2>3, <2>5 DEF Elsewhere, Sees
      <4> QED BY <1>0, <2>3, <4>1, UnseenFaithful
    <3> QED BY <1>b, <2>1, <2>5, <3>1
  <2>6. W
    BY <1>0, <2>1
  <2> QED BY <2>4, <2>5, <2>6
<1>7. ASSUME NEW n \in setting.users, Quit(n) PROVE R /\ W
  <2> DEFINE t == OnQuit(info, n)
  <2>1. /\ n # Bot /\ who' = who
        /\ members' = [c \in Chans |-> members[c] \ {n}]
        /\ modes' = [c \in Chans |-> [modes[c] EXCEPT ![n] = {}]]
        /\ Becomes(IF \E c \in Chans : Sees(c) /\ n \in members[c] THEN t ELSE info)
    BY <1>7 DEF Quit, Hears
  <2>2. /\ \A d \in Chans : Bot \in members'[d] <=> Bot \in members[d]
        /\ \A d \in Chans, k \in Users : k # n => modes[d][k] \subseteq modes'[d][k]
    BY <1>0, <2>1
  <2>3. t \in Tables /\ Faithful(t, members', modes')
    BY <1>0, <2>1, <2>2, QuitFaithful, ZenonT(60)
  <2>4. ASSUME \E c \in Chans : Sees(c) /\ n \in members[c] PROVE R
    BY <1>b, <2>1, <2>3, <2>4
  <2>5. ASSUME ~ \E c \in Chans : Sees(c) /\ n \in members[c] PROVE R
    <3>1. ASSUME NEW c \in Chans, info.tab[c][n] \in Blocks PROVE modes'[c][n] = modes[c][n]
      <4>1. ListOf(info, c) # 0
        BY <1>0, <3>1, KeyHasList DEF Faithful
      <4>2. n \notin members[c]
        BY <1>0, <2>5, <4>1 DEF Faithful, Lists, Sees
      <4> QED BY <1>0, <2>1, <4>2
    <3>2. Lists(info, members') /\ Real(info, modes')
      <4>1. Lists(info, members')
        BY <1>0, <2>2 DEF Faithful, Lists
      <4>2. ASSUME NEW c \in Chans, NEW k \in Users, info.tab[c][k] \in Blocks
            PROVE  info.heap[info.tab[c][k]].modes \subseteq modes'[c][k]
        <5>1. info.heap[info.tab[c][k]].modes \subseteq modes[c][k]
          BY <1>0, <4>2 DEF Faithful, Real
        <5>2. modes[c][k] \subseteq modes'[c][k]
          BY <2>2, <3>1, <4>2
        <5> QED BY <5>1, <5>2
      <4> QED BY <4>1, <4>2 DEF Real
    <3>3. Faithful(info, members', modes')
      BY <1>0, <3>2 DEF Faithful
    <3> QED BY <1>b, <2>1, <2>5, <3>3
  <2>6. W
    BY <1>0, <2>1, <2>2
  <2> QED BY <2>4, <2>5, <2>6
<1>8. ASSUME NEW c \in setting.chans, BotPart(c) PROVE FALSE
  BY <1>8, OrderlyMeans DEF BotPart
<1>9. ASSUME NEW c \in setting.chans, NEW n \in setting.users, Kick(c, n) PROVE FALSE
  BY <1>9, OrderlyMeans DEF Kick
<1>10. ASSUME NEW c \in setting.chans, NEW n \in setting.users, NEW k \in setting.users, TwoModes(c, n, k)
       PROVE  FALSE
  BY <1>10, OrderlyMeans DEF TwoModes
<1>11. ASSUME NEW n \in setting.users, NEW new \in setting.users, Nick(n, new) PROVE FALSE
  BY <1>11, OrderlyMeans DEF Nick
<1>12. CASE Other
  BY <1>0, <1>1, <1>12 DEF Other
<1> QED BY <1>1, <1>2, <1>3, <1>4, <1>5, <1>6, <1>7, <1>8, <1>9, <1>10, <1>11, <1>12 DEF Next

(* Who is not in a channel has no modes there.                               *)
LEMMA AbsentKeep ==
  ServerOK /\ Orderly /\ Right /\ Next =>
    \A c \in Chans, n \in Users : n \notin members'[c] => modes'[c][n] = {}
<1> DEFINE A == \A c \in Chans, n \in Users : n \notin members'[c] => modes'[c][n] = {}
<1> SUFFICES ASSUME ServerOK, Orderly, Right, Next PROVE A
  OBVIOUS
<1>0. /\ setting \in Settings /\ setting.chans \subseteq Chans /\ setting.users \subseteq Users
      /\ Bot \in Users /\ members \in [Chans -> SUBSET Users]
      /\ modes \in [Chans -> [Users -> SUBSET Modes]]
      /\ \A c \in Chans, n \in Users : n \notin members[c] => modes[c][n] = {}
  BY SettingIs DEF ServerOK, Right
<1>1. ASSUME members' = members, modes' = modes PROVE A
  BY <1>0, <1>1
<1>2. ASSUME NEW c \in setting.chans, BotJoin(c) PROVE A
  <2> DEFINE v == IF members[c] = {} THEN {"op"} \cap Modes ELSE {}
  <2>1. members' = [members EXCEPT ![c] = members[c] \cup {Bot}]
        /\ modes' = [modes EXCEPT ![c] = [modes[c] EXCEPT ![Bot] = v]]
    BY <1>2 DEF BotJoin
  <2> HIDE DEF v
  <2> QED BY <1>0, <2>1
<1>3. ASSUME NEW c \in setting.chans, NEW n \in setting.users, Join(c, n) PROVE A
  BY <1>0, <1>3 DEF Join
<1>4. ASSUME NEW c \in setting.chans, NEW n \in setting.users, Part(c, n) PROVE A
  BY <1>0, <1>4 DEF Part, Leave
<1>5. ASSUME NEW c \in setting.chans, NEW n \in setting.users, NEW m \in Modes, NEW set \in BOOLEAN,
             Mode(c, n, m, set)
      PROVE  A
  <2> DEFINE v == IF set THEN modes[c][n] \cup {m} ELSE modes[c][n] \ {m}
  <2>1. n \in members[c] /\ members' = members
        /\ modes' = [modes EXCEPT ![c] = [modes[c] EXCEPT ![n] = v]]
    BY <1>5 DEF Mode
  <2> HIDE DEF v
  <2> QED BY <1>0, <2>1
<1>6. ASSUME NEW n \in setting.users, Quit(n) PROVE A
  BY <1>0, <1>6 DEF Quit
<1>7. ASSUME NEW c \in setting.chans, WhoReply(c) PROVE A
  BY <1>1, <1>7 DEF WhoReply
<1>8. ASSUME NEW c \in setting.chans, NEW n \in setting.users, NEW k \in setting.users
      PROVE  ~BotPart(c) /\ ~Kick(c, n) /\ ~TwoModes(c, n, k) /\ ~Nick(n, k)
  BY OrderlyMeans DEF BotPart, Kick, TwoModes, Nick
<1>9. CASE Other
  BY <1>1, <1>9 DEF Other
<1>10. ASSUME NEW c \in setting.chans, BotPart(c) PROVE FALSE
  BY <1>10, OrderlyMeans DEF BotPart
<1>11. ASSUME NEW n \in setting.users, NEW k \in setting.users, Nick(n, k) PROVE FALSE
  BY <1>11, OrderlyMeans DEF Nick
<1> QED BY <1>2, <1>3, <1>4, <1>5, <1>6, <1>7, <1>8, <1>9, <1>10, <1>11 DEF Next

RightInv == TypeOK /\ (Orderly => Right)

LEMMA RightStart == Init => RightInv
<1> SUFFICES ASSUME Init PROVE Right
  BY TypeStarts DEF RightInv
<1>1. /\ Sound(info) /\ Tidy(info) /\ info.clist = <<>> /\ (\A c : ListOf(info, c) = 0)
      /\ \A c \in Chans, n \in Nicks : info.tab[c][n] \notin Blocks
  BY EmptySound
<1>2. /\ info.fault = "none" /\ who = {} /\ \A c \in Chans : Bot \notin members[c]
      /\ \A c \in Chans, n \in Users : modes[c][n] = {}
  BY DEF Init, info
<1>3. Len(info.clist) = 0 /\ (\A i \in 1 .. Len(info.clist) : FALSE)
  BY <1>1
<1> HIDE DEF info
<1>4. Covered(info)
  BY <1>1 DEF Covered
<1>5. Lists(info, members)
  BY <1>1, <1>2, <1>3 DEF Lists
<1>6. Real(info, modes)
  BY <1>1 DEF Real, Nicks
<1> QED BY <1>1, <1>2, <1>4, <1>5, <1>6 DEF Right, Faithful, Whole

LEMMA RightKeep == RightInv /\ [Next]_vars => RightInv'
<1> SUFFICES ASSUME RightInv, [Next]_vars PROVE RightInv'
  OBVIOUS
<1>1. TypeOK'
  BY TypeKeeps DEF RightInv
<1>2. setting' = setting
  BY DEF Next, vars
<1>3. Orderly' <=> Orderly
  BY <1>2 DEF Orderly, Events
<1>4. ASSUME Orderly PROVE Right'
  <2>1. Right
    BY <1>4 DEF RightInv
  <2>2. /\ Faithful(info', members', modes') /\ \A c \in who' : Bot \in members'[c]
        /\ \A c \in Chans, n \in Users : n \notin members'[c] => modes'[c][n] = {}
    <3>1. CASE Next
      BY <1>4, <2>1, <3>1, TypeIs, RightKeeps, AbsentKeep DEF RightInv
    <3>2. CASE UNCHANGED vars
      <4>1. info' = info /\ members' = members /\ modes' = modes /\ who' = who
        BY <3>2 DEF vars, info
      <4> QED BY <2>1, <4>1 DEF Right
    <3> QED BY <3>1, <3>2
  <2>3. Sound(info)'
    BY <1>2, <2>2, SoundPrimed DEF Faithful, Whole
  <2>4. Tidy(info)'
    BY <2>2 DEF Faithful, Whole, Tidy
  <2>5. Covered(info)' /\ info'.fault = "none"
    BY <2>2 DEF Faithful, Whole, Covered
  <2>6. Lists(info, members)'
    BY <2>2 DEF Faithful, Lists
  <2>7. Real(info, modes)'
    BY <2>2 DEF Faithful, Real
  <2> QED BY <2>2, <2>3, <2>4, <2>5, <2>6, <2>7 DEF Right, Faithful, Whole
<1> QED BY <1>1, <1>3, <1>4 DEF RightInv

LEMMA RightAlways == Spec => []RightInv
<1> QED BY RightStart, RightKeep, PTL DEF Spec

(* README:192-201, irc.ismod and irc.modes: while users join, leave and get  *)
(* and lose modes one by one, and the bot stays where it joined, nobody is   *)
(* said to be an operator or to have voice in a channel where he is not or   *)
(* has not, however on_names misreads its list and whatever keys stay behind *)
(* with NULL data.                                                           *)
THEOREM ModesShownAreHeld == Spec => []ModesAreReal
<1>1. RightInv => ModesAreReal
  <2> SUFFICES ASSUME RightInv, Orderly, NEW c \in Chans, NEW n \in members[c]
               PROVE  Shown(c, n) \subseteq modes[c][n]
    BY DEF ModesAreReal
  <2>1. n \in Users /\ Real(info, modes)
    BY DEF RightInv, Right, Faithful, TypeOK
  <2>2. info.tab = tab /\ info.heap = heap
    BY DEF info
  <2> QED BY <2>1, <2>2 DEF Real, Shown
<1> QED BY <1>1, RightAlways, PTL

(* structs.c:90-108, 143-156: the lists and the keys agree: the block of a   *)
(* key is in the list of its channel, once, where rm_user_info will look for *)
(* it, and no list has a freed block, which a walk of it would read.         *)
THEOREM ListsAndKeysAgree == Spec => []ListsMatchKeys
<1>1. RightInv => ListsMatchKeys
  <2> SUFFICES ASSUME RightInv, Orderly
               PROVE  /\ fault # "undefined"
                      /\ \A c \in Chans, n \in Nicks : tab[c][n] \in Blocks =>
                           \E i \in 1 .. Len(clist) :
                             /\ clist[i].chan = c
                             /\ Cardinality({j \in 1 .. Len(clist[i].users) :
                                               clist[i].users[j] = tab[c][n]}) = 1
                      /\ \A i \in 1 .. Len(clist) : \A b \in ToSet(clist[i].users) : heap[b].live
    BY DEF ListsMatchKeys
  <2>0. info.tab = tab /\ info.heap = heap /\ info.clist = clist /\ info.fault = fault
    BY DEF info
  <2>1. info \in Tables /\ Whole(info) /\ Lists(info, members)
    BY TypeIs DEF RightInv, Right, Faithful
  <2>2. fault # "undefined"
    BY <2>0, <2>1 DEF Whole
  <2>3. ASSUME NEW c \in Chans, NEW n \in Nicks, tab[c][n] \in Blocks
        PROVE  \E i \in 1 .. Len(clist) :
                 /\ clist[i].chan = c
                 /\ Cardinality({j \in 1 .. Len(clist[i].users) : clist[i].users[j] = tab[c][n]}) = 1
    <3> DEFINE i == ListOf(info, c)
               l == Listing(info, c)
               b == tab[c][n]
               J == {j \in 1 .. Len(l) : l[j] = b}
    <3>1. i # 0
      BY <2>0, <2>1, <2>3, KeyHasList
    <3>2. i \in 1 .. Len(clist) /\ clist[i].chan = c /\ l = clist[i].users /\ l \in Seq(Blocks)
      BY <2>0, <2>1, <3>1, ListingIs
    <3>3. b \in ToSet(l) /\ Once(l)
      BY <2>0, <2>1, <2>3 DEF Whole, Covered, Tidy
    <3> HIDE DEF i, l, b
    <3>4. PICK j \in 1 .. Len(l) : l[j] = b
      BY <3>2, <3>3, SetOf
    <3>5. J = {j}
      BY <3>3, <3>4 DEF Once
    <3> HIDE DEF J
    <3>6. Cardinality(J) = 1
      BY <3>5, FS_Singleton
    <3>7. Cardinality({k \in 1 .. Len(clist[i].users) : clist[i].users[k] = tab[c][n]}) = 1
      BY <3>2, <3>6 DEF J, b
    <3> QED BY <3>2, <3>7
  <2>4. ASSUME NEW i \in 1 .. Len(clist), NEW b \in ToSet(clist[i].users) PROVE heap[b].live
    <3> DEFINE c == clist[i].chan
    <3>1. c \in Chans /\ ListOf(info, c) \in 1 .. Len(clist) /\ clist[ListOf(info, c)].chan = c
      BY <2>0, <2>1, ClistIs, ListOfIs
    <3>2. ListOf(info, c) = i
      BY <2>0, <2>1, <3>1 DEF Lists
    <3>3. Listing(info, c) = clist[i].users
      BY <2>0, <2>1, <3>1, <3>2, ClistIs DEF Listing, UserList
    <3> QED BY <2>0, <2>1, <3>1, <3>3 DEF Whole, Tidy
  <2> QED BY <2>2, <2>3, <2>4
<1> QED BY <1>1, RightAlways, PTL

(***************************************************************************)
(* Who is found, whatever happens.                                         *)
(***************************************************************************)

(* From s to t, only keys in c, of nicks in N, get data.                    *)
Grown(s, c, N, t) ==
  /\ t \in Tables /\ SameChans(s, t)
  /\ \A d \in Chans, k \in Nicks : t.tab[d][k] \in Blocks => s.tab[d][k] \in Blocks \/ (d = c /\ k \in N)

LEMMA GrownTwice ==
  ASSUME NEW s \in Tables, NEW c, NEW N, NEW x, NEW t, Grown(s, c, N, x), Grown(x, c, N, t)
  PROVE  Grown(s, c, N, t)
<1>1. SameChans(s, t)
  BY DEF Grown, SameChans
<1> QED BY <1>1 DEF Grown

LEMMA JoinGrown ==
  ASSUME setting \in Settings, NEW s \in Tables, FreeBlocks(s) # {}, NEW c \in Chans, NEW n \in Nicks
  PROVE  Grown(s, c, {n}, OnJoin(s, c, n))
<1> DEFINE t == OnJoin(s, c, n)
<1>1. Joined(s, c, n, t)
  BY JoinIs
<1> HIDE DEF t
<1>2. t \in Tables /\ SameChans(s, t)
  BY <1>1 DEF Joined
<1>3. t.tab = s.tab \/ \E v : t.tab = [s.tab EXCEPT ![c][n] = v]
  <2> DEFINE old == s.tab[c][n]
             w == NewBlock(s)
  <2>1. /\ old = w => t.tab = s.tab
        /\ old \in Blocks /\ old # w => t.tab = [s.tab EXCEPT ![c][n] = w]
        /\ old \notin Blocks => t.tab = [s.tab EXCEPT ![c][n] = IF old = "absent" THEN w ELSE old]
    BY <1>1 DEF Joined
  <2> HIDE DEF old, w
  <2> QED BY <2>1
<1>4. \A d \in Chans, k \in Nicks : d # c \/ k # n => t.tab[d][k] = s.tab[d][k]
  <2>1. s.tab \in [Chans -> [Nicks -> Data]]
    BY TablesAre
  <2> QED BY <1>3, <2>1
<1> QED BY <1>2, <1>4 DEF Grown, t

LEMMA UpdateGrown ==
  ASSUME setting \in Settings, NEW s \in Tables, FreeBlocks(s) # {}, NEW c \in Chans, NEW n \in Nicks,
         NEW added \in SUBSET Modes, NEW removed \in SUBSET Modes
  PROVE  Grown(s, c, {n}, UpdateUser(s, c, n, added, removed))
<1> DEFINE t == UpdateUser(s, c, n, added, removed)
           got == GetUser(s, c, n)
<1>1. Got(s, c, n, got)
  BY GetIs
<1> HIDE DEF got
<1>2. got \in Tables /\ SameChans(s, got) /\ got.tab = s.tab /\ FreeBlocks(got) # {}
  BY <1>1 DEF Got
<1>3. Grown(s, c, {n}, got)
  BY <1>2 DEF Grown
<1>4. PICK k \in Tables, b \in Blocks :
        (k = got \/ k = OnJoin(got, c, n)) /\ t = WithModes(k, b, added, removed)
  <2>1. Updated(s, c, n, added, removed, t)
    BY UpdateIs
  <2> HIDE DEF t
  <2> QED BY <2>1 DEF Updated, got
<1>5. Grown(s, c, {n}, k)
  <2>1. Grown(got, c, {n}, OnJoin(got, c, n))
    BY <1>2, JoinGrown
  <2> QED BY <1>3, <1>4, <2>1, GrownTwice
<1>6. Remoded(k, b, added, removed, t)
  BY <1>4, ModesIs
<1> HIDE DEF t
<1>7. t \in Tables /\ t.tab = k.tab /\ SameChans(k, t)
  BY <1>4, <1>6, SameListing DEF Remoded
<1>8. Grown(k, c, {n}, t)
  BY <1>7 DEF Grown
<1> QED BY <1>5, <1>8, GrownTwice DEF t

LEMMA NamesGrown ==
  ASSUME setting \in Settings, NEW c \in Chans, NEW q \in Names, NEW s \in Tables,
         Cardinality(FreeBlocks(s)) >= Len(q), NEW N, \A i \in 1 .. Len(q) : q[i][1] \in N
  PROVE  Grown(s, c, N, OnNames(s, c, q))
<1> DEFINE S == {x \in Tables : Grown(s, c, N, x)}
<1>1. ASSUME NEW x \in S, FreeBlocks(x) # {}, NEW i \in 1 .. Len(q)
      PROVE  OnWho(x, c, q[i][1], q[i][2]) \in S
  <2> DEFINE n == q[i][1]
             t == OnWho(x, c, n, q[i][2])
  <2>1. n \in Nicks /\ n \in N /\ Prefix(q[i][2]) \in SUBSET Modes /\ {} \in SUBSET Modes
    BY NamesAre, PrefixIs
  <2>2. x \in Tables /\ Grown(s, c, N, x)
    OBVIOUS
  <2> HIDE DEF n, S
  <2>3. Grown(x, c, {n}, t)
    BY <1>1, <2>1, <2>2, UpdateGrown DEF OnWho
  <2> HIDE DEF t
  <2>4. Grown(x, c, N, t)
    BY <2>1, <2>3 DEF Grown
  <2>5. t \in Tables /\ Grown(s, c, N, t)
    BY <2>2, <2>4, GrownTwice DEF Grown
  <2> QED BY <2>5 DEF S, t, n
<1>2. S \in SUBSET Tables /\ s \in S
  <2>1. SameChans(s, s)
    BY SameListing
  <2> QED BY <2>1 DEF Grown
<1> HIDE DEF S
<1>3. OnNames(s, c, q) \in S
  BY <1>1, <1>2, NamesStay
<1> QED BY <1>3 DEF S

(* on_part, and on_quit in one channel: nobody is found who was not, and n   *)
(* is not in c.                                                             *)
LEMMA RmGrown ==
  ASSUME NEW s \in Tables, NEW c \in Chans, NEW n \in Nicks
  PROVE  LET t == RmUser(s, c, n, TRUE) IN Grown(s, c, {}, t) /\ t.tab[c][n] \notin Blocks
<1> DEFINE t == RmUser(s, c, n, TRUE)
<1>1. Removed(s, c, n, t)
  BY RmIs
<1>2. s.tab \in [Chans -> [Nicks -> Data]] /\ "absent" \notin Blocks /\ "null" \notin Blocks
  BY TablesAre, NotBlocks
<1> HIDE DEF t
<1>3. t \in Tables /\ SameChans(s, t)
  BY <1>1 DEF Removed
<1>4. CASE s.tab[c][n] = "absent"
  <2>1. t.tab = s.tab
    BY <1>1, <1>4 DEF Removed
  <2> QED BY <1>2, <1>3, <1>4, <2>1 DEF Grown, t
<1>5. CASE s.tab[c][n] # "absent"
  <2>1. t.tab = [s.tab EXCEPT ![c][n] = "null"]
    BY <1>1, <1>5 DEF Removed
  <2> QED BY <1>2, <1>3, <2>1 DEF Grown, t
<1> QED BY <1>4, <1>5

LEMMA QuitGrown ==
  ASSUME NEW s \in Tables, NEW n \in Nicks
  PROVE  LET t == OnQuit(s, n)
         IN Grown(s, n, {}, t) /\ \A d \in Chans : ListOf(s, d) # 0 => t.tab[d][n] \notin Blocks
<1> DEFINE len == Len(s.clist)
           Q == [i \in 0 .. len |->
                  {x \in Tables : /\ Grown(s, n, {}, x)
                                  /\ \A j \in 1 .. i : x.tab[s.clist[j].chan][n] \notin Blocks}]
           t == OnQuit(s, n)
<1>1. len \in Nat /\ \A i \in 1 .. len : s.clist[i].chan \in Chans
  BY ClistIs
<1>2. s \in Q[0]
  <2>1. SameChans(s, s) /\ 0 \in 0 .. len /\ 1 .. 0 = {}
    BY <1>1, SameListing
  <2>2. Grown(s, n, {}, s)
    BY <2>1 DEF Grown
  <2> QED BY <2>1, <2>2
<1>3. ASSUME NEW i \in 1 .. len, NEW x \in Q[i - 1]
      PROVE  RmUser(x, s.clist[i].chan, n, TRUE) \in Q[i]
  <2> DEFINE c == s.clist[i].chan
             y == RmUser(x, c, n, TRUE)
  <2>1. i \in 0 .. len /\ i - 1 \in 0 .. len /\ \A j \in 1 .. i : j = i \/ j \in 1 .. i - 1
    BY <1>1
  <2>2. /\ x \in Tables /\ Grown(s, n, {}, x)
        /\ \A j \in 1 .. i - 1 : x.tab[s.clist[j].chan][n] \notin Blocks
    BY <1>3, <2>1
  <2>3. c \in Chans
    BY <1>1
  <2> HIDE DEF Q, c
  <2>4. Grown(x, c, {}, y) /\ y.tab[c][n] \notin Blocks
    BY <2>2, <2>3, RmGrown
  <2> HIDE DEF y
  <2>5. y \in Tables /\ Grown(s, n, {}, y)
    <3>1. Grown(x, n, {}, y)
      BY <2>4 DEF Grown
    <3> QED BY <2>2, <3>1, GrownTwice DEF Grown
  <2>6. ASSUME NEW j \in 1 .. i PROVE y.tab[s.clist[j].chan][n] \notin Blocks
    <3>1. CASE j = i
      BY <2>4, <3>1 DEF c
    <3>2. CASE j # i
      <4>1. j \in 1 .. i - 1 /\ s.clist[j].chan \in Chans
        BY <1>1, <2>1, <3>2
      <4> QED BY <2>2, <2>4, <4>1 DEF Grown
    <3> QED BY <3>1, <3>2
  <2> QED BY <2>1, <2>5, <2>6 DEF Q, y, c
<1>4. t \in Q[len]
  <2> HIDE DEF Q
  <2> QED BY <1>2, <1>3, QuitStays
<1>5. len \in 0 .. len
  BY <1>1
<1> HIDE DEF t
<1>6. Grown(s, n, {}, t) /\ \A j \in 1 .. len : t.tab[s.clist[j].chan][n] \notin Blocks
  BY <1>4, <1>5
<1>7. \A d : ListOf(s, d) # 0 => ListOf(s, d) \in 1 .. len /\ s.clist[ListOf(s, d)].chan = d
  BY ListOfIs
<1> QED BY <1>6, <1>7, SMTT(60) DEF t

(* on_nick_change: who is found under the new nick was under the old one.    *)
Moved(s, old, new, t) ==
  /\ t \in Tables /\ SameChans(s, t)
  /\ \A d \in Chans, k \in Nicks : t.tab[d][k] \in Blocks =>
       s.tab[d][k] \in Blocks \/ (k = new /\ s.tab[d][old] \in Blocks)

LEMMA RenameMoved ==
  ASSUME NEW s \in Tables, NEW c \in Chans, NEW old \in Nicks, NEW new \in Nicks, NEW harm \in BOOLEAN
  PROVE  Moved(s, old, new, Rename(s, c, old, new, harm))
<1> DEFINE t == Rename(s, c, old, new, harm)
<1>1. CASE HasUser(s, c, old) /\ harm = FALSE
  <2> DEFINE b == s.tab[c][old]
  <2>1. b \in Blocks
    BY <1>1, RenameIs
  <2>2. PICK m \in Tables : /\ m.clist = s.clist
                            /\ m.tab = [s.tab EXCEPT ![c][old] = "null"]
                            /\ m.heap = [s.heap EXCEPT ![b] = [s.heap[b] EXCEPT !.nick = new]]
                            /\ Added(m, c, b, FALSE, t)
    BY <1>1, RenameIs
  <2>3. s.tab \in [Chans -> [Nicks -> Data]] /\ s.heap \in [Blocks -> Record] /\ "null" \notin Blocks
    BY TablesAre, NotBlocks
  <2> HIDE DEF t
  <2>4. t \in Tables /\ SameChans(s, t)
    <3>1. t \in Tables /\ SameChans(m, t)
      BY <2>2 DEF Added
    <3> QED BY <2>2, <3>1 DEF SameChans
  <2>5. m.heap[b].nick = new
    BY <2>1, <2>2, <2>3 DEF Record
  <2>6. t.tab = m.tab \/ \E v : t.tab = [m.tab EXCEPT ![c][new] = v]
    <3> DEFINE data == m.tab[c][m.heap[b].nick]
               k == m.heap[b].nick
    <3>1. /\ data = b => t = m
          /\ data \in Blocks /\ data # b => t.tab = [m.tab EXCEPT ![c][k] = b]
          /\ data \notin Blocks => t.tab = [m.tab EXCEPT ![c][k] = IF data = "absent" THEN b ELSE data]
      BY <2>2, ZenonT(60) DEF Added
    <3>2. k = new
      BY <2>5
    <3> HIDE DEF data, k, b
    <3> QED BY <3>1, <3>2
  <2>7. m.tab \in [Chans -> [Nicks -> Data]]
    BY TablesAre
  <2>8. \A d \in Chans, k \in Nicks : d # c \/ k # new => t.tab[d][k] = m.tab[d][k]
    BY <2>6, <2>7
  <2>9. \A d \in Chans, k \in Nicks : m.tab[d][k] \in Blocks => s.tab[d][k] \in Blocks
    <3> HIDE DEF b
    <3> QED BY <2>2, <2>3
  <2> QED BY <2>1, <2>4, <2>8, <2>9 DEF Moved, t
<1>2. CASE harm \/ ~HasUser(s, c, old)
  <2>1. t \in Tables /\ t.tab = s.tab /\ SameChans(s, t)
    BY <1>2, HarmIs
  <2> HIDE DEF t
  <2> QED BY <2>1 DEF Moved, t
<1> QED BY <1>1, <1>2

LEMMA NickMoved ==
  ASSUME NEW s \in Tables, NEW old \in Nicks, NEW new \in Nicks, NEW harm \in BOOLEAN
  PROVE  Moved(s, old, new, OnNick(s, old, new, harm))
<1> DEFINE S == {x \in Tables : Moved(s, old, new, x)}
           Q == [i \in 0 .. Len(s.clist) |-> S]
<1>1. Len(s.clist) \in Nat /\ \A i \in 1 .. Len(s.clist) : s.clist[i].chan \in Chans
  BY ClistIs
<1>2. \A i \in 0 .. Len(s.clist) : Q[i] = S
  OBVIOUS
<1>3. s \in S
  <2>1. SameChans(s, s)
    BY SameListing
  <2> QED BY <2>1 DEF Moved
<1>4. ASSUME NEW x \in S, NEW c \in Chans PROVE Rename(x, c, old, new, harm) \in S
  <2> DEFINE t == Rename(x, c, old, new, harm)
  <2>1. Moved(x, old, new, t)
    BY RenameMoved
  <2> HIDE DEF t
  <2>2. SameChans(s, t)
    BY <2>1 DEF Moved, SameChans
  <2>3. t \in Tables /\ Moved(s, old, new, t)
    BY <2>1, <2>2 DEF Moved
  <2> QED BY <2>3 DEF t
<1>5. 0 \in 0 .. Len(s.clist) /\ Len(s.clist) \in 0 .. Len(s.clist)
      /\ \A i \in 1 .. Len(s.clist) : i \in 0 .. Len(s.clist) /\ i - 1 \in 0 .. Len(s.clist)
  BY <1>1
<1> HIDE DEF Q, S
<1>6. OnNick(s, old, new, harm) \in Q[Len(s.clist)]
  BY <1>1, <1>2, <1>3, <1>4, <1>5, NickStays
<1>7. OnNick(s, old, new, harm) \in S
  BY <1>2, <1>5, <1>6
<1> QED BY <1>7 DEF S

(* The bot leaving a channel takes an entry of that channel, if any.         *)
LEMMA BotPartLists ==
  ASSUME NEW s \in Tables, NEW c \in Chans
  PROVE  LET t == OnBotPart(s, c)
         IN /\ t \in Tables /\ t.tab = s.tab
            /\ \A d : d # c /\ ListOf(s, d) # 0 => ListOf(t, d) # 0
<1> DEFINE i == ListOf(s, c)
           t == OnBotPart(s, c)
           cl == RemoveAt(s.clist, i)
<1>1. t \in Tables /\ t.tab = s.tab
  BY BotPartIs
<1>2. t.clist = s.clist \/ (i # 0 /\ t.clist = cl)
  <2>1. s.clist \in Seq(Entry) /\ DOMAIN s = {"clist", "tab", "heap", "err", "fault"}
    BY ClistIs DEF Tables
  <2> QED BY <2>1 DEF OnBotPart, Tables
<1> HIDE DEF t
<1>3. ASSUME NEW d, d # c, ListOf(s, d) # 0 PROVE ListOf(t, d) # 0
  <2>1. PICK j \in 1 .. Len(s.clist) : s.clist[j].chan = d
    BY <1>3, ListOfIs
  <2>2. CASE t.clist = s.clist
    BY <1>1, <2>1, <2>2, ListOfIs
  <2>3. CASE i # 0 /\ t.clist = cl
    <3>1. i \in 1 .. Len(s.clist) /\ s.clist[i].chan = c /\ s.clist \in Seq(Entry)
      BY <2>3, ListOfIs, ClistIs
    <3>2. s.clist[j] \in ToSet(s.clist) /\ s.clist[j] # s.clist[i]
      BY <1>3, <2>1, <3>1, SetOf
    <3> HIDE DEF i
    <3>3. cl \in Seq(Entry) /\ s.clist[j] \in ToSet(cl)
      BY <3>1, <3>2, CutList
    <3>4. PICK k \in 1 .. Len(cl) : cl[k] = s.clist[j]
      BY <3>3, SetOf
    <3> HIDE DEF cl
    <3>5. t.clist[k].chan = d /\ k \in 1 .. Len(t.clist)
      BY <2>1, <2>3, <3>4
    <3> QED BY <1>1, <3>5, ListOfIs
  <2> QED BY <1>2, <2>2, <2>3
<1> QED BY <1>1, <1>3 DEF t

(* Whom the module may find in each channel, and that it has a list of every *)
(* channel the bot is in, where a quit will look for him.                    *)
Found(s, W) == \A c \in Chans, n \in Nicks : s.tab[c][n] \in Blocks => n \in W[c]
HasLists(s, mem) == \A c \in Chans : Bot \in mem[c] => ListOf(s, c) # 0
May == [c \in Chans |-> members[c] \cup strays[c]]

(* More may be found, and no list is gone.                                  *)
LEMMA GrownFound ==
  ASSUME NEW s \in Tables, NEW c, NEW N, NEW t \in Tables, Grown(s, c, N, t), NEW W, NEW V, Found(s, W),
         \A d \in Chans : W[d] \subseteq V[d], c \in Chans => N \subseteq V[c],
         NEW mem, NEW mems, HasLists(s, mem), \A d \in Chans : Bot \in mems[d] => Bot \in mem[d]
  PROVE  Found(t, V) /\ HasLists(t, mems)
<1>1. Found(t, V)
  BY DEF Found, Grown
<1>2. \A d : ListOf(t, d) = ListOf(s, d)
  BY SameList DEF Grown
<1> QED BY <1>1, <1>2 DEF HasLists

LEMMA UnhookedGrown ==
  ASSUME NEW s \in Tables, NEW c
  PROVE  Unhooked(s) \in Tables /\ Grown(s, c, {}, Unhooked(s)) /\ Grown(s, c, {}, s)
<1>1. /\ Unhooked(s) \in Tables /\ Unhooked(s).clist = s.clist /\ Unhooked(s).tab = s.tab
      /\ SameChans(s, Unhooked(s)) /\ SameChans(s, s)
  BY UnhookedIs, SameListing
<1> QED BY <1>1 DEF Grown

LEMMA FoundKeeps ==
  ServerOK /\ info \in Tables /\ Found(info, May) /\ HasLists(info, members) /\ Next
    => Found(info', May') /\ HasLists(info', members')
<1> SUFFICES ASSUME ServerOK, info \in Tables, Found(info, May), HasLists(info, members), Next
             PROVE  Found(info', May') /\ HasLists(info', members')
  OBVIOUS
<1> DEFINE s == info
           G == Found(info', May') /\ HasLists(info', members')
<1>0. /\ setting \in Settings /\ setting.chans \subseteq Chans /\ setting.users \subseteq Nicks
      /\ members \in [Chans -> SUBSET Users] /\ modes \in [Chans -> [Users -> SUBSET Modes]]
      /\ Users \subseteq Nicks /\ Bot \in Users /\ strays \in [Chans -> SUBSET Nicks]
      /\ setting.users \subseteq Users
  BY SettingIs DEF ServerOK
<1>W. \A d \in Chans : May[d] = members[d] \cup strays[d] /\ May'[d] = members'[d] \cup strays'[d]
  BY DEF May
<1>g. ASSUME NEW c, NEW N, NEW t \in Tables, Grown(s, c, N, t), Becomes(t),
             \A d \in Chans : May[d] \subseteq May'[d], c \in Chans => N \subseteq May'[c],
             \A d \in Chans : Bot \in members'[d] => Bot \in members[d]
      PROVE  G
  <2>1. info' = t
    BY <1>g, BecomesIs
  <2>2. Found(t, May') /\ HasLists(t, members')
    <3> HIDE DEF s
    <3>1. s \in Tables /\ Found(s, May) /\ HasLists(s, members)
      BY DEF s
    <3> QED BY <1>g, <3>1, GrownFound
  <2> QED BY <2>1, <2>2
<1>m. ASSUME members' = members, strays' = strays PROVE May' = May
  BY <1>m DEF May
<1>L. ASSUME NEW c \in Chans, NEW n \in Users, Leave(c, n, FALSE)
      PROVE  /\ \A d \in Chans : May[d] \subseteq May'[d]
             /\ \A d \in Chans : Bot \in members'[d] => Bot \in members[d]
             /\ n = Bot => Bot \notin members'[c]
  BY <1>0, <1>W, <1>L DEF Leave
<1>u. ASSUME NEW c PROVE Unhooked(s) \in Tables /\ Grown(s, c, {}, Unhooked(s)) /\ Grown(s, c, {}, s)
  BY UnhookedGrown
<1>1. CASE Other
  <2>1. Becomes(Unhooked(s)) /\ members' = members /\ strays' = strays
    BY <1>1 DEF Other
  <2> QED BY <2>1, <1>g, <1>m, <1>u
<1>2. ASSUME NEW c \in setting.chans, BotJoin(c) PROVE G
  <2> DEFINE x == OnBotJoin(s, c)
  <2>1. PICK q \in Names : /\ Cardinality(FreeBlocks(x)) >= Len(q)
                           /\ Becomes(Unhooked(OnNames(x, c, q)))
                           /\ \A i \in 1 .. Len(q) : q[i][1] \in members'[c] \cup strays'[c]
    BY <1>2, BotJoinFacts
  <2>2. /\ members' = [members EXCEPT ![c] = members[c] \cup {Bot}]
        /\ \A d \in Chans \ {c} : strays'[d] = strays[d]
        /\ strays[c] \subseteq members'[c] \cup strays'[c] /\ c \in Chans
    BY <1>0, <1>2, BotJoinFacts
  <2>3. \A d \in Chans : May[d] \subseteq May'[d]
    BY <1>0, <1>W, <2>2
  <2>4. x \in Tables /\ x.tab = s.tab /\ Len(x.clist) = Len(s.clist) + 1 /\ Len(s.clist) \in Nat
        /\ x.clist[1] = [chan |-> c, users |-> <<>>]
        /\ \A i \in 1 .. Len(s.clist) : x.clist[i + 1] = s.clist[i]
    BY <2>2, BotJoinIs, ClistIs
  <2> DEFINE t == OnNames(x, c, q)
             u == Unhooked(t)
  <2> HIDE DEF x
  <2>5. HasLists(x, members')
    <3> SUFFICES ASSUME NEW d \in Chans, Bot \in members'[d] PROVE ListOf(x, d) # 0
      BY DEF HasLists
    <3>1. CASE d = c
      <4>1. x.clist[1].chan = d /\ 1 \in 1 .. Len(x.clist)
        BY <2>4, <3>1
      <4> QED BY <2>4, <4>1, ListOfIs
    <3>2. CASE d # c
      <4>1. Bot \in members[d]
        BY <1>0, <2>2, <3>2
      <4>2. PICK i \in 1 .. Len(s.clist) : s.clist[i].chan = d
        BY <4>1, ListOfIs DEF HasLists
      <4>3. i + 1 \in 1 .. Len(x.clist) /\ x.clist[i + 1].chan = d
        BY <2>4, <4>2
      <4> QED BY <2>4, <4>3, ListOfIs
    <3> QED BY <3>1, <3>2
  <2>6. Found(x, May)
    BY <2>4 DEF Found
  <2>7. Grown(x, c, May'[c], t)
    BY <1>0, <1>W, <2>1, <2>2, <2>4, NamesGrown
  <2>8. t \in Tables
    BY <2>7 DEF Grown
  <2> HIDE DEF t
  <2>9. u \in Tables /\ Grown(x, c, May'[c], u)
    <3>1. u \in Tables /\ Grown(t, c, {}, u)
      BY <2>8, UnhookedGrown
    <3>2. Grown(t, c, May'[c], u)
      BY <3>1 DEF Grown
    <3> QED BY <2>4, <2>7, <2>8, <3>1, <3>2, GrownTwice
  <2> HIDE DEF u
  <2>10. Found(u, May') /\ HasLists(u, members')
    BY <2>3, <2>4, <2>5, <2>6, <2>9, GrownFound
  <2>11. info' = u
    BY <2>1, <2>9, BecomesIs DEF u, t
  <2> QED BY <2>10, <2>11
<1>3. ASSUME NEW c \in setting.chans, WhoReply(c) PROVE G
  <2> DEFINE q == Listed(members[c], modes[c])
             t == OnNames(s, c, q)
             u == Unhooked(t)
  <2>1. Cardinality(FreeBlocks(s)) >= Cardinality(members[c]) /\ Becomes(u)
        /\ members' = members /\ strays' = strays /\ c \in Chans
    BY <1>0, <1>3 DEF WhoReply, Room
  <2>2. q \in Names /\ Len(q) = Cardinality(members[c]) /\ \A i \in 1 .. Len(q) : q[i][1] \in members[c]
    <3>1. members[c] \in SUBSET Nicks /\ \A n \in members[c] : modes[c][n] \in SUBSET Modes
      BY <1>0
    <3> QED BY <3>1, ListedIs DEF NamesOf
  <2> HIDE DEF q
  <2>3. Grown(s, c, members[c], t)
    <3> HIDE DEF s
    <3>1. s \in Tables
      BY DEF s
    <3> QED BY <1>0, <2>1, <2>2, <3>1, NamesGrown
  <2>4. t \in Tables
    BY <2>3 DEF Grown
  <2> HIDE DEF t
  <2>5. u \in Tables /\ Grown(s, c, members[c], u)
    <3>1. u \in Tables /\ Grown(t, c, {}, u)
      BY <2>4, UnhookedGrown
    <3>2. Grown(t, c, members[c], u)
      BY <3>1 DEF Grown
    <3> QED BY <2>3, <2>4, <3>1, <3>2, GrownTwice
  <2> HIDE DEF u
  <2> QED BY <1>g, <1>m, <1>W, <2>1, <2>5
<1>4. ASSUME NEW c \in setting.chans, BotPart(c) PROVE G
  <2> DEFINE t == OnBotPart(s, c)
  <2>1. Becomes(t) /\ Leave(c, Bot, FALSE) /\ c \in Chans
    BY <1>0, <1>4 DEF BotPart
  <2>2. t \in Tables /\ t.tab = s.tab /\ \A d : d # c /\ ListOf(s, d) # 0 => ListOf(t, d) # 0
    BY <2>1, BotPartLists
  <2> HIDE DEF t
  <2>3. info' = t
    BY <2>1, <2>2, BecomesIs
  <2>4. Found(t, May')
    BY <1>0, <1>L, <2>1, <2>2 DEF Found
  <2>5. HasLists(t, members')
    BY <1>0, <1>L, <2>1, <2>2 DEF HasLists
  <2> QED BY <2>3, <2>4, <2>5
<1>5. ASSUME NEW c \in setting.chans, NEW n \in setting.users, Join(c, n) PROVE G
  <2>1. /\ members' = [members EXCEPT ![c] = members[c] \cup {n}] /\ n # Bot /\ Room(1)
        /\ strays' = [strays EXCEPT ![c] = strays[c] \ {n}] /\ c \in Chans /\ n \in Nicks
        /\ Becomes(IF Sees(c) THEN OnJoin(s, c, n) ELSE s)
    BY <1>0, <1>5 DEF Join
  <2>2. /\ \A d \in Chans : May[d] \subseteq May'[d]
        /\ {n} \subseteq May'[c]
        /\ \A d \in Chans : Bot \in members'[d] => Bot \in members[d]
    BY <1>0, <1>W, <2>1
  <2>3. CASE Sees(c)
    <3> DEFINE t == OnJoin(s, c, n)
    <3>1. FreeBlocks(s) # {}
      BY <1>0, <2>1, RoomIs
    <3>2. Grown(s, c, {n}, t)
      BY <1>0, <2>1, <3>1, JoinGrown
    <3>3. t \in Tables /\ Becomes(t)
      BY <2>1, <2>3, <3>2 DEF Grown
    <3> HIDE DEF t, s
    <3> QED BY <1>g, <2>2, <3>2, <3>3
  <2>4. CASE ~Sees(c)
    BY <1>g, <1>u, <2>1, <2>2, <2>4
  <2> QED BY <2>3, <2>4
<1>6. ASSUME NEW c \in setting.chans, NEW n \in setting.users, Part(c, n) PROVE G
  <2>1. c \in Chans /\ n \in Nicks /\ n \in Users /\ n # Bot /\ Leave(c, n, Sees(c))
        /\ Becomes(IF Sees(c) THEN OnPart(s, c, n) ELSE s)
    BY <1>0, <1>6 DEF Part
  <2>2. CASE ~Sees(c)
    <3>1. Leave(c, n, FALSE) /\ Becomes(s)
      <4>1. Sees(c) = FALSE
        BY <2>2 DEF Sees
      <4> QED BY <2>1, <4>1
    <3> QED BY <1>g, <1>u, <1>L, <2>1, <3>1
  <2>3. CASE Sees(c)
    <3> DEFINE t == OnPart(s, c, n)
    <3>1. Becomes(t)
      BY <2>1, <2>3
    <3>2. Grown(s, c, {}, t) /\ t.tab[c][n] \notin Blocks
      BY <2>1, RmGrown DEF OnPart
    <3>3. t \in Tables /\ (\A d : ListOf(t, d) = ListOf(s, d))
          /\ \A d \in Chans, k \in Nicks : t.tab[d][k] \in Blocks => s.tab[d][k] \in Blocks
      <4> HIDE DEF t
      <4> QED BY <3>2, SameList DEF Grown
    <3> HIDE DEF t
    <3>4. info' = t
      BY <3>1, <3>3, BecomesIs
    <3>5. /\ members' = [members EXCEPT ![c] = members[c] \ {n}]
          /\ strays' = [strays EXCEPT ![c] = strays[c] \ {n}]
      BY <2>1, <2>3 DEF Leave
    <3>6. \A d \in Chans : \A k \in May[d] : k \in May'[d] \/ (d = c /\ k = n)
      BY <1>0, <1>W, <3>5
    <3>7. Found(t, May')
      BY <3>2, <3>3, <3>6 DEF Found
    <3>8. HasLists(t, members')
      BY <1>0, <3>3, <3>5 DEF HasLists
    <3> QED BY <3>4, <3>7, <3>8
  <2> QED BY <2>2, <2>3
<1>7. ASSUME NEW c \in setting.chans, NEW n \in setting.users, Kick(c, n) PROVE G
  <2>1. c \in Chans /\ n \in Users /\ Leave(c, n, FALSE) /\ (Becomes(Unhooked(s)) \/ Becomes(s))
    BY <1>0, <1>7 DEF Kick
  <2> QED BY <1>g, <1>u, <1>L, <2>1
<1>c. ASSUME NEW c \in Chans, NEW n \in Users, n \in members[c], Room(1), NEW set \in BOOLEAN,
             NEW letters \in SUBSET Modes, members' = members, strays' = strays,
             Becomes(IF Sees(c) THEN OnMode(s, c, n, set, letters) ELSE s)
      PROVE  G
  <2>1. CASE Sees(c)
    <3> DEFINE t == OnMode(s, c, n, set, letters)
    <3>1. FreeBlocks(s) # {} /\ {} \in SUBSET Modes /\ n \in Nicks
      BY <1>0, <1>c, RoomIs
    <3>2. Grown(s, c, {n}, t)
      BY <1>0, <3>1, UpdateGrown DEF OnMode
    <3>3. t \in Tables /\ Becomes(t)
      BY <1>c, <2>1, <3>2 DEF Grown
    <3> HIDE DEF t, s
    <3> QED BY <1>c, <1>g, <1>m, <1>W, <3>2, <3>3
  <2>2. CASE ~Sees(c)
    BY <1>c, <1>g, <1>m, <1>u, <2>2
  <2> QED BY <2>1, <2>2
<1>8. ASSUME NEW c \in setting.chans, NEW n \in setting.users, NEW m \in Modes, NEW set \in BOOLEAN,
             Mode(c, n, m, set)
      PROVE  G
  <2>1. /\ n \in members[c] /\ Room(1) /\ members' = members /\ strays' = strays
        /\ Becomes(IF Sees(c) THEN OnMode(s, c, n, set, {m}) ELSE s)
    BY <1>8 DEF Mode
  <2> QED BY <1>0, <1>c, <2>1
<1>9. ASSUME NEW c \in setting.chans, NEW n \in setting.users, NEW k \in setting.users, TwoModes(c, n, k)
      PROVE  G
  <2>1. /\ n \in members[c] /\ Room(1) /\ members' = members /\ strays' = strays
        /\ Becomes(IF Sees(c) THEN OnMode(s, c, n, TRUE, Modes) ELSE s)
    BY <1>9 DEF TwoModes
  <2> QED BY <1>0, <1>c, <2>1
<1>10. ASSUME NEW n \in setting.users, Quit(n) PROVE G
  <2>1. /\ n # Bot /\ n \in Nicks
        /\ members' = [d \in Chans |-> members[d] \ {n}]
        /\ strays' = [d \in Chans |-> IF Hears(n) /\ Sees(d) THEN strays[d] \ {n}
                                       ELSE strays[d] \cup ({n} \cap members[d])]
        /\ Becomes(IF Hears(n) THEN OnQuit(s, n) ELSE s)
    BY <1>0, <1>10 DEF Quit
  <2>2. CASE ~Hears(n)
    <3>1. /\ \A d \in Chans : May[d] \subseteq May'[d]
          /\ \A d \in Chans : Bot \in members'[d] => Bot \in members[d]
      BY <1>0, <1>W, <2>1, <2>2
    <3> QED BY <1>g, <1>u, <2>1, <2>2, <3>1
  <2>3. CASE Hears(n)
    <3> DEFINE t == OnQuit(s, n)
    <3>1. Grown(s, n, {}, t) /\ \A d \in Chans : ListOf(s, d) # 0 => t.tab[d][n] \notin Blocks
      BY <2>1, QuitGrown
    <3>2. Becomes(t)
      BY <2>1, <2>3
    <3> HIDE DEF t
    <3>3. t \in Tables /\ (\A d : ListOf(t, d) = ListOf(s, d))
          /\ \A d \in Chans, k \in Nicks : t.tab[d][k] \in Blocks => s.tab[d][k] \in Blocks
      BY <3>1, SameList DEF Grown
    <3>4. info' = t
      BY <3>2, <3>3, BecomesIs
    <3>5. \A d \in Chans : \A k \in May[d] : k \in May'[d] \/ (Sees(d) /\ k = n)
      BY <1>0, <1>W, <2>1
    <3>6. \A d \in Chans : Sees(d) => t.tab[d][n] \notin Blocks
      BY <3>1 DEF Sees, HasLists
    <3>7. Found(t, May')
      BY <3>3, <3>5, <3>6 DEF Found
    <3>8. HasLists(t, members')
      BY <1>0, <2>1, <3>3 DEF HasLists
    <3> QED BY <3>4, <3>7, <3>8
  <2> QED BY <2>2, <2>3
<1>11. ASSUME NEW n \in setting.users, NEW new \in setting.users, Nick(n, new) PROVE G
  <2>1. PICK harm \in BOOLEAN : Becomes(IF Hears(n) THEN OnNick(s, n, new, harm) ELSE s)
    BY <1>11 DEF Nick
  <2>2. /\ members' = [d \in Chans |-> IF n \in members[d] THEN (members[d] \ {n}) \cup {new}
                                                            ELSE members[d]]
        /\ strays' = [d \in Chans |-> IF n \in members[d] \cup strays[d]
                                       THEN (strays[d] \cup {n, new}) \ members'[d] ELSE strays[d]]
        /\ n \in Nicks /\ new \in Nicks /\ new # Bot
    BY <1>0, <1>11 DEF Nick
  <2>3. \A d \in Chans : May[d] \subseteq May'[d]
    BY <1>0, <1>W, <2>2
  <2>4. \A d \in Chans : n \in May[d] => new \in May'[d]
    BY <1>0, <1>W, <2>2
  <2>5. \A d \in Chans : Bot \in members'[d] => Bot \in members[d]
    BY <1>0, <2>2
  <2>6. CASE ~Hears(n)
    BY <1>g, <1>u, <2>1, <2>3, <2>5, <2>6
  <2>7. CASE Hears(n)
    <3> DEFINE t == OnNick(s, n, new, harm)
    <3>1. Becomes(t) /\ Moved(s, n, new, t)
      BY <2>1, <2>2, <2>7, NickMoved
    <3> HIDE DEF t
    <3>2. t \in Tables /\ \A d : ListOf(t, d) = ListOf(s, d)
      BY <3>1, SameList DEF Moved
    <3>3. info' = t
      BY <3>1, <3>2, BecomesIs
    <3>4. Found(t, May')
      BY <2>2, <2>3, <2>4, <3>1 DEF Found, Moved
    <3>5. HasLists(t, members')
      BY <2>5, <3>2 DEF HasLists
    <3> QED BY <3>3, <3>4, <3>5
  <2> QED BY <2>6, <2>7
<1> QED BY <1>1, <1>2, <1>3, <1>4, <1>5, <1>6, <1>7, <1>8, <1>9, <1>10, <1>11 DEF Next

(* The inductive invariant of who is found.                                 *)
FoundInv == TypeOK /\ Found(info, May) /\ HasLists(info, members)

LEMMA FoundStart == Init => FoundInv
<1> SUFFICES ASSUME Init PROVE FoundInv
  OBVIOUS
<1>1. \A c \in Chans, n \in Nicks : info.tab[c][n] \notin Blocks
  BY EmptySound
<1>2. \A c \in Chans : Bot \notin members[c]
  BY DEF Init
<1> QED BY <1>1, <1>2, TypeStarts DEF FoundInv, Found, HasLists

LEMMA FoundKeep == FoundInv /\ [Next]_vars => FoundInv'
<1> SUFFICES ASSUME FoundInv, [Next]_vars PROVE FoundInv'
  OBVIOUS
<1>1. TypeOK'
  BY TypeKeeps DEF FoundInv
<1>2. Found(info', May') /\ HasLists(info', members')
  <2>1. CASE Next
    BY <2>1, TypeIs, FoundKeeps DEF FoundInv
  <2>2. CASE UNCHANGED vars
    <3>1. info' = info /\ May' = May /\ members' = members
      BY <2>2 DEF vars, info, May
    <3> QED BY <3>1 DEF FoundInv
  <2> QED BY <2>1, <2>2
<1>3. Found(info, May)' /\ HasLists(info, members)'
  BY <1>2 DEF Found, HasLists
<1> QED BY <1>1, <1>3 DEF FoundInv

(* README:233-235: whatever happens, with users kicked and renamed, the bot  *)
(* leaving and coming back, names misread and modes given to two, a user     *)
(* whom the module finds in a channel the bot is in is there, or his leaving *)
(* did not reach the module, or a misread list named him: a part or a quit   *)
(* always makes a user unknown, wherever he was known.                       *)
THEOREM GoneAreForgotten == Spec => []GoneAreNotFound
<1>1. FoundInv => GoneAreNotFound
  BY DEF FoundInv, GoneAreNotFound, Found, May, info
<1> QED BY <1>1, FoundStart, FoundKeep, PTL DEF Spec
=============================================================================
