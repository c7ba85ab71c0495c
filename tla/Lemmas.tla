------------------------------- MODULE Lemmas -------------------------------
(***************************************************************************)
(* Facts about the sequence operators that stand for list.c in the         *)
(* specifications: removing the first item with a value (list_delete),     *)
(* appending (list_push_back), and moving a prefix to the back (what the   *)
(* loop of shedule does with list_pop_front and list_push_back); for those *)
(* that stand for ordered_array.c: inserting and removing at a position;   *)
(* and about the division of addresses by the size of a page, whatever     *)
(* that size is.                                                           *)
(***************************************************************************)
EXTENDS Integers, Sequences, FiniteSets, SequencesExt,
        SequenceTheorems, FunctionTheorems, WellFoundedInduction, TLAPS

\* No value is in the list twice.
Distinct(q) == \A i, j \in DOMAIN q : q[i] = q[j] => i = j

\* A list of N addresses without duplicates has at most N items.
LEMMA ListFits ==
    ASSUME NEW N \in Nat, NEW q \in Seq(1 .. N), Distinct(q)
    PROVE  Len(q) \in 0 .. N
<1>1. Len(q) \in Nat /\ q \in [1 .. Len(q) -> 1 .. N] /\ DOMAIN q = 1 .. Len(q)
  BY LenProperties
<1>2. q \in Injection(1 .. Len(q), 1 .. N)
  BY <1>1 DEF Distinct, Injection, IsInjective
<1>3. ExistsInjection(1 .. Len(q), 1 .. N)
  BY <1>2 DEF ExistsInjection
<1>4. Len(q) <= N
  BY <1>1, <1>3, Fun_NatInjLeq
<1> QED BY <1>1, <1>4

\* A non-empty set of list positions has a least element, so a forward scan of
\* a list (get_proc, list_get_item, shedule) stops at one.
LEMMA LeastPosition ==
    ASSUME NEW T, T \subseteq Nat, T # {}
    PROVE  \E x \in T : \A y \in T : x <= y
<1>1. PICK x \in T : \A y \in T : ~ (<<y, x>> \in OpToRel(<, Nat))
  BY WFMin, NatLessThanWellFounded
<1>2. \A y \in T : ~ (y < x)
  BY <1>1, Zenon DEF OpToRel
<1> QED BY <1>2

\* What is in a list after list_push_back of x: x and what was there, once
\* each if x was not.
LEMMA AppendList ==
    ASSUME NEW S, NEW q \in Seq(S), NEW x \in S
    PROVE  /\ Append(q, x) \in Seq(S)
           /\ Len(Append(q, x)) = Len(q) + 1
           /\ ToSet(Append(q, x)) = ToSet(q) \cup {x}
           /\ Distinct(q) /\ x \notin ToSet(q) => Distinct(Append(q, x))
<1> DEFINE r == Append(q, x)
<1>1. /\ r \in Seq(S) /\ Len(r) = Len(q) + 1
      /\ \A i \in 1 .. Len(q) : r[i] = q[i]
      /\ r[Len(q) + 1] = x
  BY AppendProperties
<1>2. Len(q) \in Nat /\ DOMAIN q = 1 .. Len(q) /\ DOMAIN r = 1 .. Len(q) + 1
  BY <1>1, LenProperties
<1> HIDE DEF r
<1>3. ToSet(r) = ToSet(q) \cup {x}
  BY <1>1, <1>2 DEF ToSet
<1>4. Distinct(q) /\ x \notin ToSet(q) => Distinct(r)
  BY <1>1, <1>2 DEF ToSet, Distinct
<1> QED BY <1>1, <1>3, <1>4 DEF r

\* Cutting a list in two after its k-th item and swapping the parts: the item
\* at position i moves to i-k when it was behind the cut, to i+(n-k) otherwise.
LEMMA SwapParts ==
    ASSUME NEW S, NEW q \in Seq(S), NEW k \in 1 .. Len(q)
    PROVE  LET r == SubSeq(q, k + 1, Len(q)) \o SubSeq(q, 1, k)
           IN  /\ r \in Seq(S)
               /\ Len(r) = Len(q)
               /\ \A i \in 1 .. Len(q) :
                    r[i] = IF i <= Len(q) - k THEN q[i + k] ELSE q[i - (Len(q) - k)]
               /\ ToSet(r) = ToSet(q)
               /\ Distinct(q) => Distinct(r)
<1> DEFINE n == Len(q)
           r == SubSeq(q, k + 1, Len(q)) \o SubSeq(q, 1, k)
           a == SubSeq(q, k + 1, n)
           b == SubSeq(q, 1, k)
<1>1. n \in Nat /\ DOMAIN q = 1 .. n /\ \A i \in 1 .. n : q[i] \in S
  BY LenProperties, ElementOfSeq
<1>0. r = a \o b
  OBVIOUS
<1> HIDE DEF n, r
<1>k. k \in 1 .. n
  BY DEF n
<1>2. /\ a \in Seq(S) /\ Len(a) = n - k
      /\ \A i \in 1 .. n - k : a[i] = q[i + k]
  <2>1. \A i \in k + 1 .. n : q[i] \in S
    BY <1>1, <1>k
  <2>2. /\ a \in Seq(S) /\ Len(a) = IF k + 1 <= n THEN n - (k + 1) + 1 ELSE 0
        /\ \A i \in 1 .. n - (k + 1) + 1 : a[i] = q[(k + 1) + i - 1]
    BY <2>1, <1>1, <1>k, SubSeqProperties
  <2> HIDE DEF a
  <2> QED BY <2>2, <1>1, <1>k
<1>3. /\ b \in Seq(S) /\ Len(b) = k
      /\ \A i \in 1 .. k : b[i] = q[i]
  <2>1. \A i \in 1 .. k : q[i] \in S
    BY <1>1, <1>k
  <2>2. /\ b \in Seq(S) /\ Len(b) = IF 1 <= k THEN k - 1 + 1 ELSE 0
        /\ \A i \in 1 .. k - 1 + 1 : b[i] = q[1 + i - 1]
    BY <2>1, <1>k, SubSeqProperties
  <2> HIDE DEF b
  <2> QED BY <2>2, <1>k
<1> HIDE DEF a, b
<1>4. /\ r \in Seq(S) /\ Len(r) = n
      /\ \A i \in 1 .. n : r[i] = IF i <= n - k THEN a[i] ELSE b[i - (n - k)]
  <2>1. /\ a \o b \in Seq(S) /\ Len(a \o b) = Len(a) + Len(b)
        /\ \A i \in 1 .. Len(a) + Len(b) :
             (a \o b)[i] = IF i <= Len(a) THEN a[i] ELSE b[i - Len(a)]
    BY <1>2, <1>3, ConcatProperties
  <2>2. Len(a) + Len(b) = n
    BY <1>1, <1>2, <1>3, <1>k
  <2> QED BY <2>1, <2>2, <1>0, <1>2
<1>5. \A i \in 1 .. n : r[i] = IF i <= n - k THEN q[i + k] ELSE q[i - (n - k)]
  <2> TAKE i \in 1 .. n
  <2>1. CASE i <= n - k
    <3>1. i \in 1 .. n - k
      BY <2>1, <1>1, <1>k
    <3> QED BY <3>1, <2>1, <1>2, <1>4
  <2>2. CASE ~(i <= n - k)
    BY <2>2, <1>1, <1>3, <1>4, <1>k
  <2> QED BY <2>1, <2>2
<1>6. DOMAIN r = 1 .. n
  BY <1>4, LenProperties
<1>7. ToSet(r) = ToSet(q)
  <2>1. ASSUME NEW i \in 1 .. n PROVE r[i] \in ToSet(q)
    <3>1. CASE i <= n - k
      <4>1. i + k \in 1 .. n
        BY <3>1, <1>1, <1>k
      <4> QED BY <4>1, <3>1, <1>1, <1>5 DEF ToSet
    <3>2. CASE ~(i <= n - k)
      <4>1. i - (n - k) \in 1 .. n
        BY <3>2, <1>1, <1>k
      <4> QED BY <4>1, <3>2, <1>1, <1>5 DEF ToSet
    <3> QED BY <3>1, <3>2
  <2>2. ASSUME NEW i \in 1 .. n PROVE q[i] \in ToSet(r)
    <3>1. CASE i > k
      <4>1. i - k \in 1 .. n /\ i - k <= n - k /\ (i - k) + k = i
        BY <3>1, <1>1, <1>k
      <4>2. r[i - k] = q[i]
        BY <4>1, <1>5
      <4> QED BY <4>1, <4>2, <1>6 DEF ToSet
    <3>2. CASE ~(i > k)
      <4>1. i + (n - k) \in 1 .. n /\ ~(i + (n - k) <= n - k) /\ (i + (n - k)) - (n - k) = i
        BY <3>2, <1>1, <1>k
      <4>2. r[i + (n - k)] = q[i]
        BY <4>1, <1>5
      <4> QED BY <4>1, <4>2, <1>6 DEF ToSet
    <3> QED BY <3>1, <3>2
  <2> QED BY <2>1, <2>2, <1>1, <1>6 DEF ToSet
<1>8. ASSUME Distinct(q) PROVE Distinct(r)
  <2> SUFFICES ASSUME NEW i \in 1 .. n, NEW j \in 1 .. n, r[i] = r[j] PROVE i = j
    BY <1>6 DEF Distinct
  <2> DEFINE from(m) == IF m <= n - k THEN m + k ELSE m - (n - k)
  <2>1. from(i) \in 1 .. n /\ from(j) \in 1 .. n
    BY <1>1, <1>k
  <2>2. q[from(i)] = q[from(j)]
    BY <1>5
  <2>3. from(i) = from(j)
    BY <2>1, <2>2, <1>1, <1>8 DEF Distinct
  <2> QED BY <2>3, <1>1, <1>k
<1> QED BY <1>4, <1>5, <1>7, <1>8 DEF n, r

\* list_delete takes away the first item with the value, and leaves the rest in
\* its order.
LEMMA RemoveFirstItem ==
    ASSUME NEW S, NEW q \in Seq(S), NEW x, NEW k \in 1 .. Len(q),
           q[k] = x, \A i \in 1 .. k - 1 : q[i] # x
    PROVE  /\ RemoveFirst(q, x) \in Seq(S)
           /\ RemoveFirst(q, x) = RemoveAt(q, k)
           /\ Len(RemoveFirst(q, x)) = Len(q) - 1
           /\ \A i \in 1 .. Len(q) - 1 :
                RemoveFirst(q, x)[i] = IF i < k THEN q[i] ELSE q[i + 1]
<1> DEFINE n == Len(q)
           r == RemoveFirst(q, x)
           I == {i \in 1 .. n : q[i] = x}
           a == SubSeq(q, 1, k - 1)
           b == SubSeq(q, k + 1, n)
<1>1. n \in Nat /\ DOMAIN q = 1 .. n /\ \A i \in 1 .. n : q[i] \in S
  BY LenProperties, ElementOfSeq
<1>2. k \in I /\ I \subseteq Nat /\ \A i \in I : k <= i
  BY <1>1
<1>4. k \in 1 .. n /\ q[k] = x
  BY <1>1
<1>5. r = a \o b
  <2>1. \E i \in 1 .. Len(q) : q[i] = x
    BY <1>4
  <2>2. SelectInSeq(q, LAMBDA v : v = x) = k
    <3>1. \A m \in I : (\A j \in I : m <= j) => m = k
      BY <1>2, <1>1
    <3>2. k = CHOOSE m \in I : \A j \in I : m <= j
      <4> HIDE DEF I
      <4> QED BY <1>2, <3>1, Zenon
    <3> QED BY <3>2, <1>2 DEF SelectInSeq, Min
  <2> QED BY <2>1, <2>2 DEF RemoveFirst, RemoveAt
<1> HIDE DEF I, r
<1> HIDE DEF n
<1>6. /\ a \in Seq(S) /\ Len(a) = k - 1
      /\ \A i \in 1 .. k - 1 : a[i] = q[i]
  <2>1. \A i \in 1 .. k - 1 : q[i] \in S
    BY <1>1, <1>4
  <2>2. /\ a \in Seq(S) /\ Len(a) = IF 1 <= k - 1 THEN k - 1 - 1 + 1 ELSE 0
        /\ \A i \in 1 .. k - 1 - 1 + 1 : a[i] = q[1 + i - 1]
    BY <2>1, <1>1, <1>4, SubSeqProperties
  <2> HIDE DEF a
  <2> QED BY <2>2, <1>1, <1>4
<1>7. /\ b \in Seq(S) /\ Len(b) = n - k
      /\ \A i \in 1 .. n - k : b[i] = q[i + k]
  <2>1. \A i \in k + 1 .. n : q[i] \in S
    BY <1>1, <1>4
  <2>2. /\ b \in Seq(S) /\ Len(b) = IF k + 1 <= n THEN n - (k + 1) + 1 ELSE 0
        /\ \A i \in 1 .. n - (k + 1) + 1 : b[i] = q[(k + 1) + i - 1]
    BY <2>1, <1>1, <1>4, SubSeqProperties
  <2>3. /\ n - (k + 1) + 1 = n - k /\ (IF k + 1 <= n THEN n - k ELSE 0) = n - k
        /\ \A i \in 1 .. n - k : (k + 1) + i - 1 = i + k
    BY <1>1, <1>4
  <2> HIDE DEF b
  <2> QED BY <2>2, <2>3
<1> HIDE DEF a, b
<1>8. /\ r \in Seq(S) /\ Len(r) = n - 1
      /\ \A i \in 1 .. n - 1 : r[i] = IF i <= k - 1 THEN a[i] ELSE b[i - (k - 1)]
  <2>1. /\ a \o b \in Seq(S) /\ Len(a \o b) = Len(a) + Len(b)
        /\ \A i \in 1 .. Len(a) + Len(b) :
             (a \o b)[i] = IF i <= Len(a) THEN a[i] ELSE b[i - Len(a)]
    BY <1>6, <1>7, ConcatProperties
  <2>2. Len(a) = k - 1 /\ Len(a) + Len(b) = n - 1
    BY <1>1, <1>4, <1>6, <1>7
  <2> QED BY <2>1, <2>2, <1>5
<1>10. r = RemoveAt(q, k)
  BY <1>5 DEF RemoveAt, a, b, n
<1>9. \A i \in 1 .. n - 1 : r[i] = IF i < k THEN q[i] ELSE q[i + 1]
  <2> TAKE i \in 1 .. n - 1
  <2>1. CASE i < k
    BY <2>1, <1>1, <1>4, <1>6, <1>8
  <2>2. CASE ~(i < k)
    <3>1. i - (k - 1) \in 1 .. n - k /\ (i - (k - 1)) + k = i + 1 /\ ~(i <= k - 1)
      BY <2>2, <1>1, <1>4
    <3> QED BY <2>2, <3>1, <1>7, <1>8
  <2> QED BY <2>1, <2>2
<1> QED BY <1>8, <1>9, <1>10 DEF n, r

\* list_delete of a value that is in the list once: it is gone and the rest
\* stays, in its order.
LEMMA RemoveList ==
    ASSUME NEW S, NEW q \in Seq(S), NEW x \in ToSet(q), Distinct(q)
    PROVE  /\ RemoveFirst(q, x) \in Seq(S)
           /\ Len(RemoveFirst(q, x)) = Len(q) - 1
           /\ ToSet(RemoveFirst(q, x)) = ToSet(q) \ {x}
           /\ Distinct(RemoveFirst(q, x))
           /\ \E k \in 1 .. Len(q) :
                /\ q[k] = x
                /\ \A i \in 1 .. Len(q) - 1 :
                     RemoveFirst(q, x)[i] = IF i < k THEN q[i] ELSE q[i + 1]
<1> DEFINE n == Len(q)
           r == RemoveFirst(q, x)
<1>1. n \in Nat /\ DOMAIN q = 1 .. n
  BY LenProperties
<1>4. PICK k \in 1 .. n : q[k] = x
  BY <1>1 DEF ToSet
<1>5. \A i \in 1 .. k - 1 : q[i] # x
  BY <1>1, <1>4 DEF Distinct
<1>8. /\ r \in Seq(S) /\ Len(r) = n - 1
      /\ \A i \in 1 .. n - 1 : r[i] = IF i < k THEN q[i] ELSE q[i + 1]
  BY <1>4, <1>5, RemoveFirstItem
<1> HIDE DEF n, r
<1>9. \A i \in 1 .. n - 1 : r[i] = IF i < k THEN q[i] ELSE q[i + 1]
  BY <1>8
<1>10. DOMAIN r = 1 .. n - 1
  BY <1>8, LenProperties
<1>11. ToSet(r) = ToSet(q) \ {x}
  <2>1. ASSUME NEW i \in 1 .. n - 1 PROVE r[i] \in ToSet(q) \ {x}
    <3>1. CASE i < k
      BY <3>1, <1>1, <1>4, <1>9 DEF ToSet, Distinct
    <3>2. CASE ~(i < k)
      BY <3>2, <1>1, <1>4, <1>9 DEF ToSet, Distinct
    <3> QED BY <3>1, <3>2
  <2>2. ASSUME NEW i \in 1 .. n, q[i] # x PROVE q[i] \in ToSet(r)
    <3>1. CASE i < k
      BY <3>1, <1>1, <1>4, <1>9, <1>10 DEF ToSet
    <3>2. CASE i > k
      <4>1. i - 1 \in 1 .. n - 1 /\ ~(i - 1 < k) /\ (i - 1) + 1 = i
        BY <3>2, <1>1, <1>4
      <4>2. r[i - 1] = q[i]
        BY <4>1, <1>9
      <4> QED BY <4>1, <4>2, <1>10 DEF ToSet
    <3>3. i # k
      BY <2>2, <1>4
    <3> QED BY <3>1, <3>2, <3>3, <1>1, <1>4
  <2> QED BY <2>1, <2>2, <1>1, <1>10 DEF ToSet
<1>12. Distinct(r)
  <2> SUFFICES ASSUME NEW i \in 1 .. n - 1, NEW j \in 1 .. n - 1, r[i] = r[j] PROVE i = j
    BY <1>10 DEF Distinct
  <2> DEFINE from(m) == IF m < k THEN m ELSE m + 1
  <2>1. from(i) \in 1 .. n /\ from(j) \in 1 .. n
    BY <1>1, <1>4
  <2>2. q[from(i)] = q[from(j)]
    BY <1>9
  <2>3. from(i) = from(j)
    BY <2>1, <2>2, <1>1 DEF Distinct
  <2> QED BY <2>3, <1>1, <1>4
<1> QED BY <1>4, <1>8, <1>9, <1>11, <1>12 DEF n, r

\* remove_ordered_array at a position of an array that has no item twice.
LEMMA RemoveAtList ==
    ASSUME NEW S, NEW q \in Seq(S), NEW k \in 1 .. Len(q), Distinct(q)
    PROVE  /\ RemoveAt(q, k) \in Seq(S)
           /\ ToSet(RemoveAt(q, k)) = ToSet(q) \ {q[k]}
           /\ Distinct(RemoveAt(q, k))
<1>1. DOMAIN q = 1 .. Len(q) /\ Len(q) \in Nat
  BY LenProperties
<1>2. q[k] \in ToSet(q)
  BY <1>1 DEF ToSet
<1>3. \A i \in 1 .. k - 1 : q[i] # q[k]
  BY <1>1 DEF Distinct
<1>4. RemoveFirst(q, q[k]) = RemoveAt(q, k)
  BY <1>3, RemoveFirstItem
<1> QED BY <1>2, <1>4, RemoveList

\* insert_ordered_array puts the item at a position and keeps the others.
LEMMA InsertAtList ==
    ASSUME NEW S, NEW q \in Seq(S), NEW k \in 1 .. Len(q) + 1, NEW x \in S
    PROVE  /\ InsertAt(q, k, x) \in Seq(S)
           /\ ToSet(InsertAt(q, k, x)) = ToSet(q) \cup {x}
           /\ Distinct(q) /\ x \notin ToSet(q) => Distinct(InsertAt(q, k, x))
<1> DEFINE n == Len(q)
           a == SubSeq(q, 1, k - 1)
           b == <<x>>
           c == SubSeq(q, k, n)
           ab == a \o b
           r == InsertAt(q, k, x)
<1>1. n \in Nat /\ DOMAIN q = 1 .. n /\ (\A i \in 1 .. n : q[i] \in S) /\ k \in 1 .. n + 1
  BY LenProperties, ElementOfSeq
<1>2. r = ab \o c
  BY DEF InsertAt
<1>3. /\ a \in Seq(S) /\ Len(a) = k - 1
      /\ \A i \in 1 .. k - 1 : a[i] = q[i]
  <2>1. \A i \in 1 .. k - 1 : q[i] \in S
    BY <1>1
  <2>2. /\ a \in Seq(S) /\ Len(a) = IF 1 <= k - 1 THEN k - 1 - 1 + 1 ELSE 0
        /\ \A i \in 1 .. k - 1 - 1 + 1 : a[i] = q[1 + i - 1]
    BY <2>1, <1>1, SubSeqProperties
  <2> HIDE DEF a, n
  <2> QED BY <2>2, <1>1
<1>4. /\ c \in Seq(S) /\ Len(c) = n + 1 - k
      /\ \A i \in 1 .. n + 1 - k : c[i] = q[i + k - 1]
  <2>1. \A i \in k .. n : q[i] \in S
    BY <1>1
  <2>2. /\ c \in Seq(S) /\ Len(c) = IF k <= n THEN n - k + 1 ELSE 0
        /\ \A i \in 1 .. n - k + 1 : c[i] = q[k + i - 1]
    BY <2>1, <1>1, SubSeqProperties
  <2> HIDE DEF c, n
  <2> QED BY <2>2, <1>1
<1>5. b \in Seq(S) /\ Len(b) = 1 /\ b[1] = x
  OBVIOUS
<1> HIDE DEF a, b, c, n
<1>6. /\ ab \in Seq(S) /\ Len(ab) = k
      /\ \A i \in 1 .. k : ab[i] = IF i <= k - 1 THEN q[i] ELSE x
  <2>1. /\ a \o b \in Seq(S) /\ Len(a \o b) = Len(a) + Len(b)
        /\ \A i \in 1 .. Len(a) + Len(b) :
             (a \o b)[i] = IF i <= Len(a) THEN a[i] ELSE b[i - Len(a)]
    BY <1>3, <1>5, ConcatProperties
  <2> QED BY <2>1, <1>1, <1>3, <1>5
<1> HIDE DEF ab
<1>7. /\ r \in Seq(S) /\ Len(r) = n + 1
      /\ \A i \in 1 .. n + 1 :
           r[i] = IF i < k THEN q[i] ELSE IF i = k THEN x ELSE q[i - 1]
  <2>1. /\ ab \o c \in Seq(S) /\ Len(ab \o c) = Len(ab) + Len(c)
        /\ \A i \in 1 .. Len(ab) + Len(c) :
             (ab \o c)[i] = IF i <= Len(ab) THEN ab[i] ELSE c[i - Len(ab)]
    BY <1>4, <1>6, ConcatProperties
  <2>2. Len(ab) = k /\ Len(ab) + Len(c) = n + 1
    BY <1>1, <1>4, <1>6
  <2>3. ASSUME NEW i \in 1 .. n + 1
        PROVE  (ab \o c)[i] = IF i < k THEN q[i] ELSE IF i = k THEN x ELSE q[i - 1]
    <3>1. CASE i <= k
      BY <3>1, <2>1, <2>2, <1>1, <1>6
    <3>2. CASE i > k
      <4>1. i - k \in 1 .. n + 1 - k /\ (i - k) + k - 1 = i - 1 /\ ~(i <= k) /\ ~(i < k) /\ i # k
        BY <3>2, <1>1
      <4>2. (ab \o c)[i] = c[i - k]
        BY <4>1, <2>1, <2>2
      <4>3. c[i - k] = q[i - 1]
        BY <4>1, <1>4
      <4> QED BY <4>1, <4>2, <4>3
    <3>3. i <= k \/ i > k
      BY <1>1
    <3> QED BY <3>1, <3>2, <3>3
  <2> QED BY <2>1, <2>2, <2>3, <1>2
<1> HIDE DEF r
<1>8. DOMAIN r = 1 .. n + 1
  BY <1>7, LenProperties
<1>9. ToSet(r) = ToSet(q) \cup {x}
  <2>1. ASSUME NEW i \in 1 .. n + 1
        PROVE  r[i] \in ToSet(q) \cup {x}
    <3>1. CASE i < k
      <4>1. i \in 1 .. n /\ r[i] = q[i]
        BY <3>1, <1>1, <1>7
      <4> QED BY <4>1, <1>1 DEF ToSet
    <3>2. CASE i > k
      <4>1. i - 1 \in 1 .. n /\ r[i] = q[i - 1]
        BY <3>2, <1>1, <1>7
      <4> QED BY <4>1, <1>1 DEF ToSet
    <3>3. CASE i = k
      BY <3>3, <1>1, <1>7
    <3> QED BY <3>1, <3>2, <3>3, <1>1
  <2>2. x \in ToSet(r)
    BY <1>1, <1>7, <1>8 DEF ToSet
  <2>3. ASSUME NEW i \in 1 .. n PROVE q[i] \in ToSet(r)
    <3>1. CASE i < k
      BY <3>1, <1>1, <1>7, <1>8 DEF ToSet
    <3>2. CASE ~(i < k)
      <4>1. i + 1 \in 1 .. n + 1 /\ ~(i + 1 < k) /\ i + 1 # k /\ (i + 1) - 1 = i
        BY <3>2, <1>1
      <4>2. r[i + 1] = q[i]
        BY <4>1, <1>7
      <4> QED BY <4>1, <4>2, <1>8 DEF ToSet
    <3> QED BY <3>1, <3>2
  <2> QED BY <2>1, <2>2, <2>3, <1>1, <1>8 DEF ToSet
<1>10. ASSUME Distinct(q), x \notin ToSet(q)
       PROVE  Distinct(r)
  <2> SUFFICES ASSUME NEW i \in 1 .. n + 1, NEW j \in 1 .. n + 1, r[i] = r[j] PROVE i = j
    BY <1>8 DEF Distinct
  <2> DEFINE from(m) == IF m < k THEN m ELSE m - 1
  <2>0. \A m \in 1 .. n : q[m] # x
    BY <1>1, <1>10 DEF ToSet
  <2>1. CASE i = k \/ j = k
    BY <2>1, <2>0, <1>1, <1>7
  <2>2. CASE i # k /\ j # k
    <3>1. from(i) \in 1 .. n /\ from(j) \in 1 .. n
      BY <2>2, <1>1
    <3>2. q[from(i)] = q[from(j)]
      BY <2>2, <1>7
    <3>3. from(i) = from(j)
      BY <3>1, <3>2, <1>1, <1>10 DEF Distinct
    <3> QED BY <3>3, <2>2, <1>1
  <2> QED BY <2>1, <2>2
<1> QED BY <1>7, <1>9, <1>10 DEF r

\* Division by the size of a page.
LEMMA DivMod ==
    ASSUME NEW n \in Int, NEW P \in Nat \ {0}
    PROVE  /\ n \div P \in Int /\ n % P \in 0 .. P - 1
           /\ n = (n \div P) * P + (n % P)
<1>1. P \in Int /\ P > 0
  OBVIOUS
<1>2. n \div P \in Int /\ n % P \in 0 .. P - 1
  OBVIOUS
<1>3. n = (n \div P) * P + (n % P)
  BY <1>1, Z3
<1> QED BY <1>2, <1>3

\* It is the only way to write an address as a page and an offset.
LEMMA DivModUnique ==
    ASSUME NEW P \in Nat \ {0}, NEW q \in Int, NEW r \in 0 .. P - 1
    PROVE  (q * P + r) \div P = q /\ (q * P + r) % P = r
OBVIOUS

\* Whole pages before an address change its page only.
LEMMA DivModShift ==
    ASSUME NEW P \in Nat \ {0}, NEW a \in Int, NEW b \in Int, a % P = 0
    PROVE  (a + b) % P = b % P /\ (a + b) \div P = a \div P + b \div P
<1> DEFINE x == a \div P
           y == b \div P
           r == b % P
<1>1. x \in Int /\ y \in Int /\ r \in 0 .. P - 1 /\ a = x * P /\ b = y * P + r
  BY DivMod
<1>2. a + b = (x + y) * P + r
  BY <1>1
<1> HIDE DEF x, y, r
<1>3. x + y \in Int
  BY <1>1
<1>4. ((x + y) * P + r) \div P = x + y /\ ((x + y) * P + r) % P = r
  BY <1>1, <1>3, DivModUnique
<1>5. (a + b) % P = r /\ (a + b) \div P = x + y
  BY <1>2, <1>4
<1> QED BY <1>5 DEF x, y, r

\* A value for each i <= n, from a first value and a step: what a recursive
\* definition needs to have its values.
Follows(f, n, a, G) == f[0] = a /\ \A i \in 1 .. n : f[i] = G[i][f[i - 1]]

LEMMA Recursion ==
    ASSUME NEW n \in Nat, NEW S, NEW a \in S, NEW G \in [1 .. n -> [S -> S]]
    PROVE  \E f \in [0 .. n -> S] : Follows(f, n, a, G)
<1> USE DEF Follows
<1> DEFINE Values(m) == {f \in [0 .. m -> S] : f[0] = a /\ \A i \in 1 .. m : f[i] = G[i][f[i - 1]]}
           T == {m \in 0 .. n : Values(m) = {}}
<1>1. ASSUME T # {} PROVE FALSE
  <2>0. T \subseteq Nat
    OBVIOUS
  <2>1. PICK m \in T : \A k \in T : m <= k
    <3> HIDE DEF T
    <3> QED BY <1>1, <2>0, LeastPosition
  <2>2. m \in 0 .. n /\ Values(m) = {}
    OBVIOUS
  <2>3. m # 0
    <3>1. [i \in 0 .. 0 |-> a] \in Values(0)
      OBVIOUS
    <3> QED BY <3>1, <2>2
  <2>4. m - 1 \in 0 .. n /\ m - 1 \notin T
    <3>1. m - 1 \in 0 .. n /\ ~(m <= m - 1)
      BY <2>2, <2>3
    <3> HIDE DEF T
    <3> QED BY <3>1, <2>1
  <2>21. Values(m - 1) # {}
    BY <2>4
  <2>5. PICK f : f \in Values(m - 1)
    BY <2>21
  <2>6. f \in [0 .. m - 1 -> S] /\ f[0] = a /\ \A i \in 1 .. m - 1 : f[i] = G[i][f[i - 1]]
    BY <2>5
  <2> DEFINE g == [i \in 0 .. m |-> IF i = m THEN G[m][f[m - 1]] ELSE f[i]]
  <2>7. G[m][f[m - 1]] \in S
    <3>1. m \in 1 .. n /\ m - 1 \in 0 .. m - 1
      BY <2>2, <2>3
    <3>2. f[m - 1] \in S /\ G[m] \in [S -> S]
      BY <3>1, <2>6
    <3> QED BY <3>2
  <2>8. g \in [0 .. m -> S]
    <3>1. \A i \in 0 .. m : i # m => i \in 0 .. m - 1
      BY <2>2
    <3> QED BY <3>1, <2>6, <2>7
  <2>9. g[0] = a
    BY <2>2, <2>3, <2>6
  <2>10. ASSUME NEW i \in 1 .. m PROVE g[i] = G[i][g[i - 1]]
    <3>1. i \in 0 .. m /\ i - 1 \in 0 .. m /\ i - 1 # m /\ (i # m => i \in 1 .. m - 1)
      BY <2>2
    <3>2. g[i - 1] = f[i - 1] /\ g[i] = (IF i = m THEN G[m][f[m - 1]] ELSE f[i])
      BY <3>1
    <3> QED BY <3>1, <3>2, <2>6
  <2>11. g \in Values(m)
    BY <2>8, <2>9, <2>10
  <2> QED BY <2>2, <2>11
<1>2. Values(n) # {}
  <2>1. n \in 0 .. n
    OBVIOUS
  <2>2. n \notin T
    BY <1>1
  <2> QED BY <2>1, <2>2
<1> QED BY <1>2
=============================================================================
