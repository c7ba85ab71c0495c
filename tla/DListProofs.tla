---------------------------- MODULE DListProofs ----------------------------
(***************************************************************************)
(* Proofs about DList for any values and any number of items: the links    *)
(* stay sound, a cursor never leaves the list, and the pointer code        *)
(* implements ListSpec.                                                    *)
(***************************************************************************)
EXTENDS DList, Lemmas

USE ListAssumption

\* What an operation in progress was asked for.
ArgSound ==
    /\ pc = "walk" => arg \in 0 .. MAX_ITEMS
    /\ pc = "search" => arg \in Values

\* The inductive invariant.  CursorSound is in it because the loop's exit must
\* know where the cursor stopped.
ListInv == TypeOK /\ Linked /\ CursorSound /\ ArgSound

\* Linked with the list's length and positions named.
LEMMA LinkFacts ==
    ASSUME ListInv
    PROVE  /\ Len(chain) \in 0 .. MAX_ITEMS
           /\ DOMAIN chain = 1 .. Len(chain)
           /\ \A j \in 1 .. Len(chain) : chain[j] \in Items /\ chain[j] # NULL
           /\ Distinct(chain)
           /\ items_count = Len(chain)
<1>1. chain \in Seq(1 .. MAX_ITEMS)
  BY DEF ListInv, TypeOK, Items
<1>2. Len(chain) \in Nat /\ DOMAIN chain = 1 .. Len(chain)
      /\ \A j \in 1 .. Len(chain) : chain[j] \in 1 .. MAX_ITEMS
  BY <1>1, LenProperties, ElementOfSeq
<1>3. Distinct(chain)
  BY <1>2 DEF ListInv, Linked, Distinct
<1>4. Len(chain) \in 0 .. MAX_ITEMS
  BY <1>1, <1>3, ListFits
<1> QED BY <1>2, <1>3, <1>4 DEF ListInv, Linked, Items, NULL

LEMMA InitSound == Init => ListInv
<1> SUFFICES ASSUME Init PROVE ListInv
  OBVIOUS
<1>1. NoValue \in Values
  BY DEF NoValue
<1>2. Len(chain) = 0 /\ chain \in Seq(Items)
  BY DEF Init
<1>3. TypeOK
  BY <1>1, <1>2 DEF Init, TypeOK, Items, NULL
<1>4. Linked
  BY <1>2 DEF Init, Linked, NULL
<1> QED BY <1>3, <1>4 DEF Init, ListInv, CursorSound, ArgSound

\* list_pop_front keeps the links, by cases on what is left.
LEMMA PopSound == ListInv /\ list_pop_front => ListInv'
<1> SUFFICES ASSUME ListInv, list_pop_front PROVE ListInv'
  OBVIOUS
<1> DEFINE n == Len(chain)
<1>1. n \in 0 .. MAX_ITEMS /\ DOMAIN chain = 1 .. n /\ Distinct(chain) /\ items_count = n
  BY LinkFacts
<1>2. CASE items_count = 0
  <2>1. UNCHANGED <<fields, header, chain, cursor>> /\ result' = NULL
    BY <1>2 DEF list_pop_front
  <2> QED BY <2>1 DEF ListInv, TypeOK, Linked, CursorSound, ArgSound, fields, header, cursor
<1>3. CASE items_count # 0
  <2>1. n \in 1 .. MAX_ITEMS /\ first_item = chain[1] /\ first_item \in Items /\ first_item # NULL
    BY <1>1, <1>3, LinkFacts DEF ListInv, Linked
  <2>2. /\ chain' = Tail(chain) /\ chain' \in Seq(Items) /\ Len(chain') = n - 1
        /\ \A j \in 1 .. n - 1 : chain'[j] = chain[j + 1]
    <3>1. chain \in Seq(Items) /\ chain # <<>>
      BY <2>1 DEF ListInv, TypeOK
    <3>2. chain' = Tail(chain)
      BY <1>3 DEF list_pop_front
    <3> QED BY <3>1, <3>2, HeadTailProperties
  <2>3. /\ result' = value[first_item] /\ first_item' = next[first_item]
        /\ prev' = IF next[first_item] # NULL
                   THEN [prev EXCEPT ![next[first_item]] = NULL] ELSE prev
        /\ last_item' = IF next[first_item] # NULL THEN last_item ELSE NULL
        /\ items_count' = items_count - 1
        /\ UNCHANGED <<value, next, pc, item, i, arg>> /\ pc = "idle"
    BY <1>3 DEF list_pop_front, Popped, LastAfterPop, cursor
  <2>4. next[first_item] = (IF n = 1 THEN NULL ELSE chain[2])
    BY <2>1 DEF ListInv, Linked
  <2>5. n # 1 => chain[2] \in Items /\ chain[2] # NULL
    BY <2>1, LinkFacts
  <2>6. TypeOK'
    <3>1. first_item' \in Items \cup {NULL} /\ last_item' \in Items \cup {NULL}
      BY <2>3, <2>4, <2>5 DEF ListInv, TypeOK
    <3>2. prev' \in [Items -> Items \cup {NULL}]
      BY <2>3 DEF ListInv, TypeOK
    <3>3. items_count' \in 0 .. MAX_ITEMS
      BY <2>1, <2>3, <1>1
    <3>4. result' \in Values
      BY <2>1, <2>3 DEF ListInv, TypeOK
    <3> QED BY <3>1, <3>2, <3>3, <3>4, <2>2, <2>3 DEF ListInv, TypeOK
  <2>7. Linked'
    <3> HIDE DEF n
    <3>1. ASSUME NEW j \in 1 .. n - 1, NEW k \in 1 .. n - 1, chain'[j] = chain'[k] PROVE j = k
      <4>1. j + 1 \in 1 .. n /\ k + 1 \in 1 .. n
        BY <1>1
      <4>2. j + 1 = k + 1
        BY <4>1, <3>1, <2>2, <1>1 DEF Distinct
      <4> QED BY <4>2, <1>1
    <3>2. /\ first_item' = IF n - 1 = 0 THEN NULL ELSE chain'[1]
          /\ last_item' = IF n - 1 = 0 THEN NULL ELSE chain'[n - 1]
      <4>1. CASE n = 1
        BY <4>1, <2>3, <2>4
      <4>2. CASE n # 1
        <5>1. 1 \in 1 .. n - 1 /\ n - 1 \in 1 .. n - 1 /\ (n - 1) + 1 = n /\ 1 + 1 = 2 /\ n # 0
          BY <4>2, <2>1
        <5>2. last_item = chain[n]
          BY <5>1, <1>1 DEF ListInv, Linked, n
        <5> QED BY <4>2, <5>1, <5>2, <2>2, <2>3, <2>4, <2>5
      <4> QED BY <4>1, <4>2
    <3>3. ASSUME NEW j \in 1 .. n - 1
          PROVE  /\ next'[chain'[j]] = IF j = n - 1 THEN NULL ELSE chain'[j + 1]
                 /\ prev'[chain'[j]] = IF j = 1 THEN NULL ELSE chain'[j - 1]
      <4>1. /\ j + 1 \in 1 .. n /\ chain'[j] = chain[j + 1] /\ 2 \in 1 .. n /\ n # 1
            /\ j + 1 # 1 /\ (j + 1) - 1 = j /\ (j = 1 <=> j + 1 = 2) /\ (j = n - 1 <=> j + 1 = n)
        BY <2>1, <2>2
      <4>2. /\ next[chain[j + 1]] = IF j + 1 = n THEN NULL ELSE chain[(j + 1) + 1]
            /\ prev[chain[j + 1]] = chain[(j + 1) - 1]
        BY <4>1 DEF ListInv, Linked, n
      <4>3. j # n - 1 => chain'[j + 1] = chain[(j + 1) + 1]
        <5>1. j # n - 1 => j + 1 \in 1 .. n - 1
          BY <2>1
        <5> QED BY <5>1, <2>2
      <4>4. next'[chain'[j]] = IF j = n - 1 THEN NULL ELSE chain'[j + 1]
        BY <4>1, <4>2, <4>3, <2>3
      <4>5. prev' = [prev EXCEPT ![chain[2]] = NULL]
        BY <4>1, <2>3, <2>4, <2>5
      <4>6. CASE j = 1
        <5>1. prev'[chain[2]] = NULL
          BY <4>5, <4>1, <2>5 DEF ListInv, TypeOK
        <5> QED BY <4>6, <5>1, <4>4, <4>1
      <4>7. CASE j # 1
        <5>1. chain[j + 1] # chain[2]
          BY <4>1, <4>7, <1>1 DEF Distinct
        <5>2. chain[j + 1] \in Items
          BY <4>1, LinkFacts DEF n
        <5>3. prev'[chain[j + 1]] = prev[chain[j + 1]]
          BY <4>5, <5>1, <5>2 DEF ListInv, TypeOK
        <5>4. j - 1 \in 1 .. n - 1 /\ (j - 1) + 1 = j
          BY <4>7, <2>1
        <5> QED BY <4>1, <4>2, <4>4, <4>7, <5>3, <5>4, <2>2
      <4> QED BY <4>6, <4>7
    <3>4. items_count' = n - 1 /\ Len(chain') = n - 1
      BY <2>2, <2>3, <1>1
    <3> QED BY <3>1, <3>2, <3>3, <3>4 DEF Linked
  <2> QED BY <2>3, <2>6, <2>7 DEF ListInv, CursorSound, ArgSound
<1> QED BY <1>2, <1>3

\* list_push_back keeps the links: the new item is not in the list yet.
LEMMA PushSound ==
    ASSUME NEW v \in Values, NEW x \in Items, ListInv, list_push_back(v, x)
    PROVE  ListInv'
<1> DEFINE n == Len(chain)
<1>1. n \in 0 .. MAX_ITEMS /\ DOMAIN chain = 1 .. n /\ Distinct(chain) /\ items_count = n
  BY LinkFacts
<1>2. x \notin ToSet(chain) /\ chain \in Seq(Items)
  BY DEF list_push_back, Free, ListInv, TypeOK
<1>3. /\ value' = [value EXCEPT ![x] = v] /\ prev' = [prev EXCEPT ![x] = last_item]
      /\ last_item' = x /\ items_count' = items_count + 1 /\ result' = v
      /\ chain' = Append(chain, x) /\ UNCHANGED <<pc, item, i, arg>> /\ pc = "idle"
      /\ first_item' = IF n = 0 THEN x ELSE first_item
      /\ next' = IF n = 0 THEN [next EXCEPT ![x] = NULL]
                 ELSE [next EXCEPT ![x] = NULL, ![last_item] = x]
  BY <1>1 DEF list_push_back, cursor
<1>4. /\ chain' \in Seq(Items) /\ Len(chain') = n + 1 /\ Distinct(chain')
      /\ \A j \in 1 .. n : chain'[j] = chain[j]
      /\ chain'[n + 1] = x
  <2>1. /\ chain' \in Seq(Items) /\ Len(chain') = n + 1 /\ Distinct(chain')
    BY <1>1, <1>2, <1>3, AppendList
  <2> QED BY <2>1, <1>2, <1>3, AppendProperties
<1>5. n + 1 \in 0 .. MAX_ITEMS
  BY <1>4, ListFits DEF Items
<1>6. n # 0 => last_item = chain[n] /\ chain[n] \in Items /\ chain[n] # x
  <2>1. n # 0 => n \in 1 .. n
    BY <1>1
  <2> QED BY <2>1, <1>1, <1>2, LinkFacts DEF ListInv, Linked, ToSet
<1>7. n = 0 => last_item = NULL
  BY DEF ListInv, Linked
<1>8. x # NULL
  BY DEF Items, NULL
<1>9. TypeOK'
  <2>1. value' \in [Items -> Values] /\ result' \in Values
    BY <1>3 DEF ListInv, TypeOK
  <2>2. prev' \in [Items -> Items \cup {NULL}]
    BY <1>3 DEF ListInv, TypeOK
  <2>3. next' \in [Items -> Items \cup {NULL}]
    <3>1. CASE n = 0
      BY <3>1, <1>3 DEF ListInv, TypeOK
    <3>2. CASE n # 0
      BY <3>2, <1>3, <1>6 DEF ListInv, TypeOK
    <3> QED BY <3>1, <3>2
  <2>4. items_count' \in 0 .. MAX_ITEMS
    BY <1>1, <1>3, <1>5
  <2> QED BY <2>1, <2>2, <2>3, <2>4, <1>3, <1>4 DEF ListInv, TypeOK
<1>10. Linked'
  <2> HIDE DEF n
  <2>1. ASSUME NEW j \in 1 .. n + 1, NEW k \in 1 .. n + 1, chain'[j] = chain'[k] PROVE j = k
    <3>1. DOMAIN chain' = 1 .. n + 1
      BY <1>4, LenProperties
    <3> QED BY <3>1, <2>1, <1>4 DEF Distinct
  <2>2. first_item' = chain'[1] /\ last_item' = chain'[n + 1] /\ n + 1 # 0
    <3>1. CASE n = 0
      BY <3>1, <1>3, <1>4
    <3>2. CASE n # 0
      <4>1. 1 \in 1 .. n
        BY <3>2, <1>1
      <4>2. first_item = chain[1]
        BY <3>2 DEF ListInv, Linked, n
      <4> QED BY <3>2, <4>1, <4>2, <1>1, <1>3, <1>4
    <3> QED BY <3>1, <3>2
  <2>3. ASSUME NEW j \in 1 .. n + 1
        PROVE  /\ next'[chain'[j]] = IF j = n + 1 THEN NULL ELSE chain'[j + 1]
               /\ prev'[chain'[j]] = IF j = 1 THEN NULL ELSE chain'[j - 1]
    <3>1. CASE j = n + 1
      <4>1. next'[x] = NULL
        BY <1>3, <1>6 DEF ListInv, TypeOK
      <4>2. prev'[x] = last_item
        BY <1>3 DEF ListInv, TypeOK
      <4>3. CASE n = 0
        BY <4>1, <4>2, <4>3, <3>1, <1>4, <1>7
      <4>4. CASE n # 0
        <5>1. j - 1 = n /\ n \in 1 .. n /\ j # 1
          BY <3>1, <4>4, <1>1
        <5> QED BY <5>1, <4>1, <4>2, <4>4, <3>1, <1>4, <1>6
      <4> QED BY <4>3, <4>4
    <3>2. CASE j # n + 1
      <4>1. /\ j \in 1 .. n /\ n # 0 /\ chain'[j] = chain[j] /\ chain[j] \in Items /\ chain[j] # x
        <5>1. j \in 1 .. n /\ n # 0
          BY <3>2, <1>1
        <5> QED BY <5>1, <1>1, <1>2, <1>4, LinkFacts DEF ToSet, n
      <4>2. /\ next[chain[j]] = IF j = n THEN NULL ELSE chain[j + 1]
            /\ prev[chain[j]] = IF j = 1 THEN NULL ELSE chain[j - 1]
        BY <4>1 DEF ListInv, Linked, n
      <4>3. prev'[chain[j]] = prev[chain[j]]
        BY <4>1, <1>3 DEF ListInv, TypeOK
      <4>4. j # 1 => chain'[j - 1] = chain[j - 1]
        <5>1. j # 1 => j - 1 \in 1 .. n
          BY <4>1, <1>1
        <5> QED BY <5>1, <1>4
      <4>5. next'[chain[j]] = IF chain[j] = chain[n] THEN x ELSE next[chain[j]]
        BY <4>1, <1>3, <1>6 DEF ListInv, TypeOK
      <4>6. CASE j = n
        BY <4>1, <4>2, <4>3, <4>4, <4>5, <4>6, <3>2, <1>4
      <4>7. CASE j # n
        <5>1. n \in 1 .. n /\ j + 1 \in 1 .. n
          BY <4>1, <4>7, <1>1
        <5>2. chain[j] # chain[n]
          BY <5>1, <4>1, <4>7, <1>1 DEF Distinct
        <5> QED BY <5>1, <5>2, <4>1, <4>2, <4>3, <4>4, <4>5, <4>7, <3>2, <1>4
      <4> QED BY <4>6, <4>7
    <3> QED BY <3>1, <3>2
  <2>4. items_count' = n + 1 /\ Len(chain') = n + 1
    BY <1>1, <1>3, <1>4
  <2> QED BY <2>1, <2>2, <2>3, <2>4 DEF Linked
<1> QED BY <1>3, <1>9, <1>10 DEF ListInv, CursorSound, ArgSound

\* The cursor on an item: where it is, and that nothing before it matches.
LEMMA CursorAt ==
    ASSUME ListInv, pc = "search", item # NULL
    PROVE  \E m \in 1 .. Len(chain) :
             item = chain[m] /\ \A k \in 1 .. m - 1 : value[chain[k]] # arg
<1> DEFINE n == Len(chain)
<1>1. PICK m \in 1 .. n + 1 :
         /\ item = IF m <= n THEN chain[m] ELSE NULL
         /\ \A k \in 1 .. m - 1 : value[chain[k]] # arg
  BY DEF ListInv, CursorSound
<1>2. n \in Nat
  BY LinkFacts
<1>3. m <= n
  BY <1>1
<1>4. m \in 1 .. n
  BY <1>1, <1>2, <1>3
<1> QED BY <1>1, <1>3, <1>4

\* The steps that only move the cursor.
LEMMA CursorSteps ==
    ASSUME ListInv,
           \/ \E n \in 0 .. MAX_ITEMS : list_get_value(n)
           \/ \E v \in Values : list_delete(v)
           \/ Walk \/ Search \/ NotFound
    PROVE  ListInv'
<1> DEFINE n == Len(chain)
<1>1. n \in 0 .. MAX_ITEMS /\ items_count = n /\ \A j \in 1 .. n : chain[j] \in Items
  BY LinkFacts
<1>2. UNCHANGED <<value, prev, next, first_item, last_item, items_count, chain>>
  BY DEF list_get_value, list_delete, Walk, Search, NotFound, fields, header
<1>3. Linked'
  BY <1>2 DEF ListInv, Linked
<1>4. first_item = IF n = 0 THEN NULL ELSE chain[1]
  BY DEF ListInv, Linked
<1>5. ASSUME NEW m \in 0 .. MAX_ITEMS, list_get_value(m) PROVE ListInv'
  <2>1. CASE GetOutside(m)
    BY <2>1, <1>2, <1>3, <1>5 DEF list_get_value, ListInv, TypeOK, CursorSound, ArgSound, cursor
  <2>2. CASE ~GetOutside(m)
    <3>1. /\ pc' = "walk" /\ item' = first_item /\ i' = 0 /\ arg' = m /\ result' = result
      BY <2>2, <1>5 DEF list_get_value
    <3>2. m < n /\ n # 0
      BY <2>2, <1>1 DEF GetOutside
    <3>3. CursorSound'
      BY <3>1, <3>2, <1>1, <1>2, <1>4 DEF CursorSound
    <3>4. TypeOK'
      BY <3>1, <1>1, <1>2 DEF ListInv, TypeOK
    <3> QED BY <3>1, <3>3, <3>4, <1>3 DEF ListInv, ArgSound
  <2> QED BY <2>1, <2>2
<1>6. ASSUME NEW v \in Values, list_delete(v) PROVE ListInv'
  <2>1. /\ pc' = "search" /\ item' = first_item /\ arg' = v /\ UNCHANGED <<i, result>>
    BY <1>6 DEF list_delete
  <2>2. CursorSound'
    <3> HIDE DEF n
    <3>1. 1 \in 1 .. n + 1 /\ (1 <= n <=> n # 0) /\ \A k \in 1 .. 1 - 1 : FALSE
      BY <1>1
    <3>2. item' = IF 1 <= n THEN chain[1] ELSE NULL
      BY <1>4, <2>1, <3>1
    <3>3. \E j \in 1 .. n + 1 : /\ item' = IF j <= n THEN chain[j] ELSE NULL
                                /\ \A k \in 1 .. j - 1 : value[chain[k]] # v
      BY <3>1, <3>2
    <3>4. chain' = chain /\ value' = value
      BY <1>2
    <3> QED BY <2>1, <3>3, <3>4 DEF CursorSound, n
  <2>3. TypeOK'
    BY <2>1, <1>2 DEF ListInv, TypeOK
  <2> QED BY <2>1, <2>2, <2>3, <1>3 DEF ListInv, ArgSound
<1>7. CASE Walk
  <2>1. i <= arg /\ arg < n /\ item = chain[i + 1] /\ arg \in 0 .. MAX_ITEMS /\ i \in 0 .. MAX_ITEMS
    BY <1>7 DEF Walk, ListInv, CursorSound, ArgSound, TypeOK
  <2>2. CASE i < StepsToWalk
    <3>1. item' = next[item] /\ i' = i + 1 /\ UNCHANGED <<pc, arg, result>> /\ i < arg /\ pc = "walk"
      BY <2>1, <2>2, <1>7 DEF Walk, StepsToWalk
    <3>2. i + 1 \in 1 .. n /\ i + 1 # n /\ i' \in 0 .. MAX_ITEMS /\ i' <= arg /\ i' + 1 \in 1 .. n
      BY <3>1, <2>1, <1>1
    <3>3. next[item] = chain[(i + 1) + 1]
      BY <2>1, <3>2 DEF ListInv, Linked
    <3>4. item' = chain[i' + 1] /\ item' \in Items
      BY <3>1, <3>2, <3>3, <1>1
    <3>5. TypeOK'
      BY <3>1, <3>2, <3>4, <1>2 DEF ListInv, TypeOK
    <3>6. CursorSound'
      BY <3>1, <3>2, <3>4, <2>1, <1>2 DEF CursorSound
    <3> QED BY <3>1, <3>5, <3>6, <2>1, <1>3 DEF ListInv, ArgSound
  <2>3. CASE i >= StepsToWalk
    <3>1. /\ result' = value[item] /\ pc' = "idle" /\ item' = NULL /\ i' = 0 /\ arg' = NULL
      BY <2>3, <2>1, <1>7 DEF Walk, StepsToWalk
    <3>2. i + 1 \in 1 .. n
      BY <2>1, <1>1
    <3>3. result' \in Values
      BY <3>1, <3>2, <2>1, <1>1 DEF ListInv, TypeOK
    <3> QED BY <3>1, <3>3, <1>2, <1>3 DEF ListInv, TypeOK, CursorSound, ArgSound, NULL
  <2> QED BY <2>1, <2>2, <2>3 DEF StepsToWalk
<1>8. CASE Search
  <2>1. /\ pc = "search" /\ item # NULL /\ value[item] # arg /\ item' = next[item]
        /\ UNCHANGED <<pc, i, arg, result>>
    BY <1>8 DEF Search, Advance
  <2>2. PICK m \in 1 .. n : item = chain[m] /\ \A k \in 1 .. m - 1 : value[chain[k]] # arg
    BY <2>1, CursorAt
  <2>3. item' = IF m + 1 <= n THEN chain[m + 1] ELSE NULL
    <3>1. next[item] = IF m = n THEN NULL ELSE chain[m + 1]
      BY <2>2 DEF ListInv, Linked
    <3>2. m = n <=> ~(m + 1 <= n)
      BY <2>2, <1>1
    <3> QED BY <3>1, <3>2, <2>1
  <2>4. m + 1 \in 1 .. n + 1 /\ \A k \in 1 .. (m + 1) - 1 : value[chain[k]] # arg
    <3>1. \A k \in 1 .. (m + 1) - 1 : k \in 1 .. m - 1 \/ k = m
      BY <2>2, <1>1
    <3> QED BY <3>1, <2>1, <2>2, <1>1
  <2>5. CursorSound'
    <3> HIDE DEF n
    <3> QED BY <2>1, <2>3, <2>4, <1>2 DEF CursorSound, n
  <2>6. item' \in Items \cup {NULL}
    <3>1. m + 1 <= n => m + 1 \in 1 .. n
      BY <2>2, <1>1
    <3> QED BY <3>1, <2>3, <1>1
  <2>7. TypeOK'
    BY <2>1, <2>6, <1>2 DEF ListInv, TypeOK
  <2> QED BY <2>1, <2>5, <2>7, <1>3 DEF ListInv, ArgSound
<1>9. CASE NotFound
  BY <1>9, <1>2, <1>3 DEF NotFound, Done, ListInv, TypeOK, CursorSound, ArgSound, NULL
<1> QED BY <1>5, <1>6, <1>7, <1>8, <1>9

\* What Unlink does when the cursor is on the m-th item: that item goes, and
\* its two neighbours are linked to each other.
LEMMA UnlinkFacts ==
    ASSUME ListInv, Unlink, NEW m \in 1 .. Len(chain), item = chain[m]
    PROVE  LET n == Len(chain) IN
           /\ first_item' = IF m = 1 THEN next[item] ELSE first_item
           /\ next' = IF m = 1 THEN next ELSE [next EXCEPT ![chain[m - 1]] = next[item]]
           /\ last_item' = IF m = n THEN prev[item] ELSE last_item
           /\ prev' = IF m = n THEN prev ELSE [prev EXCEPT ![chain[m + 1]] = prev[item]]
           /\ next[item] = IF m = n THEN NULL ELSE chain[m + 1]
           /\ prev[item] = IF m = 1 THEN NULL ELSE chain[m - 1]
           /\ m # 1 => m - 1 \in 1 .. n /\ chain[m - 1] \in Items
           /\ m # n => m + 1 \in 1 .. n /\ chain[m + 1] \in Items
           /\ chain' \in Seq(Items) /\ Len(chain') = n - 1 /\ Distinct(chain')
           /\ \A j \in 1 .. n - 1 : chain'[j] = IF j < m THEN chain[j] ELSE chain[j + 1]
           /\ items_count' = n - 1
           /\ pc' = "idle" /\ item' = NULL /\ arg' = NULL /\ UNCHANGED <<i, value, result>>
<1> DEFINE n == Len(chain)
<1>1. n \in 0 .. MAX_ITEMS /\ DOMAIN chain = 1 .. n /\ Distinct(chain) /\ items_count = n
      /\ \A j \in 1 .. n : chain[j] \in Items /\ chain[j] # NULL
  BY LinkFacts
<1>2. /\ first_item' = IF prev[item] = NULL THEN next[item] ELSE first_item
      /\ next' = IF prev[item] = NULL THEN next ELSE [next EXCEPT ![prev[item]] = next[item]]
      /\ last_item' = IF next[item] = NULL THEN prev[item] ELSE last_item
      /\ prev' = IF next[item] = NULL THEN prev ELSE [prev EXCEPT ![next[item]] = prev[item]]
      /\ items_count' = items_count - 1
      /\ chain' = RemoveFirst(chain, item)
      /\ pc' = "idle" /\ item' = NULL /\ arg' = NULL /\ UNCHANGED <<i, value, result>>
  BY DEF Unlink, FrontLink, BackLink, Done
<1>3. /\ next[item] = IF m = n THEN NULL ELSE chain[m + 1]
      /\ prev[item] = IF m = 1 THEN NULL ELSE chain[m - 1]
  BY DEF ListInv, Linked
<1>4. m # 1 => m - 1 \in 1 .. n /\ chain[m - 1] \in Items /\ chain[m - 1] # NULL
  BY <1>1
<1>5. m # n => m + 1 \in 1 .. n /\ chain[m + 1] \in Items /\ chain[m + 1] # NULL
  <2>1. m \in 1 .. n
    OBVIOUS
  <2> HIDE DEF n
  <2>2. m # n => m + 1 \in 1 .. n
    BY <2>1, <1>1
  <2> QED BY <2>2, <1>1
<1>6. chain' \in Seq(Items) /\ Len(chain') = n - 1 /\ Distinct(chain')
      /\ \A j \in 1 .. n - 1 : chain'[j] = IF j < m THEN chain[j] ELSE chain[j + 1]
  <2>1. chain \in Seq(Items) /\ item \in ToSet(chain)
    BY <1>1 DEF ListInv, TypeOK, ToSet
  <2>2. /\ chain' \in Seq(Items) /\ Len(chain') = n - 1 /\ Distinct(chain')
    BY <2>1, <1>1, <1>2, RemoveList
  <2>3. \A k \in 1 .. m - 1 : chain[k] # item
    BY <1>1 DEF Distinct
  <2>4. \A j \in 1 .. n - 1 : chain'[j] = IF j < m THEN chain[j] ELSE chain[j + 1]
    <3>1. m \in 1 .. Len(chain) /\ chain[m] = item
      OBVIOUS
    <3>2. /\ RemoveFirst(chain, item) \in Seq(Items)
          /\ RemoveFirst(chain, item) = RemoveAt(chain, m)
          /\ Len(RemoveFirst(chain, item)) = Len(chain) - 1
          /\ \A j \in 1 .. Len(chain) - 1 :
               RemoveFirst(chain, item)[j] = IF j < m THEN chain[j] ELSE chain[j + 1]
      BY <2>1, <2>3, <3>1, RemoveFirstItem
    <3> QED BY <3>2, <1>2
  <2> QED BY <2>2, <2>4
<1> QED BY <1>1, <1>2, <1>3, <1>4, <1>5, <1>6

\* Unlinking keeps the links: j is a position after the step, and the item there
\* was at j or at j+1 before it.
LEMMA UnlinkSound == ListInv /\ Unlink => ListInv'
<1> SUFFICES ASSUME ListInv, Unlink PROVE ListInv'
  OBVIOUS
<1> DEFINE n == Len(chain)
<1>1. n \in 0 .. MAX_ITEMS /\ DOMAIN chain = 1 .. n /\ Distinct(chain)
      /\ \A j \in 1 .. n : chain[j] \in Items /\ chain[j] # NULL
  BY LinkFacts
<1>2. PICK m \in 1 .. n : item = chain[m]
  <2>1. pc = "search" /\ item # NULL
    BY DEF Unlink
  <2> QED BY <2>1, CursorAt
<1>3. /\ first_item' = IF m = 1 THEN next[item] ELSE first_item
      /\ next' = IF m = 1 THEN next ELSE [next EXCEPT ![chain[m - 1]] = next[item]]
      /\ last_item' = IF m = n THEN prev[item] ELSE last_item
      /\ prev' = IF m = n THEN prev ELSE [prev EXCEPT ![chain[m + 1]] = prev[item]]
      /\ next[item] = IF m = n THEN NULL ELSE chain[m + 1]
      /\ prev[item] = IF m = 1 THEN NULL ELSE chain[m - 1]
  BY <1>2, UnlinkFacts
<1>4. /\ m # 1 => m - 1 \in 1 .. n /\ chain[m - 1] \in Items
      /\ m # n => m + 1 \in 1 .. n /\ chain[m + 1] \in Items
  BY <1>2, UnlinkFacts
<1>5. /\ chain' \in Seq(Items) /\ Len(chain') = n - 1 /\ Distinct(chain')
      /\ \A j \in 1 .. n - 1 : chain'[j] = IF j < m THEN chain[j] ELSE chain[j + 1]
  BY <1>2, UnlinkFacts
<1>6. /\ items_count' = n - 1
      /\ pc' = "idle" /\ item' = NULL /\ arg' = NULL /\ UNCHANGED <<i, value, result>>
  BY <1>2, UnlinkFacts
<1>7. /\ n # 0 /\ first_item = chain[1] /\ last_item = chain[n]
  <2>1. n # 0
    <3> HIDE DEF n
    <3> QED BY <1>1, <1>2
  <2> QED BY <2>1 DEF ListInv, Linked
<1>8. ASSUME NEW j \in 1 .. n
      PROVE  /\ next[chain[j]] = IF j = n THEN NULL ELSE chain[j + 1]
             /\ prev[chain[j]] = IF j = 1 THEN NULL ELSE chain[j - 1]
  BY DEF ListInv, Linked
<1>9. TypeOK'
  <2>1. next[item] \in Items \cup {NULL} /\ prev[item] \in Items \cup {NULL}
    BY <1>3, <1>4
  <2>2. next' \in [Items -> Items \cup {NULL}] /\ prev' \in [Items -> Items \cup {NULL}]
    BY <2>1, <1>3 DEF ListInv, TypeOK
  <2>3. first_item' \in Items \cup {NULL} /\ last_item' \in Items \cup {NULL}
    BY <2>1, <1>3 DEF ListInv, TypeOK
  <2>4. items_count' \in 0 .. MAX_ITEMS
    BY <1>1, <1>2, <1>6
  <2>5. arg' \in Values \cup 0 .. MAX_ITEMS /\ item' \in Items \cup {NULL}
    BY <1>6 DEF NULL
  <2> QED BY <2>2, <2>3, <2>4, <2>5, <1>5, <1>6 DEF ListInv, TypeOK
<1> HIDE DEF n
<1>10. ASSUME NEW j \in 1 .. n - 1
       PROVE  next'[chain'[j]] = IF j = n - 1 THEN NULL ELSE chain'[j + 1]
  <2>0. j \in 1 .. n /\ j + 1 \in 1 .. n /\ chain[j] \in Items /\ chain[j + 1] \in Items
    BY <1>1
  <2>1. CASE j < m - 1
    <3>1. /\ j < m /\ j + 1 < m /\ m - 1 \in 1 .. n /\ j # m - 1 /\ m # 1 /\ j # n
          /\ j # n - 1 /\ j + 1 \in 1 .. n - 1
      BY <2>1, <1>1, <1>2
    <3>2. chain'[j] = chain[j] /\ chain'[j + 1] = chain[j + 1]
      BY <3>1, <1>5
    <3>3. chain[j] # chain[m - 1]
      BY <3>1, <2>0, <1>1 DEF Distinct
    <3>4. next'[chain[j]] = next[chain[j]]
      BY <3>1, <3>3, <2>0, <1>3 DEF ListInv, TypeOK
    <3> QED BY <3>1, <3>2, <3>4, <2>0, <1>8
  <2>2. CASE j = m - 1
    <3>1. /\ j < m /\ m # 1 /\ ~(j + 1 < m) /\ j + 1 = m /\ (j = n - 1 <=> m = n)
          /\ (m # n => j + 1 \in 1 .. n - 1)
      BY <2>2, <1>1, <1>2
    <3>2. chain'[j] = chain[m - 1] /\ (m # n => chain'[j + 1] = chain[m + 1])
      BY <3>1, <2>2, <1>5
    <3>3. next'[chain[m - 1]] = next[item]
      BY <3>1, <1>3, <1>4 DEF ListInv, TypeOK
    <3> QED BY <3>1, <3>2, <3>3, <1>3
  <2>3. CASE j > m - 1
    <3>1. /\ ~(j < m) /\ (m # 1 => m - 1 \in 1 .. n) /\ j + 1 # m - 1 /\ (j + 1 = n <=> j = n - 1)
          /\ (j # n - 1 => j + 1 \in 1 .. n - 1 /\ ~(j + 1 < m))
      BY <2>3, <1>1, <1>2
    <3>2. chain'[j] = chain[j + 1] /\ (j # n - 1 => chain'[j + 1] = chain[(j + 1) + 1])
      BY <3>1, <1>5
    <3>3. m # 1 => chain[j + 1] # chain[m - 1]
      BY <3>1, <2>0, <1>1 DEF Distinct
    <3>4. next'[chain[j + 1]] = next[chain[j + 1]]
      BY <3>1, <3>3, <2>0, <1>3 DEF ListInv, TypeOK
    <3> QED BY <3>1, <3>2, <3>4, <2>0, <1>8
  <2> QED BY <2>1, <2>2, <2>3, <1>1, <1>2
<1>11. ASSUME NEW j \in 1 .. n - 1
       PROVE  prev'[chain'[j]] = IF j = 1 THEN NULL ELSE chain'[j - 1]
  <2>0. /\ j \in 1 .. n /\ j + 1 \in 1 .. n /\ chain[j] \in Items /\ chain[j + 1] \in Items
        /\ (j # 1 => j - 1 \in 1 .. n - 1) /\ j + 1 # 1 /\ (j + 1) - 1 = j
    BY <1>1
  <2>1. CASE j < m
    <3>1. (m # n => m + 1 \in 1 .. n /\ j # m + 1) /\ (j # 1 => j - 1 < m)
      BY <2>0, <2>1, <1>1, <1>2
    <3>2. chain'[j] = chain[j] /\ (j # 1 => chain'[j - 1] = chain[j - 1])
      BY <3>1, <2>0, <2>1, <1>5
    <3>3. m # n => chain[j] # chain[m + 1]
      BY <3>1, <2>0, <1>1 DEF Distinct
    <3>4. prev'[chain[j]] = prev[chain[j]]
      BY <3>3, <2>0, <1>3 DEF ListInv, TypeOK
    <3> QED BY <3>2, <3>4, <2>0, <1>8
  <2>2. CASE j = m
    <3>1. ~(j < m) /\ m # n /\ (j # 1 => j - 1 < m)
      BY <2>2, <1>1, <1>2
    <3>2. chain'[j] = chain[m + 1] /\ (j # 1 => chain'[j - 1] = chain[m - 1])
      BY <3>1, <2>0, <2>2, <1>5
    <3>3. prev'[chain[m + 1]] = prev[item]
      BY <3>1, <1>3, <1>4 DEF ListInv, TypeOK
    <3> QED BY <3>2, <3>3, <2>2, <1>3
  <2>3. CASE j > m
    <3>1. ~(j < m) /\ ~(j - 1 < m) /\ j # 1 /\ (j - 1) + 1 = j /\ j + 1 # m + 1
      BY <2>0, <2>3, <1>2
    <3>2. chain'[j] = chain[j + 1] /\ chain'[j - 1] = chain[j]
      BY <3>1, <2>0, <1>5
    <3>3. m # n => chain[j + 1] # chain[m + 1]
      BY <3>1, <2>0, <1>1, <1>4 DEF Distinct
    <3>4. prev'[chain[j + 1]] = prev[chain[j + 1]]
      BY <3>3, <2>0, <1>3 DEF ListInv, TypeOK
    <3>5. prev[chain[j + 1]] = chain[j]
      <4>1. prev[chain[j + 1]] = IF j + 1 = 1 THEN NULL ELSE chain[(j + 1) - 1]
        BY <2>0, <1>8
      <4> QED BY <4>1, <2>0
    <3> QED BY <3>1, <3>2, <3>4, <3>5
  <2> QED BY <2>1, <2>2, <2>3, <1>1, <1>2
<1>12. /\ first_item' = IF n - 1 = 0 THEN NULL ELSE chain'[1]
       /\ last_item' = IF n - 1 = 0 THEN NULL ELSE chain'[n - 1]
  <2>1. CASE n = 1
    <3>1. m = 1
      BY <2>1, <1>2
    <3> QED BY <2>1, <3>1, <1>3
  <2>2. CASE n # 1
    <3>1. 1 \in 1 .. n - 1 /\ n - 1 \in 1 .. n - 1 /\ (n - 1) + 1 = n /\ n - 1 # 0
          /\ (1 < m <=> m # 1) /\ (n - 1 < m <=> m = n)
      BY <2>2, <1>1, <1>2, <1>7
    <3>2. chain'[1] = (IF m # 1 THEN chain[1] ELSE chain[2])
      BY <3>1, <1>5
    <3>3. chain'[n - 1] = (IF m = n THEN chain[n - 1] ELSE chain[n])
      BY <3>1, <1>5
    <3>4. (m = 1 => m # n /\ m + 1 = 2) /\ (m = n => m # 1)
      BY <2>2
    <3> QED BY <3>1, <3>2, <3>3, <3>4, <1>3, <1>7
  <2> QED BY <2>1, <2>2
<1>13. Linked'
  <2>1. \A j, k \in 1 .. n - 1 : chain'[j] = chain'[k] => j = k
    <3>1. DOMAIN chain' = 1 .. n - 1
      BY <1>5, LenProperties
    <3> QED BY <3>1, <1>5 DEF Distinct
  <2> QED BY <2>1, <1>5, <1>6, <1>10, <1>11, <1>12 DEF Linked
<1> QED BY <1>6, <1>9, <1>13 DEF ListInv, CursorSound, ArgSound

\* Every step of every operation keeps the invariant.
THEOREM ListStep == ListInv /\ [Next]_vars => ListInv'
<1> SUFFICES ASSUME ListInv, [Next]_vars PROVE ListInv'
  OBVIOUS
<1>1. CASE list_pop_front
  BY <1>1, PopSound
<1>2. ASSUME NEW v \in Values, NEW x \in Items, list_push_back(v, x) PROVE ListInv'
  BY <1>2, PushSound
<1>3. CASE Unlink
  BY <1>3, UnlinkSound
<1>4. CASE \/ \E n \in 0 .. MAX_ITEMS : list_get_value(n)
           \/ \E v \in Values : list_delete(v)
           \/ Walk \/ Search \/ NotFound
  BY <1>4, CursorSteps
<1>5. CASE UNCHANGED vars
  BY <1>5 DEF vars, fields, header, cursor, ListInv, TypeOK, Linked, CursorSound, ArgSound
<1> QED BY <1>1, <1>2, <1>3, <1>4, <1>5 DEF Next, Step

\* After any sequence of calls, for lists of any length: types, links and the
\* cursor of a walk or search are sound (list.c).
THEOREM ListCorrect == Spec => [](TypeOK /\ Linked /\ CursorSound)
<1>1. ListInv => TypeOK /\ Linked /\ CursorSound
  BY DEF ListInv
<1> QED BY <1>1, InitSound, ListStep, PTL DEF Spec

\* list_push_back, list_pop_front and list_delete leave prev, next and both ends
\* in agreement (list.c:80).
THEOREM LinksSound == Spec => []Linked
<1>1. (TypeOK /\ Linked /\ CursorSound) => Linked
  OBVIOUS
<1> QED BY <1>1, ListCorrect, PTL

\* No call of list.c leaves a field, an end or a cursor that is not an item or null.
THEOREM ListTypes == Spec => []TypeOK
<1>1. (TypeOK /\ Linked /\ CursorSound) => TypeOK
  OBVIOUS
<1> QED BY <1>1, ListCorrect, PTL

(***************************************************************************)
(* Refinement                                                              *)
(***************************************************************************)

\* The list seen from outside, as a sequence, for any links and memory.
LEMMA SeenOf ==
    ASSUME NEW f \in [Items -> Values], NEW c \in Seq(Items)
    PROVE  LET s == [j \in 1 .. Len(c) |-> f[c[j]]]
           IN  /\ s \in Seq(Values)
               /\ Len(s) = Len(c)
               /\ \A j \in 1 .. Len(c) : s[j] = f[c[j]]
<1> DEFINE s == [j \in 1 .. Len(c) |-> f[c[j]]]
<1>1. Len(c) \in Nat /\ \A j \in 1 .. Len(c) : f[c[j]] \in Values
  BY LenProperties, ElementOfSeq
<1>2. s \in Seq(Values)
  BY <1>1, IsASeq
<1>3. DOMAIN s = 1 .. Len(c) /\ \A j \in 1 .. Len(c) : s[j] = f[c[j]]
  OBVIOUS
<1>4. Len(s) = Len(c)
  <2>1. DOMAIN s = 1 .. Len(s) /\ Len(s) \in Nat
    BY <1>2, LenProperties
  <2> HIDE DEF s
  <2> QED BY <2>1, <1>1, <1>3
<1> QED BY <1>2, <1>3, <1>4

LEMMA SeenFacts ==
    ASSUME ListInv
    PROVE  /\ SeenList \in Seq(Values) /\ Len(SeenList) = Len(chain)
           /\ \A j \in 1 .. Len(chain) : SeenList[j] = value[chain[j]]
BY SeenOf DEF ListInv, TypeOK, SeenList

LEMMA SeenFactsNext ==
    ASSUME ListInv'
    PROVE  /\ SeenList' \in Seq(Values) /\ Len(SeenList') = Len(chain')
           /\ \A j \in 1 .. Len(chain') : SeenList'[j] = value'[chain'[j]]
BY SeenOf DEF ListInv, TypeOK, SeenList

LEMMA SeenInit == Init => Seen!Init
<1> SUFFICES ASSUME Init PROVE Seen!Init
  OBVIOUS
<1>1. ListInv
  BY InitSound
<1>2. Len(SeenList) = 0 /\ SeenList \in Seq(Values)
  BY <1>1, SeenFacts DEF Init
<1>3. SeenList = <<>>
  BY <1>2, EmptySeq
<1> QED BY <1>3 DEF Init, Seen!Init, NULL

LEMMA SeenPush ==
    ASSUME NEW v \in Values, NEW x \in Items, ListInv, ListInv', list_push_back(v, x)
    PROVE  Seen!PushBack(v)
<1> DEFINE n == Len(chain)
<1>1. /\ SeenList \in Seq(Values) /\ Len(SeenList) = n
      /\ \A j \in 1 .. n : SeenList[j] = value[chain[j]]
  BY SeenFacts
<1>2. /\ SeenList' \in Seq(Values) /\ Len(SeenList') = Len(chain')
      /\ \A j \in 1 .. Len(chain') : SeenList'[j] = value'[chain'[j]]
  BY SeenFactsNext
<1>3. /\ x \notin ToSet(chain) /\ chain \in Seq(Items) /\ value \in [Items -> Values]
      /\ n \in Nat /\ DOMAIN chain = 1 .. n /\ \A j \in 1 .. n : chain[j] \in Items
  BY LinkFacts DEF list_push_back, Free, ListInv, TypeOK
<1>4. value' = [value EXCEPT ![x] = v] /\ chain' = Append(chain, x) /\ result' = v
      /\ items_count' = items_count + 1 /\ items_count = n
  BY LinkFacts DEF list_push_back
<1>5. Len(chain') = n + 1 /\ chain'[n + 1] = x /\ \A j \in 1 .. n : chain'[j] = chain[j]
  BY <1>3, <1>4, AppendProperties
<1>6. n < MAX_ITEMS
  <2>1. items_count' \in 0 .. MAX_ITEMS
    BY DEF ListInv, TypeOK
  <2> HIDE DEF n
  <2> QED BY <2>1, <1>3, <1>4
<1> DEFINE s == Append(SeenList, v)
<1>7. s \in Seq(Values) /\ Len(s) = n + 1 /\ s[n + 1] = v /\ \A j \in 1 .. n : s[j] = SeenList[j]
  BY <1>1, AppendProperties
<1> HIDE DEF n, s
<1>8. \A j \in 1 .. n + 1 : SeenList'[j] = s[j]
  <2> TAKE j \in 1 .. n + 1
  <2>1. CASE j = n + 1
    BY <2>1, <1>2, <1>3, <1>4, <1>5, <1>7
  <2>2. CASE j # n + 1
    <3>1. j \in 1 .. n /\ chain[j] # x
      BY <2>2, <1>3 DEF ToSet
    <3> QED BY <3>1, <1>1, <1>2, <1>3, <1>4, <1>5, <1>7
  <2> QED BY <2>1, <2>2
<1>9. SeenList' = s
  BY <1>2, <1>5, <1>7, <1>8, SeqEqual
<1> QED BY <1>1, <1>4, <1>6, <1>9 DEF Seen!PushBack, s

LEMMA SeenPop ==
    ASSUME ListInv, ListInv', list_pop_front
    PROVE  Seen!PopFront
<1> DEFINE n == Len(chain)
<1>1. /\ SeenList \in Seq(Values) /\ Len(SeenList) = n
      /\ \A j \in 1 .. n : SeenList[j] = value[chain[j]]
  BY SeenFacts
<1>2. /\ SeenList' \in Seq(Values) /\ Len(SeenList') = Len(chain')
      /\ \A j \in 1 .. Len(chain') : SeenList'[j] = value'[chain'[j]]
  BY SeenFactsNext
<1>3. n \in Nat /\ items_count = n
  BY LinkFacts
<1>4. CASE items_count = 0
  <2>1. result' = NULL /\ value' = value /\ chain' = chain
    BY <1>4 DEF list_pop_front, fields
  <2>2. SeenList = <<>> /\ SeenList' = SeenList
    BY <2>1, <1>1, <1>3, <1>4, EmptySeq DEF SeenList
  <2> QED BY <2>1, <2>2 DEF Seen!PopFront, NULL
<1>5. CASE items_count # 0
  <2>1. result' = value[first_item] /\ value' = value /\ chain' = Tail(chain)
    BY <1>5 DEF list_pop_front, Popped
  <2>2. first_item = chain[1] /\ 1 \in 1 .. n
    BY <1>3, <1>5 DEF ListInv, Linked
  <2>3. SeenList # <<>> /\ chain # <<>> /\ chain \in Seq(Items)
    BY <1>1, <1>3, <1>5, EmptySeq DEF ListInv, TypeOK
  <2>4. Head(SeenList) = result'
    BY <2>1, <2>2, <2>3, <1>1, HeadTailProperties
  <2>5. Len(chain') = n - 1 /\ \A j \in 1 .. n - 1 : chain'[j] = chain[j + 1]
    BY <2>1, <2>3, HeadTailProperties
  <2> DEFINE s == Tail(SeenList)
  <2>6. s \in Seq(Values) /\ Len(s) = n - 1 /\ \A j \in 1 .. n - 1 : s[j] = SeenList[j + 1]
    BY <2>3, <1>1, HeadTailProperties
  <2> HIDE DEF s, n
  <2>7. \A j \in 1 .. n - 1 : SeenList'[j] = s[j]
    <3> TAKE j \in 1 .. n - 1
    <3>1. j + 1 \in 1 .. n
      BY <1>3
    <3>2. SeenList'[j] = value[chain[j + 1]]
      BY <2>1, <2>5, <1>2
    <3>3. s[j] = SeenList[j + 1]
      BY <2>6
    <3> QED BY <3>1, <3>2, <3>3, <1>1
  <2>8. SeenList' = s
    BY <2>5, <2>6, <2>7, <1>2, SeqEqual
  <2> QED BY <2>3, <2>4, <2>8 DEF Seen!PopFront, s
<1> QED BY <1>4, <1>5

LEMMA SeenGet ==
    ASSUME ListInv,
           Walk \/ \E n \in 0 .. MAX_ITEMS : list_get_value(n)
    PROVE  UNCHANGED <<SeenList, result>> \/ \E n \in 0 .. MAX_ITEMS : Seen!GetValue(n)
<1> DEFINE n == Len(chain)
<1>1. /\ SeenList \in Seq(Values) /\ Len(SeenList) = n
      /\ \A j \in 1 .. n : SeenList[j] = value[chain[j]]
      /\ n \in Nat /\ items_count = n
  BY SeenFacts, LinkFacts
<1>2. SeenList' = SeenList
  BY DEF Walk, list_get_value, fields, SeenList
<1>3. ASSUME NEW m \in 0 .. MAX_ITEMS, list_get_value(m) PROVE UNCHANGED result \/ Seen!GetValue(m)
  <2>1. CASE GetOutside(m)
    <3>1. result' = 0 /\ ~(m < Len(SeenList))
      BY <2>1, <1>1, <1>3 DEF list_get_value, GetOutside, NULL
    <3> QED BY <3>1, <1>2 DEF Seen!GetValue
  <2>2. CASE ~GetOutside(m)
    BY <2>2, <1>3 DEF list_get_value
  <2> QED BY <2>1, <2>2
<1>4. CASE Walk
  <2>1. i <= arg /\ arg < n /\ item = chain[i + 1] /\ arg \in 0 .. MAX_ITEMS /\ i \in 0 .. MAX_ITEMS
    BY <1>4 DEF Walk, ListInv, CursorSound, ArgSound, TypeOK
  <2>2. CASE i < StepsToWalk
    BY <2>1, <2>2, <1>2, <1>4 DEF Walk, StepsToWalk
  <2>3. CASE i >= StepsToWalk
    <3>1. result' = value[chain[i + 1]] /\ i = arg
      BY <2>1, <2>3, <1>4 DEF Walk, StepsToWalk
    <3>2. arg + 1 \in 1 .. n /\ arg < Len(SeenList)
      <4> HIDE DEF n
      <4> QED BY <2>1, <1>1
    <3>3. result' = SeenList[arg + 1]
      BY <3>1, <3>2, <1>1
    <3>4. Seen!GetValue(arg)
      BY <3>2, <3>3, <1>2 DEF Seen!GetValue
    <3> QED BY <3>4, <2>1
  <2> QED BY <2>1, <2>2, <2>3 DEF StepsToWalk
<1> QED BY <1>2, <1>3, <1>4

\* list_delete means the same in both specifications.
LEMMA SameRemove ==
    ASSUME NEW q, NEW x
    PROVE  Seen!RemoveFirst(q, x) = RemoveFirst(q, x)
BY Zenon DEF Seen!RemoveFirst, RemoveFirst, Seen!RemoveAt, RemoveAt,
             Seen!SelectInSeq, SelectInSeq, Seen!Min, Min

\* What is unlinked is the first item with the value, because the search went
\* over every item before it.
LEMMA SeenUnlink ==
    ASSUME ListInv, ListInv', Unlink
    PROVE  Seen!Delete(arg)
<1> DEFINE n == Len(chain)
<1>1. /\ SeenList \in Seq(Values) /\ Len(SeenList) = n
      /\ \A j \in 1 .. n : SeenList[j] = value[chain[j]]
      /\ n \in Nat
  BY SeenFacts, LinkFacts
<1>2. /\ SeenList' \in Seq(Values) /\ Len(SeenList') = Len(chain')
      /\ \A j \in 1 .. Len(chain') : SeenList'[j] = value'[chain'[j]]
  BY SeenFactsNext
<1>3. pc = "search" /\ item # NULL /\ value[item] = arg
  BY DEF Unlink
<1>4. PICK m \in 1 .. n : item = chain[m] /\ \A k \in 1 .. m - 1 : value[chain[k]] # arg
  BY <1>3, CursorAt
<1>5. /\ Len(chain') = n - 1 /\ value' = value /\ result' = result
      /\ \A j \in 1 .. n - 1 : chain'[j] = IF j < m THEN chain[j] ELSE chain[j + 1]
  BY <1>4, UnlinkFacts
<1> DEFINE s == RemoveFirst(SeenList, arg)
<1>6. /\ s \in Seq(Values) /\ Len(s) = n - 1
      /\ \A j \in 1 .. n - 1 : s[j] = IF j < m THEN SeenList[j] ELSE SeenList[j + 1]
  <2>1. SeenList[m] = arg
    BY <1>1, <1>3, <1>4
  <2>2. \A k \in 1 .. m - 1 : k \in 1 .. n
    <3> HIDE DEF n
    <3> QED BY <1>1, <1>4
  <2>3. \A k \in 1 .. m - 1 : SeenList[k] # arg
    BY <2>2, <1>1, <1>4
  <2>4. m \in 1 .. Len(SeenList)
    BY <1>1
  <2>5. /\ s \in Seq(Values) /\ Len(s) = Len(SeenList) - 1
        /\ \A j \in 1 .. Len(SeenList) - 1 :
             s[j] = IF j < m THEN SeenList[j] ELSE SeenList[j + 1]
    <3>1. SeenList \in Seq(Values)
      BY <1>1
    <3> HIDE DEF n
    <3> QED BY <2>1, <2>3, <2>4, <3>1, RemoveFirstItem
  <2> HIDE DEF n, s
  <2> QED BY <2>5, <1>1
<1> HIDE DEF n, s
<1>7. \A j \in 1 .. n - 1 : SeenList'[j] = s[j]
  <2> TAKE j \in 1 .. n - 1
  <2>1. j \in 1 .. n /\ j + 1 \in 1 .. n
    BY <1>1
  <2>2. SeenList'[j] = value[chain'[j]]
    BY <1>2, <1>5
  <2> QED BY <2>1, <2>2, <1>1, <1>5, <1>6
<1>8. SeenList' = s
  BY <1>2, <1>5, <1>6, <1>7, SeqEqual
<1> QED BY <1>5, <1>8, SameRemove DEF Seen!Delete, s

\* When the search passes the end, no item has the value.
LEMMA SeenNotFound ==
    ASSUME ListInv, NotFound
    PROVE  Seen!Delete(arg)
<1> DEFINE n == Len(chain)
<1>1. /\ Len(SeenList) = n /\ \A j \in 1 .. n : SeenList[j] = value[chain[j]]
      /\ n \in Nat /\ \A j \in 1 .. n : chain[j] # NULL
  BY SeenFacts, LinkFacts
<1>2. pc = "search" /\ item = NULL /\ UNCHANGED <<SeenList, result>>
  BY DEF NotFound, fields, SeenList
<1>3. PICK m \in 1 .. n + 1 :
         /\ item = IF m <= n THEN chain[m] ELSE NULL
         /\ \A k \in 1 .. m - 1 : value[chain[k]] # arg
  BY <1>2 DEF ListInv, CursorSound
<1>4. m = n + 1
  <2>1. m <= n => m \in 1 .. n
    OBVIOUS
  <2>2. ~(m <= n)
    BY <2>1, <1>1, <1>2, <1>3
  <2> HIDE DEF n
  <2> QED BY <2>2, <1>1, <1>3
<1>5. \A k \in 1 .. n : SeenList[k] # arg
  <2>1. 1 .. m - 1 = 1 .. n
    <3> HIDE DEF n
    <3> QED BY <1>1, <1>4
  <2> QED BY <2>1, <1>1, <1>3
<1>6. RemoveFirst(SeenList, arg) = SeenList
  BY <1>1, <1>5 DEF RemoveFirst
<1> QED BY <1>2, <1>6, SameRemove DEF Seen!Delete

\* Each step of the pointer code is a step of the abstract list or changes
\* nothing that is seen from outside.
THEOREM ListRefines ==
    ListInv /\ ListInv' /\ [Next]_vars => [Seen!Next]_<<SeenList, result>>
<1> SUFFICES ASSUME ListInv, ListInv', [Next]_vars PROVE [Seen!Next]_<<SeenList, result>>
  OBVIOUS
<1>1. CASE list_pop_front
  BY <1>1, SeenPop DEF Seen!Next
<1>2. ASSUME NEW v \in Values, NEW x \in Items, list_push_back(v, x) PROVE Seen!Next
  BY <1>2, SeenPush DEF Seen!Next
<1>3. CASE Walk \/ \E n \in 0 .. MAX_ITEMS : list_get_value(n)
  <2>1. UNCHANGED <<SeenList, result>> \/ \E n \in 0 .. MAX_ITEMS : Seen!GetValue(n)
    BY <1>3, SeenGet
  <2> QED BY <2>1 DEF Seen!Next
<1>4. CASE Unlink \/ NotFound
  <2>1. arg \in Values
    BY <1>4 DEF Unlink, NotFound, ListInv, ArgSound
  <2> QED BY <1>4, <2>1, SeenUnlink, SeenNotFound DEF Seen!Next
<1>5. CASE Search \/ \E v \in Values : list_delete(v)
  BY <1>5 DEF Search, list_delete, fields, SeenList
<1>6. CASE UNCHANGED vars
  BY <1>6 DEF vars, fields, SeenList
<1> QED BY <1>1, <1>2, <1>3, <1>4, <1>5, <1>6 DEF Next, Step

\* list.c implements the list that its callers rely on, whatever is stored in it
\* and however long it grows.
THEOREM ListImplements == Spec => ListSpec
<1>1. Spec => []ListInv
  BY InitSound, ListStep, PTL DEF Spec
<1> QED BY <1>1, SeenInit, ListRefines, PTL DEF Spec, ListSpec, Seen!Spec
=============================================================================
