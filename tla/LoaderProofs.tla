---------------------------- MODULE LoaderProofs ----------------------------
(***************************************************************************)
(* Proofs about the memory from boot to a running program, for any sizes   *)
(* and any files.                                                          *)
(***************************************************************************)
EXTENDS Loader, Lemmas, FiniteSetTheorems

(***************************************************************************)
(* The image of the ram disk                                               *)
(***************************************************************************)
LEMMA FilesTyped ==
    /\ Len(Files) \in Nat /\ Inodes = 1 .. Len(Files) /\ HEADERS \in Nat
    /\ \A i \in Inodes : Files[i].length \in Nat
<1>1. Files \in Seq([name : STRING, length : Nat]) /\ HEADERS \in Nat
  BY RamDiskAssumption
<1>2. Len(Files) \in Nat /\ Inodes = 1 .. Len(Files)
  BY <1>1, LenProperties DEF Inodes
<1>3. ASSUME NEW i \in Inodes PROVE Files[i].length \in Nat
  <2>1. Files[i] \in [name : STRING, length : Nat]
    BY <1>1, <1>2, ElementOfSeq
  <2> QED BY <2>1
<1> QED BY <1>1, <1>2, <1>3

LEMMA EndsValues ==
    /\ Ends \in [0 .. Len(Files) -> Nat] /\ Ends[0] = HEADERS
    /\ \A i \in Inodes : Ends[i] = Ends[i - 1] + Files[i].length
<1> DEFINE n == Len(Files)
           G == [i \in 1 .. n |-> [x \in Nat |-> x + Files[i].length]]
           Is(f) == f = [i \in 0 .. n |-> IF i = 0 THEN HEADERS ELSE f[i - 1] + Files[i].length]
<1>1. n \in Nat /\ Inodes = 1 .. n /\ HEADERS \in Nat /\ \A i \in 1 .. n : Files[i].length \in Nat
  BY FilesTyped
<1>2. G \in [1 .. n -> [Nat -> Nat]]
  BY <1>1
<1>0. PICK f \in [0 .. n -> Nat] : Follows(f, n, HEADERS, G)
  <2>1. HEADERS \in Nat /\ n \in Nat
    BY <1>1
  <2> HIDE DEF G, n
  <2> QED BY <2>1, <1>2, Recursion
<1>3. f[0] = HEADERS /\ \A i \in 1 .. n : f[i] = G[i][f[i - 1]]
  BY <1>0 DEF Follows
<1>4. \A i \in 1 .. n : f[i] = f[i - 1] + Files[i].length
  <2>1. \A i \in 1 .. n : i - 1 \in 0 .. n
    BY <1>1
  <2>2. \A i \in 1 .. n : f[i - 1] \in Nat
    BY <2>1, <1>0
  <2> QED BY <1>3, <2>2
<1>5. Is(f)
  <2>1. \A i \in 0 .. n : i # 0 => i \in 1 .. n
    BY <1>1
  <2>2. \A i \in 0 .. n : f[i] = IF i = 0 THEN HEADERS ELSE f[i - 1] + Files[i].length
    BY <1>3, <1>4, <2>1
  <2>3. f = [i \in 0 .. n |-> f[i]]
    BY <1>3
  <2> QED BY <2>2, <2>3
<1>6. Ends = CHOOSE g : Is(g)
  BY DEF Ends
<1>7. Is(Ends)
  <2> HIDE DEF Is
  <2> QED BY <1>5, <1>6
<1>8. /\ DOMAIN Ends = 0 .. n /\ Ends[0] = HEADERS
      /\ \A i \in 1 .. n : Ends[i] = Ends[i - 1] + Files[i].length
  <2>1. Ends = [i \in 0 .. n |-> IF i = 0 THEN HEADERS ELSE Ends[i - 1] + Files[i].length]
    BY <1>7
  <2>2. 0 \in 0 .. n /\ \A i \in 1 .. n : i \in 0 .. n /\ i # 0
    BY <1>1
  <2> QED BY <2>1, <2>2
<1>9. ASSUME NEW i \in 0 .. n PROVE Ends[i] \in Nat
  <2> DEFINE T == {k \in 0 .. n : Ends[k] \notin Nat}
  <2>1. ASSUME T # {} PROVE FALSE
    <3>1. T \subseteq Nat
      OBVIOUS
    <3>2. PICK m \in T : \A k \in T : m <= k
      <4> HIDE DEF T
      <4> QED BY <2>1, <3>1, LeastPosition
    <3>3. m \in 1 .. n /\ Ends[m] \notin Nat /\ m - 1 \in 0 .. n /\ ~(m <= m - 1)
      BY <1>1, <1>8
    <3>4. m - 1 \notin T
      <4> HIDE DEF T
      <4> QED BY <3>2, <3>3
    <3>5. Ends[m - 1] \in Nat
      BY <3>3, <3>4
    <3> QED BY <3>3, <3>5, <1>1, <1>8
  <2> QED BY <2>1
<1>10. Ends = [i \in 0 .. n |-> Ends[i]]
  BY <1>7
<1>11. Ends \in [0 .. n -> Nat]
  BY <1>9, <1>10
<1>12. \A i \in Inodes : Ends[i] = Ends[i - 1] + Files[i].length
  BY <1>1, <1>8
<1>13. Ends[0] = HEADERS
  BY <1>8
<1> QED BY <1>11, <1>12, <1>13

LEMMA ContentsTyped ==
    ASSUME NEW i \in Inodes
    PROVE  /\ Contents(i) \in Seq(FileWords) /\ Len(Contents(i)) = Files[i].length
           /\ \A k \in 1 .. Files[i].length : Contents(i)[k] = Word(i, k - 1)
<1> DEFINE l == Files[i].length
<1>1. l \in Nat
  BY FilesTyped
<1>2. \A k \in 1 .. l : k - 1 \in 0 .. l - 1
  BY <1>1
<1>3. \A k \in 1 .. l : Word(i, k - 1) \in FileWords
  BY <1>2 DEF FileWords
<1>4. Contents(i) = [k \in 1 .. l |-> Word(i, k - 1)]
  BY DEF Contents
<1>5. Contents(i) \in [1 .. l -> FileWords]
  BY <1>3, <1>4
<1> HIDE DEF l
<1>6. Contents(i) \in Seq(FileWords) /\ Len(Contents(i)) = l
  BY <1>1, <1>5, SeqDef
<1> QED BY <1>4, <1>6 DEF l

\* Each file written makes the image longer by its length.
LEMMA WrittenValues ==
    /\ \A i \in 0 .. Len(Files) : Written[i] \in Seq(FileWords) /\ Len(Written[i]) = Ends[i]
    /\ \A i \in Inodes : Written[i] = Written[i - 1] \o Contents(i)
<1> DEFINE n == Len(Files)
           S == Seq(FileWords)
           base == [a \in 1 .. HEADERS |-> Other]
           G == [i \in 1 .. n |-> [x \in S |-> x \o Contents(i)]]
           Is(f) == f = [i \in 0 .. n |-> IF i = 0 THEN base ELSE f[i - 1] \o Contents(i)]
<1>1. n \in Nat /\ Inodes = 1 .. n /\ HEADERS \in Nat
  BY FilesTyped
<1>2. \A i \in 1 .. n : Contents(i) \in S /\ Len(Contents(i)) = Files[i].length
  BY <1>1, ContentsTyped
<1>3. base \in S /\ Len(base) = HEADERS
  <2>1. Other \in FileWords
    BY DEF FileWords
  <2>2. base \in [1 .. HEADERS -> FileWords]
    BY <2>1
  <2> HIDE DEF base
  <2> QED BY <2>2, <1>1, SeqDef
<1>4. \A i \in 1 .. n, x \in S : x \o Contents(i) \in S /\ Len(x \o Contents(i)) = Len(x) + Files[i].length
  <2>1. \A x, y \in S : x \o y \in S /\ Len(x \o y) = Len(x) + Len(y)
    OBVIOUS
  <2> HIDE DEF S, n
  <2> QED BY <2>1, <1>2
<1>5. G \in [1 .. n -> [S -> S]]
  BY <1>4
<1>6. PICK f \in [0 .. n -> S] : Follows(f, n, base, G)
  <2> HIDE DEF G, n, base, S
  <2> QED BY <1>1, <1>3, <1>5, Recursion
<1>7. \A i \in 1 .. n : f[i] = f[i - 1] \o Contents(i)
  <2>1. \A i \in 1 .. n : i - 1 \in 0 .. n
    BY <1>1
  <2>2. \A i \in 1 .. n : f[i - 1] \in S
    BY <2>1, <1>6
  <2>3. \A i \in 1 .. n : f[i] = G[i][f[i - 1]]
    BY <1>6 DEF Follows
  <2> QED BY <2>2, <2>3
<1>8. Is(f)
  <2>1. \A i \in 0 .. n : i # 0 => i \in 1 .. n
    BY <1>1
  <2>2. f[0] = base
    BY <1>6 DEF Follows
  <2> HIDE DEF base, S
  <2>3. \A i \in 0 .. n : f[i] = IF i = 0 THEN base ELSE f[i - 1] \o Contents(i)
    BY <2>2, <1>7, <2>1
  <2>4. f = [i \in 0 .. n |-> f[i]]
    BY <1>6
  <2> QED BY <2>3, <2>4
<1>9. Written = CHOOSE g : Is(g)
  BY DEF Written
<1>10. Is(Written)
  <2> HIDE DEF Is
  <2> QED BY <1>8, <1>9
<1>11. Written[0] = base /\ \A i \in 1 .. n : Written[i] = Written[i - 1] \o Contents(i)
  <2> HIDE DEF base
  <2>1. Written = [i \in 0 .. n |-> IF i = 0 THEN base ELSE Written[i - 1] \o Contents(i)]
    BY <1>10
  <2>2. 0 \in 0 .. n /\ \A i \in 1 .. n : i \in 0 .. n /\ i # 0
    BY <1>1
  <2> QED BY <2>1, <2>2
<1>12. ASSUME NEW i \in 0 .. n PROVE Written[i] \in S /\ Len(Written[i]) = Ends[i]
  <2> HIDE DEF base, S
  <2> DEFINE T == {k \in 0 .. n : ~(Written[k] \in S /\ Len(Written[k]) = Ends[k])}
  <2>1. ASSUME T # {} PROVE FALSE
    <3>1. T \subseteq Nat
      OBVIOUS
    <3>2. PICK m \in T : \A k \in T : m <= k
      <4> HIDE DEF T
      <4> QED BY <2>1, <3>1, LeastPosition
    <3>3. m \in 1 .. n /\ ~(Written[m] \in S /\ Len(Written[m]) = Ends[m])
      <4>1. Written[0] \in S /\ Len(Written[0]) = Ends[0]
        BY <1>3, <1>11, EndsValues
      <4> QED BY <1>1, <4>1
    <3>4. m - 1 \in 0 .. n /\ ~(m <= m - 1)
      BY <3>3, <1>1
    <3>5. m - 1 \notin T
      <4> HIDE DEF T
      <4> QED BY <3>2, <3>4
    <3>6. Written[m - 1] \in S /\ Len(Written[m - 1]) = Ends[m - 1]
      BY <3>4, <3>5
    <3>7. Written[m] = Written[m - 1] \o Contents(m)
      BY <3>3, <1>11
    <3>8. Written[m - 1] \o Contents(m) \in S
          /\ Len(Written[m - 1] \o Contents(m)) = Len(Written[m - 1]) + Files[m].length
      BY <3>3, <3>6, <1>4
    <3>9. Ends[m] = Ends[m - 1] + Files[m].length
      BY <3>3, <1>1, EndsValues
    <3> QED BY <3>3, <3>6, <3>7, <3>8, <3>9
  <2> QED BY <2>1
<1> QED BY <1>1, <1>11, <1>12

\* Every word of a file is where the header of the file says (rdgen, rd_init).
LEMMA ImageWords ==
    /\ Image \in Seq(FileWords) /\ Len(Image) \in Nat
    /\ \A i \in Inodes :
         /\ Offset(i) \in Nat /\ Offset(i) + Files[i].length <= Len(Image)
         /\ \A w \in 0 .. Files[i].length - 1 : Image[Offset(i) + w + 1] = Word(i, w)
<1> DEFINE n == Len(Files)
<1>1. n \in Nat /\ Inodes = 1 .. n /\ \A i \in Inodes : Files[i].length \in Nat
  BY FilesTyped
<1>2. \A i \in 0 .. n : Written[i] \in Seq(FileWords) /\ Len(Written[i]) = Ends[i] /\ Ends[i] \in Nat
  BY WrittenValues, EndsValues
<1>3. n \in 0 .. n /\ Image = Written[n]
  BY <1>1 DEF Image
<1>4. Image \in Seq(FileWords) /\ Len(Image) \in Nat
  BY <1>2, <1>3
<1>5. ASSUME NEW i \in Inodes
      PROVE  /\ Offset(i) \in Nat /\ Offset(i) + Files[i].length <= Len(Image)
             /\ \A w \in 0 .. Files[i].length - 1 : Image[Offset(i) + w + 1] = Word(i, w)
  <2> DEFINE o == Ends[i - 1]
             l == Files[i].length
             Good(k) == /\ o + l <= Ends[k]
                        /\ \A w \in 0 .. l - 1 : Written[k][o + w + 1] = Word(i, w)
             T == {k \in i .. n : ~Good(k)}
  <2>1. i \in 1 .. n /\ i - 1 \in 0 .. n /\ l \in Nat
    BY <1>1
  <2>2. o \in Nat /\ Ends[i] = o + l /\ Written[i] = Written[i - 1] \o Contents(i)
        /\ Written[i - 1] \in Seq(FileWords) /\ Len(Written[i - 1]) = o
    BY <2>1, <1>1, <1>2, EndsValues, WrittenValues
  <2>8. o \in Nat /\ l \in Nat /\ o + l <= Ends[i]
    <3> HIDE DEF o, l
    <3> QED BY <2>1, <2>2
  <2>3. Good(i)
    <3>1. Contents(i) \in Seq(FileWords) /\ Len(Contents(i)) = l
          /\ \A k \in 1 .. l : Contents(i)[k] = Word(i, k - 1)
      BY ContentsTyped
    <3>2. ASSUME NEW w \in 0 .. l - 1 PROVE Written[i][o + w + 1] = Word(i, w)
      <4>1. w + 1 \in 1 .. l /\ (w + 1) - 1 = w /\ o + w + 1 \in o + 1 .. o + l /\ (o + w + 1) - o = w + 1
        <5>1. o \in Nat /\ l \in Nat
          BY <2>8
        <5> HIDE DEF o, l
        <5> QED BY <5>1
      <4> DEFINE s == Written[i - 1]
                 t == Contents(i)
                 x == o + w + 1
      <4>2. s \in Seq(FileWords) /\ t \in Seq(FileWords) /\ Len(s) = o /\ Len(t) = l /\ x \in o + 1 .. o + l
        BY <2>2, <3>1, <4>1
      <4> HIDE DEF s, t, x, o, l
      <4>3. (s \o t)[x] = t[x - o]
        <5>1. o \in Nat /\ l \in Nat
          BY <2>8
        <5> QED BY <5>1, <4>2, ConcatProperties
      <4>4. t[w + 1] = Word(i, w)
        BY <3>1, <4>1 DEF t
      <4> QED BY <4>1, <4>3, <4>4, <2>2 DEF s, t, x
    <3> HIDE DEF o, l
    <3> QED BY <2>8, <3>2
  <2>4. ASSUME T # {} PROVE FALSE
    <3>1. T \subseteq Nat
      BY <2>1
    <3>2. PICK m \in T : \A k \in T : m <= k
      <4> HIDE DEF T
      <4> QED BY <2>4, <3>1, LeastPosition
    <3>3. m \in i .. n /\ ~Good(m)
      OBVIOUS
    <3>4. m # i
      <4> HIDE DEF Good
      <4> QED BY <3>3, <2>3
    <3>5. m - 1 \in i .. n /\ m \in 1 .. n /\ m - 1 \in 0 .. n /\ ~(m <= m - 1)
      BY <3>3, <3>4, <2>1
    <3>6. m - 1 \notin T
      <4> HIDE DEF T
      <4> QED BY <3>2, <3>5
    <3>7. Good(m - 1)
      <4> HIDE DEF Good
      <4> QED BY <3>5, <3>6
    <3>8. /\ Ends[m] = Ends[m - 1] + Files[m].length /\ Files[m].length \in Nat /\ Ends[m - 1] \in Nat
          /\ Written[m] = Written[m - 1] \o Contents(m)
          /\ Written[m - 1] \in Seq(FileWords) /\ Len(Written[m - 1]) = Ends[m - 1]
      BY <3>5, <1>1, <1>2, EndsValues, WrittenValues
    <3>9. Contents(m) \in Seq(FileWords)
      BY <3>5, <1>1, ContentsTyped
    <3> HIDE DEF o, l
    <3>10. ASSUME NEW w \in 0 .. l - 1 PROVE Written[m][o + w + 1] = Word(i, w)
      <4>1. Written[m - 1][o + w + 1] = Word(i, w) /\ o + l <= Ends[m - 1]
        BY <3>7
      <4> DEFINE s == Written[m - 1]
                 t == Contents(m)
                 x == o + w + 1
      <4>2. s \in Seq(FileWords) /\ t \in Seq(FileWords) /\ x \in 1 .. Len(s)
        BY <3>8, <3>9, <4>1, <2>1, <2>2
      <4> HIDE DEF s, t, x
      <4>3. (s \o t)[x] = s[x]
        BY <4>2
      <4> QED BY <4>1, <4>3, <3>8 DEF s, t, x
    <3>11. o + l <= Ends[m]
      <4> DEFINE e == Ends[m]
                 d == Ends[m - 1]
                 t == Files[m].length
      <4>1. e = d + t /\ t \in Nat /\ d \in Nat /\ o + l <= d /\ o \in Nat /\ l \in Nat
        BY <3>7, <3>8, <2>8
      <4> HIDE DEF e, d, t
      <4>2. o + l <= e
        BY <4>1
      <4> QED BY <4>2 DEF e
    <3> QED BY <3>3, <3>10, <3>11
  <2>5. n \in i .. n
    BY <2>1, <1>1
  <2>6. Good(n)
    <3> HIDE DEF Good
    <3> QED BY <2>4, <2>5
  <2> HIDE DEF o, l
  <2>7. Offset(i) = o
    BY DEF Offset, o
  <2> QED BY <2>2, <2>6, <2>7, <1>2, <1>3 DEF l
<1> QED BY <1>4, <1>5

(***************************************************************************)
(* Frames                                                                  *)
(***************************************************************************)
LEMMA Lowest ==
    ASSUME NEW T, T \subseteq Nat, T # {}
    PROVE  Min(T) \in T /\ \A y \in T : Min(T) <= y
  BY LeastPosition DEF Min

LEMMA FramesFinite ==
    ASSUME NEW T, T \subseteq Frames
    PROVE  IsFiniteSet(T) /\ Cardinality(T) \in Nat /\ T \subseteq Nat
<1>1. FRAMES \in Nat
  BY LoaderAssumption
<1>2. FRAMES - 1 \in Int /\ 0 \in Int
  BY <1>1
<1>3. IsFiniteSet(Frames) /\ Frames \subseteq Nat
  BY <1>1, <1>2, FS_Interval DEF Frames
<1>4. IsFiniteSet(T)
  BY <1>3, FS_Subset
<1> QED BY <1>3, <1>4, FS_CardinalityType

\* For each k below n there is a frame with k free ones below it, if at least n
\* are free.
LEMMA FrameAt ==
    ASSUME NEW T, T \subseteq Frames, NEW n \in Nat, Cardinality(T) >= n, NEW k \in 0 .. n - 1
    PROVE  \E f \in T : Cardinality({g \in T : g < f}) = k
<1> DEFINE B(f) == {g \in T : g < f}
           Bad == {j \in 0 .. n - 1 : ~ \E f \in T : Cardinality(B(f)) = j}
<1>1. IsFiniteSet(T) /\ Cardinality(T) \in Nat /\ T \subseteq Nat
  BY FramesFinite
<1>2. ASSUME NEW f \in T PROVE B(f) \subseteq T /\ IsFiniteSet(B(f))
  BY <1>1, FS_Subset
<1>3. ASSUME Bad # {} PROVE FALSE
  <2>1. Bad \subseteq Nat
    OBVIOUS
  <2>2. PICK m \in Bad : \A j \in Bad : m <= j
    <3> HIDE DEF Bad
    <3> QED BY <1>3, <2>1, LeastPosition
  <2>3. m \in 0 .. n - 1 /\ ~ \E f \in T : Cardinality(B(f)) = m
    OBVIOUS
  <2>4. T # {}
    <3>1. Cardinality(T) # 0
      BY <2>3, <1>1
    <3> QED BY <3>1, FS_EmptySet
  <2>5. m # 0
    <3>1. PICK f \in T : \A g \in T : f <= g
      BY <1>1, <2>4, LeastPosition
    <3>4. \A g \in T : g \in Nat
      BY <1>1
    <3>5. \A g \in T : ~(g < f)
      BY <3>1, <3>4
    <3>2. B(f) = {}
      BY <3>5
    <3>3. Cardinality(B(f)) = 0
      BY <3>2, FS_EmptySet
    <3> HIDE DEF B
    <3> QED BY <3>3, <2>3
  <2>6. m - 1 \in 0 .. n - 1 /\ ~(m <= m - 1)
    BY <2>3, <2>5
  <2>7. m - 1 \notin Bad
    <3> HIDE DEF Bad
    <3> QED BY <2>2, <2>6
  <2>8. PICK f \in T : Cardinality(B(f)) = m - 1
    BY <2>6, <2>7
  <2> DEFINE U == T \ (B(f) \cup {f})
  <2>9. f \notin B(f) /\ f \in Nat
    BY <1>1
  <2>10. IsFiniteSet(B(f) \cup {f}) /\ Cardinality(B(f) \cup {f}) = m
    <3>1. IsFiniteSet(B(f))
      BY <1>2
    <3> HIDE DEF B
    <3>2. Cardinality(B(f) \cup {f}) = Cardinality(B(f)) + 1 /\ IsFiniteSet(B(f) \cup {f})
      BY <3>1, <2>9, FS_AddElement
    <3> QED BY <3>2, <2>3, <2>8
  <2>11. U # {}
    <3> DEFINE V == B(f) \cup {f}
    <3>1. Cardinality(V) = m /\ V \subseteq T
      BY <2>10
    <3>2. V # T
      <4> HIDE DEF V
      <4> QED BY <3>1, <2>3, <1>1
    <3> QED BY <3>1, <3>2
  <2>12. PICK h \in U : \A g \in U : h <= g
    <3>1. U \subseteq Nat
      BY <1>1
    <3> HIDE DEF U
    <3> QED BY <2>11, <3>1, LeastPosition
  <2>13. B(h) = B(f) \cup {f}
    <3>1. h \in Nat /\ ~(h < f) /\ h # f
      BY <1>1
    <3>2. \A g \in T : g \in Nat
      BY <1>1
    <3>3. ASSUME NEW g \in T, g < h PROVE g \in B(f) \cup {f}
      BY <3>1, <3>2, <3>3, <2>12
    <3>4. \A g \in B(f) \cup {f} : g \in T /\ g < h
      BY <3>1, <3>2, <2>9
    <3> QED BY <3>3, <3>4
  <2>14. Cardinality(B(h)) = m /\ h \in T
    BY <2>10, <2>13
  <2> HIDE DEF B
  <2> QED BY <2>3, <2>14
<1>4. k \notin Bad
  BY <1>3
<1> QED BY <1>4

\* vmm_alloc_page finds free frames, and another one each time.
LEMMA TakenFrames ==
    ASSUME NEW n \in Nat, Enough(n)
    PROVE  /\ Taken(n) \in [1 .. n -> Frames \ used]
           /\ \A j, k \in 1 .. n : Taken(n)[j] = Taken(n)[k] => j = k
<1> DEFINE T == Frames \ used
           B(f) == {g \in T : g < f}
<1>1. ASSUME NEW k \in 1 .. n PROVE Taken(n)[k] \in T /\ Cardinality(B(Taken(n)[k])) = k - 1
  <2>1. T \subseteq Frames /\ Cardinality(T) >= n /\ k - 1 \in 0 .. n - 1
    BY DEF Enough
  <2>2. \E f \in T : Cardinality(B(f)) = k - 1
    <3> DEFINE j == k - 1
    <3>1. j \in 0 .. n - 1
      BY <2>1
    <3> HIDE DEF T, j
    <3>2. \E f \in T : Cardinality({g \in T : g < f}) = j
      BY <2>1, <3>1, FrameAt
    <3> QED BY <3>2 DEF j
  <2>3. Taken(n)[k] = CHOOSE f \in T : Cardinality(B(f)) = k - 1
    BY DEF Taken
  <2> HIDE DEF T, B
  <2> QED BY <2>2, <2>3
<1>2. ASSUME NEW j \in 1 .. n, NEW k \in 1 .. n, Taken(n)[j] = Taken(n)[k] PROVE j = k
  <2>1. j - 1 = k - 1
    <3> HIDE DEF B, T
    <3> QED BY <1>1, <1>2
  <2> QED BY <2>1
<1>3. Taken(n) = [k \in 1 .. n |-> Taken(n)[k]]
  BY DEF Taken
<1>4. \A k \in 1 .. n : Taken(n)[k] \in T
  BY <1>1
<1>5. Taken(n) \in [1 .. n -> Frames \ used]
  BY <1>3, <1>4
<1> QED BY <1>2, <1>5

(***************************************************************************)
(* The invariant                                                           *)
(***************************************************************************)
Early == step \in {"console_init", "pmm_init", "kernel_dir", "identity", "heap_frames"}
Starting == Early \/ step = "create_heap"
Making == step \in {"image", "proc", "dir", "table", "map"}

BootTypes ==
    /\ step \in Steps /\ placement_address \in Nat /\ halted \in BOOLEAN
    /\ identity \in Seq(Frames) /\ index_pages \in Seq(Frames)

\* How far the placement allocator is, and that the frames are taken in order
\* until there are no more to take: the loop of vmm_init ends after so many
\* pages that the rest of the boot finds its frames.
BootSound ==
    /\ step = "pmm_init" => placement_address = RdEnd
    /\ step = "kernel_dir" => placement_address = RdEnd + 1
    /\ step \in {"console_init", "pmm_init", "kernel_dir"} => identity = <<>>
    /\ step = "identity" =>
         /\ RdEnd <= placement_address
         /\ placement_address <= RdEnd + (HEAP_TABLES + 6) * PAGE
         /\ identity = <<>> => placement_address <= RdEnd + (HEAP_TABLES + 4) * PAGE
    /\ step = "heap_frames" => placement_address + PAGE <= Len(identity) * PAGE
    /\ step = "create_heap" => placement_address + 1 <= Len(identity) * PAGE
    /\ Early => used = 0 .. Len(identity) - 1 /\ index_pages = <<>>
    /\ Len(identity) * PAGE <= RdEnd + (HEAP_TABLES + 8) * PAGE
    /\ step \in {"heap_frames", "create_heap", "user"} \/ Making => RdEnd <= Len(identity) * PAGE

HeapTypes ==
    /\ used \subseteq Frames /\ heap \in [HeapPages -> Frames \cup {None}]
    /\ writeable \subseteq HeapPages /\ end_page \in 0 .. MAX_PAGES /\ aligned \in BOOLEAN
    /\ block \in [HeapPages -> {Hole} \cup Procs \X {"image", "proc", "dir", "table"}]

\* Every page below the end of the heap has a frame, and every block lies there.
HeapSound ==
    /\ Early => \A v \in HeapPages : heap[v] = None
    /\ Starting => end_page = 0
    /\ step = "create_heap" => \A v \in 0 .. INITIAL_PAGES - 1 : heap[v] # None
    /\ ~Starting => end_page >= HEAP_MIN_PAGES
    /\ \A v \in 0 .. end_page - 1 : heap[v] # None
    /\ \A v \in HeapPages : block[v] # Hole => v < end_page

ProcTypes ==
    /\ file \in Seq(Inodes \cup {Dev}) /\ image \in Seq(HeapPages) /\ user \in Seq(Seq(Frames))
    /\ live \subseteq Procs

\* Who has an image and pages of its own, and who can own a block.
ProcSound ==
    /\ Starting => file = <<>>
    /\ Len(file) = IF Making THEN Len(user) + 1 ELSE Len(user)
    /\ Len(image) = IF step = "image" THEN Len(user) ELSE Len(file)
    /\ Len(file) <= MAX_PROCS /\ live \subseteq 1 .. Len(user)
    /\ Making /\ step # "image" => image[Len(file)] < end_page
    /\ \A v \in HeapPages : block[v] # Hole => block[v][1] <= Len(file)
    /\ \A v \in HeapPages, p \in Procs : block[v] = <<p, "image">> => p <= Len(image)

\* The ram disk is what the boot loader made it; an image that is intact has
\* the words of its file, and the program runs in that memory.
Loaded(p) ==
    Intact(p) =>
        \A w \in 0 .. NodeLength(file[p]) - 1 :
            mem[heap[image[p]] * PAGE + w] = Word(file[p], w)
DataSound ==
    /\ mem \in [0 .. FRAMES * PAGE - 1 -> FileWords]
    /\ \A a \in LOCATION .. RdEnd - 1 : mem[a] = Image[a - LOCATION + 1]
    /\ \A p \in 1 .. Len(image) : Loaded(p)
    /\ \A p \in 1 .. Len(user) :
         Intact(p) /\ NodeLength(file[p]) # 0 => user[p] = UserFrames(heap[image[p]])

BootInv == BootTypes /\ BootSound /\ IdentityMapped
HeapInv == HeapTypes /\ HeapSound /\ FrameOwner
ProcInv == ProcTypes /\ ProcSound
LoaderInv == BootInv /\ HeapInv /\ ProcInv /\ DataSound

\* The constants of the memory.
LEMMA Sizes ==
    /\ PAGE \in Nat \ {0} /\ FRAMES \in Nat /\ INDEX_PAGES \in Nat /\ HEAP_TABLES \in Nat
    /\ MAX_PAGES \in Nat /\ USER_PAGES \in Nat /\ MAX_PROCS \in Nat
    /\ KERNEL_END \in Nat /\ QUEUES \in Nat /\ LOCATION \in Nat
    /\ KERNEL_END + QUEUES <= LOCATION
    /\ HEAP_MIN_PAGES \in Nat \ {0} /\ INITIAL_PAGES \in Nat \ {0}
    /\ HEAP_MIN_PAGES <= INITIAL_PAGES /\ INITIAL_PAGES <= MAX_PAGES
    /\ RdEnd \in Nat /\ LOCATION <= RdEnd
<1>1. LOCATION \in Nat /\ Len(Image) \in Nat
  BY LoaderAssumption, ImageWords
<1>2. RdEnd \in Nat /\ LOCATION <= RdEnd
  BY <1>1 DEF RdEnd
<1> QED BY <1>2, LoaderAssumption

(***************************************************************************)
(* Boot                                                                    *)
(***************************************************************************)
\* Before the first program the other parts say nothing.
NoProgram == file = <<>> /\ image = <<>> /\ user = <<>> /\ live = {}
LEMMA StartingFacts ==
    ASSUME LoaderInv, Starting
    PROVE  NoProgram /\ end_page = 0 /\ \A v \in HeapPages : block[v] = Hole
<1>1. file = <<>> /\ Len(file) = Len(user) /\ Len(image) = Len(file) /\ live \subseteq 1 .. Len(user)
      /\ image \in Seq(HeapPages) /\ user \in Seq(Seq(Frames))
  BY DEF LoaderInv, ProcInv, ProcTypes, ProcSound, Starting, Early, Making
<1>2. image = <<>> /\ user = <<>> /\ live = {}
  BY <1>1
<1>3. end_page = 0 /\ MAX_PAGES \in Nat
  BY Sizes DEF LoaderInv, HeapInv, HeapSound
<1>4. \A v \in HeapPages : ~(v < 0)
  BY <1>3 DEF HeapPages
<1>5. \A v \in HeapPages : block[v] = Hole
  BY <1>3, <1>4 DEF LoaderInv, HeapInv, HeapSound
<1> QED BY <1>1, <1>2, <1>3, <1>5 DEF NoProgram

LEMMA NoProgramKept ==
    ASSUME LoaderInv, Starting, UNCHANGED <<block, procVars>>, step' \in Steps, ~Making'
    PROVE  ProcInv'
<1>1. NoProgram /\ \A v \in HeapPages : block[v] = Hole
  BY StartingFacts
<1>2. /\ file' = <<>> /\ image' = <<>> /\ user' = <<>> /\ live' = {}
      /\ \A v \in HeapPages : block'[v] = Hole
  BY <1>1 DEF NoProgram, procVars
<1>3. ProcTypes'
  BY <1>2 DEF ProcTypes
<1>4. \A p \in Procs : Hole # <<p, "image">>
  BY DEF Hole
<1>5. Len(<<>>) = 0 /\ MAX_PROCS \in Nat /\ step' # "image"
  BY Sizes DEF Making
<1>7. (\A v \in HeapPages : block[v] # Hole => block[v][1] <= Len(file))'
  BY <1>2
<1>8. (\A v \in HeapPages, p \in Procs : block[v] = <<p, "image">> => p <= Len(image))'
  BY <1>2, <1>4
<1>9. Len(file') = 0 /\ Len(image') = 0 /\ Len(user') = 0
  BY <1>2, <1>5
<1>6. ProcSound'
  BY <1>2, <1>5, <1>7, <1>8, <1>9 DEF ProcSound
<1> QED BY <1>3, <1>6 DEF ProcInv

LEMMA Multiples ==
    ASSUME NEW P \in Nat \ {0}, NEW a \in Int, NEW b \in Int
    PROVE  /\ a * P \in Int /\ b * P \in Int
           /\ a < b <=> a * P < b * P
           /\ a <= b <=> a * P <= b * P
           /\ (a + b) * P = a * P + b * P
<1>1. a < b => a * P < b * P
  OBVIOUS
<1>2. b < a => b * P < a * P
  OBVIOUS
<1> QED BY <1>1, <1>2

\* The memory, in words of whole pages.
LEMMA Room ==
    /\ HEAP_TABLES * PAGE \in Nat /\ (INDEX_PAGES + INITIAL_PAGES) * PAGE \in Nat /\ FRAMES * PAGE \in Nat
    /\ (HEAP_TABLES + 4) * PAGE = HEAP_TABLES * PAGE + 4 * PAGE
    /\ (HEAP_TABLES + 6) * PAGE = HEAP_TABLES * PAGE + 6 * PAGE
    /\ (HEAP_TABLES + 8) * PAGE = HEAP_TABLES * PAGE + 8 * PAGE
    /\ RdEnd + HEAP_TABLES * PAGE + 8 * PAGE + (INDEX_PAGES + INITIAL_PAGES) * PAGE <= FRAMES * PAGE
<1>1. /\ PAGE \in Nat \ {0} /\ HEAP_TABLES \in Nat /\ INDEX_PAGES + INITIAL_PAGES \in Nat
      /\ RdEnd \in Nat /\ FRAMES \in Nat
  BY Sizes
<1> DEFINE m == INDEX_PAGES + INITIAL_PAGES
<1>2. /\ HEAP_TABLES * PAGE \in Nat /\ m * PAGE \in Nat /\ FRAMES * PAGE \in Nat
  BY <1>1
<1>3. /\ (HEAP_TABLES + 4) * PAGE = HEAP_TABLES * PAGE + 4 * PAGE
      /\ (HEAP_TABLES + 6) * PAGE = HEAP_TABLES * PAGE + 6 * PAGE
      /\ (HEAP_TABLES + 8) * PAGE = HEAP_TABLES * PAGE + 8 * PAGE
  BY <1>1
<1>4. (HEAP_TABLES + 8 + m) * PAGE = (HEAP_TABLES + 8) * PAGE + m * PAGE
  <2> HIDE DEF m
  <2> QED BY <1>1, Multiples DEF m
<1>5. RdEnd + (HEAP_TABLES + 8 + m) * PAGE <= FRAMES * PAGE
  <2>1. HEAP_TABLES + 8 + INDEX_PAGES + INITIAL_PAGES = HEAP_TABLES + 8 + m
    BY Sizes
  <2>2. RdEnd + (HEAP_TABLES + 8 + INDEX_PAGES + INITIAL_PAGES) * PAGE <= FRAMES * PAGE
    BY MemoryAssumption
  <2> HIDE DEF m
  <2> QED BY <2>1, <2>2
<1> DEFINE A == HEAP_TABLES * PAGE
           M == m * PAGE
           F == FRAMES * PAGE
           E == (HEAP_TABLES + 8) * PAGE
           S == (HEAP_TABLES + 8 + m) * PAGE
<1>6. A \in Nat /\ M \in Nat /\ F \in Nat /\ E = A + 8 * PAGE /\ S = E + M /\ RdEnd + S <= F
  BY <1>2, <1>3, <1>4, <1>5
<1>7. RdEnd + A + 8 * PAGE + M <= F
  <2> HIDE DEF A, M, F, E, S
  <2> QED BY <1>1, <1>6
<1> QED BY <1>2, <1>3, <1>7

LEMMA AlignedUp ==
    ASSUME NEW a \in Nat
    PROVE  Aligned(a) \in Nat /\ a <= Aligned(a) /\ Aligned(a) <= a + PAGE - 1
<1>1. PAGE \in Nat \ {0} /\ a + PAGE - 1 \in Int
  BY Sizes
<1> DEFINE n == a + PAGE - 1
           q == n \div PAGE
           r == n % PAGE
           t == q * PAGE
<1>2. q \in Int /\ r \in 0 .. PAGE - 1 /\ n = t + r /\ n \in Int
  <2> HIDE DEF n
  <2> QED BY <1>1, DivMod DEF n
<1>3. t \in Int
  <2> HIDE DEF q
  <2> QED BY <1>1, <1>2
<1>4. Aligned(a) = t
  BY DEF Aligned
<1>5. n = a + PAGE - 1
  OBVIOUS
<1> HIDE DEF n, q, r, t
<1> QED BY <1>1, <1>2, <1>3, <1>4, <1>5

LEMMA StartingData ==
    ASSUME LoaderInv, Starting, UNCHANGED procVars,
           mem' \in [0 .. FRAMES * PAGE - 1 -> FileWords],
           \A a \in LOCATION .. RdEnd - 1 : mem'[a] = mem[a]
    PROVE  DataSound'
<1>1. NoProgram
  BY StartingFacts
<1>2. image' = <<>> /\ user' = <<>>
  BY <1>1 DEF NoProgram, procVars
<1>3. (\A p \in 1 .. Len(image) : Loaded(p))'
  BY <1>2
<1>4. (\A p \in 1 .. Len(user) :
         Intact(p) /\ NodeLength(file[p]) # 0 => user[p] = UserFrames(heap[image[p]]))'
  BY <1>2
<1>5. \A a \in LOCATION .. RdEnd - 1 : mem'[a] = Image[a - LOCATION + 1]
  BY DEF LoaderInv, DataSound
<1> QED BY <1>3, <1>4, <1>5 DEF DataSound

LEMMA EarlyHeap ==
    ASSUME LoaderInv, Early, Early', UNCHANGED <<heap, writeable, end_page, aligned, block>>,
           used' \subseteq Frames, ToSet(identity') \cup ToSet(index_pages') \subseteq used'
    PROVE  HeapInv'
<1>1. /\ HeapTypes /\ \A v \in HeapPages : heap[v] = None
      /\ end_page = 0 /\ \A v \in HeapPages : block[v] = Hole
  BY StartingFacts DEF LoaderInv, HeapInv, HeapSound, Starting
<1>2. HeapTypes'
  BY <1>1 DEF HeapTypes
<1>3. \A f \in Frames : f # None
  BY Sizes DEF Frames, None
<1>4. FrameOwner'
  BY <1>1, <1>3 DEF FrameOwner
<1>5. step' # "create_heap" /\ Starting'
  BY DEF Early, Starting
<1>6. \A v \in 0 .. 0 - 1 : FALSE
  OBVIOUS
<1>7. HeapSound'
  BY <1>1, <1>5, <1>6 DEF HeapSound
<1> QED BY <1>2, <1>4, <1>7 DEF HeapInv

LEMMA ConsoleInitKeeps == ASSUME LoaderInv, ConsoleInit PROVE LoaderInv'
<1>1. /\ step = "console_init" /\ step' = "pmm_init" /\ placement_address' = RdEnd
      /\ UNCHANGED <<identity, index_pages, heapVars, block, procVars, halted>>
      /\ mem' = [a \in DOMAIN mem |->
                   IF a \in KERNEL_END .. KERNEL_END + QUEUES - 1 THEN Other ELSE mem[a]]
  BY DEF ConsoleInit, At
<1>2. Early /\ Starting /\ Early' /\ ~Making' /\ step' \in Steps
  BY <1>1 DEF Early, Starting, Making, Steps
<1>3. UNCHANGED <<used, heap, writeable, end_page, aligned, block>>
  BY <1>1 DEF heapVars
<1>4. BootTypes /\ BootSound /\ IdentityMapped /\ FrameOwner /\ used \subseteq Frames
  BY DEF LoaderInv, BootInv, HeapInv, HeapTypes
<1>5. BootInv'
  <2>1. BootTypes'
    BY <1>1, <1>2, <1>4, Sizes DEF BootTypes
  <2>2. BootSound'
    BY <1>1, <1>2, <1>3, <1>4 DEF BootSound, Making, Early
  <2>3. IdentityMapped'
    BY <1>1, <1>4 DEF IdentityMapped, Booted
  <2> QED BY <2>1, <2>2, <2>3 DEF BootInv
<1>6. HeapInv'
  <2>1. ToSet(identity') \cup ToSet(index_pages') \subseteq used'
    <3>1. ToSet(identity) \cup ToSet(index_pages) \subseteq used \cup {None}
      BY <1>4 DEF FrameOwner
    <3>2. identity = <<>> /\ index_pages = <<>>
      BY <1>1, <1>2, <1>4 DEF BootSound
    <3> QED BY <3>2, <1>1 DEF ToSet
  <2> QED BY <2>1, <1>2, <1>3, <1>4, EarlyHeap
<1>7. ProcInv'
  BY <1>1, <1>2, NoProgramKept
<1>8. DataSound'
  <2>1. mem \in [0 .. FRAMES * PAGE - 1 -> FileWords] /\ Other \in FileWords
    BY DEF LoaderInv, DataSound, FileWords
  <2>2. mem' \in [0 .. FRAMES * PAGE - 1 -> FileWords]
    BY <2>1, <1>1
  <2>3. ASSUME NEW a \in LOCATION .. RdEnd - 1 PROVE mem'[a] = mem[a]
    <3>1. a \in 0 .. FRAMES * PAGE - 1 /\ a \notin KERNEL_END .. KERNEL_END + QUEUES - 1
      <4> DEFINE F == FRAMES * PAGE
                 A == HEAP_TABLES * PAGE
                 M == (INDEX_PAGES + INITIAL_PAGES) * PAGE
      <4>1. F \in Nat /\ A \in Nat /\ M \in Nat /\ RdEnd + A + 8 * PAGE + M <= F
        BY Room
      <4>2. LOCATION \in Nat /\ RdEnd \in Nat /\ KERNEL_END \in Nat /\ QUEUES \in Nat /\ PAGE \in Nat
            /\ KERNEL_END + QUEUES <= LOCATION
        BY Sizes
      <4> HIDE DEF F, A, M
      <4>3. a \in 0 .. F - 1 /\ a \notin KERNEL_END .. KERNEL_END + QUEUES - 1
        BY <4>1, <4>2
      <4> QED BY <4>3 DEF F
    <3> QED BY <3>1, <2>1, <1>1
  <2> QED BY <2>2, <2>3, <1>1, <1>2, StartingData
<1> QED BY <1>5, <1>6, <1>7, <1>8 DEF LoaderInv

\* A step of the boot that only hands out memory of the kernel.
LEMMA EarlyStep ==
    ASSUME LoaderInv, Early, Early', step' \in Steps,
           UNCHANGED <<index_pages, heap, writeable, end_page, aligned, block, mem, procVars>>,
           used' \subseteq Frames, ToSet(identity') \subseteq used'
    PROVE  HeapInv' /\ ProcInv' /\ DataSound'
<1>1. Starting /\ ~Making'
  BY DEF Starting, Making, Early
<1>2. ToSet(identity') \cup ToSet(index_pages') \subseteq used'
  <2>1. index_pages = <<>>
    BY DEF LoaderInv, BootInv, BootSound
  <2> QED BY <2>1 DEF ToSet
<1>3. HeapInv'
  BY <1>2, EarlyHeap
<1>4. ProcInv'
  BY <1>1, NoProgramKept
<1>5. mem' \in [0 .. FRAMES * PAGE - 1 -> FileWords] /\ \A a \in LOCATION .. RdEnd - 1 : mem'[a] = mem[a]
  BY DEF LoaderInv, DataSound
<1>6. DataSound'
  BY <1>1, <1>5, StartingData
<1> QED BY <1>3, <1>4, <1>6

LEMMA IdentityUsed ==
    ASSUME LoaderInv, Early
    PROVE  used \subseteq Frames /\ ToSet(identity) \subseteq used
<1>1. used \subseteq Frames /\ ToSet(identity) \subseteq used \cup {None} /\ identity \in Seq(Frames)
  BY DEF LoaderInv, HeapInv, HeapTypes, FrameOwner, BootInv, BootTypes
<1>2. \A v \in DOMAIN identity : identity[v] \in Frames
  BY <1>1
<1>3. None \notin Frames
  BY Sizes DEF None, Frames
<1> QED BY <1>1, <1>2, <1>3 DEF ToSet

LEMMA PmmInitKeeps == ASSUME LoaderInv, PmmInit PROVE LoaderInv'
<1>1. /\ step = "pmm_init" /\ step' = "kernel_dir" /\ placement_address' = placement_address + 1
      /\ UNCHANGED <<identity, index_pages, used, heap, writeable, end_page, aligned,
                     block, mem, procVars, halted>>
  BY DEF PmmInit, At, Place, heapVars
<1>2. Early /\ Early' /\ step' \in Steps
  BY <1>1 DEF Early, Steps
<1>3. BootTypes /\ BootSound /\ IdentityMapped
  BY DEF LoaderInv, BootInv
<1>4. placement_address = RdEnd /\ RdEnd \in Nat
  BY <1>1, <1>3, Sizes DEF BootSound
<1>5. BootTypes'
  BY <1>1, <1>2, <1>3, <1>4 DEF BootTypes
<1>6. BootSound'
  BY <1>1, <1>2, <1>3, <1>4 DEF BootSound, Early, Making
<1>7. IdentityMapped'
  BY <1>1, <1>3 DEF IdentityMapped, Booted
<1>8. HeapInv' /\ ProcInv' /\ DataSound'
  BY <1>1, <1>2, IdentityUsed, EarlyStep
<1> QED BY <1>5, <1>6, <1>7, <1>8 DEF LoaderInv, BootInv

LEMMA KernelDirectoryKeeps == ASSUME LoaderInv, KernelDirectory PROVE LoaderInv'
<1>1. /\ step = "kernel_dir" /\ step' = "identity"
      /\ placement_address' = Aligned(Aligned(placement_address) + DIR_PAGES * PAGE + 1) + HEAP_TABLES * PAGE
      /\ UNCHANGED <<identity, index_pages, used, heap, writeable, end_page, aligned,
                     block, mem, procVars, halted>>
  BY DEF KernelDirectory, At, heapVars
<1>2. Early /\ Early' /\ step' \in Steps
  BY <1>1 DEF Early, Steps
<1>3. BootTypes /\ BootSound /\ IdentityMapped
  BY DEF LoaderInv, BootInv
<1>4. placement_address = RdEnd + 1 /\ identity = <<>>
  BY <1>1, <1>3 DEF BootSound
<1> DEFINE A == HEAP_TABLES * PAGE
           b == Aligned(RdEnd + 1)
           c == Aligned(b + 2 * PAGE + 1)
<1>5. A \in Nat /\ PAGE \in Nat \ {0} /\ RdEnd \in Nat /\ (HEAP_TABLES + 4) * PAGE = A + 4 * PAGE
      /\ (HEAP_TABLES + 6) * PAGE = A + 6 * PAGE
  BY Room, Sizes
<1>6. b \in Nat /\ RdEnd + 1 <= b /\ b <= RdEnd + PAGE
  BY <1>5, AlignedUp
<1>7. c \in Nat /\ b + 2 * PAGE + 1 <= c /\ c <= b + 3 * PAGE
  <2> HIDE DEF b
  <2>1. b + 2 * PAGE + 1 \in Nat
    BY <1>5, <1>6
  <2>2. c \in Nat /\ b + 2 * PAGE + 1 <= c /\ c <= b + 2 * PAGE + 1 + PAGE - 1
    BY <2>1, AlignedUp
  <2> HIDE DEF c
  <2> QED BY <2>2, <1>5, <1>6
<1>8. placement_address' = c + A
  BY <1>1, <1>4 DEF DIR_PAGES
<1>9. placement_address' \in Nat /\ RdEnd <= placement_address'
      /\ placement_address' <= RdEnd + (A + 4 * PAGE) /\ placement_address' <= RdEnd + (A + 6 * PAGE)
  <2> HIDE DEF A, b, c
  <2> QED BY <1>5, <1>6, <1>7, <1>8
<1>10. BootTypes'
  BY <1>1, <1>2, <1>3, <1>9 DEF BootTypes
<1>11. BootSound'
  <2>1. /\ RdEnd <= placement_address'
        /\ placement_address' <= RdEnd + (HEAP_TABLES + 6) * PAGE
        /\ placement_address' <= RdEnd + (HEAP_TABLES + 4) * PAGE
    <3> HIDE DEF A
    <3> QED BY <1>5, <1>9
  <2> QED BY <2>1, <1>1, <1>2, <1>3 DEF BootSound, Early, Making
<1>12. IdentityMapped'
  BY <1>1, <1>3 DEF IdentityMapped, Booted
<1>13. HeapInv' /\ ProcInv' /\ DataSound'
  BY <1>1, <1>2, IdentityUsed, EarlyStep
<1> QED BY <1>10, <1>11, <1>12, <1>13 DEF LoaderInv, BootInv

\* Below the end of the memory the first free frame is the next one.
LEMMA NextFrame ==
    ASSUME NEW n \in Nat, n < FRAMES
    PROVE  FreeFrame(0 .. n - 1) = n /\ n \in Frames
<1>1. FRAMES \in Nat /\ Frames = 0 .. FRAMES - 1
  BY Sizes DEF Frames
<1>2. n \in Frames \ (0 .. n - 1) /\ Frames \ (0 .. n - 1) \subseteq Nat
  BY <1>1
<1>3. \A f \in Frames \ (0 .. n - 1) : n <= f
  BY <1>1
<1> DEFINE T == Frames \ (0 .. n - 1)
           f == Min(T)
<1>4. f \in T /\ \A y \in T : f <= y
  <2>1. T \subseteq Nat /\ T # {}
    BY <1>2
  <2> HIDE DEF T
  <2> QED BY <2>1, Lowest
<1>5. f \in Nat /\ f <= n /\ n <= f
  BY <1>2, <1>3, <1>4
<1> HIDE DEF f
<1>6. f = n
  BY <1>5
<1> QED BY <1>2, <1>6 DEF f, FreeFrame

LEMMA MapIdentityKeeps == ASSUME LoaderInv, MapIdentity PROVE LoaderInv'
<1>1. /\ step = "identity"
      /\ UNCHANGED <<index_pages, heap, writeable, end_page, aligned, block, mem, procVars, halted>>
  BY DEF MapIdentity, At
<1>2. BootTypes /\ BootSound /\ IdentityMapped /\ Early
  BY <1>1 DEF LoaderInv, BootInv, Early
<1>3. /\ RdEnd <= placement_address /\ placement_address <= RdEnd + (HEAP_TABLES + 6) * PAGE
      /\ identity = <<>> => placement_address <= RdEnd + (HEAP_TABLES + 4) * PAGE
      /\ used = 0 .. Len(identity) - 1 /\ index_pages = <<>>
      /\ Len(identity) * PAGE <= RdEnd + (HEAP_TABLES + 8) * PAGE
  BY <1>1, <1>2 DEF BootSound
<1> DEFINE n == Len(identity)
           A == HEAP_TABLES * PAGE
           M == (INDEX_PAGES + INITIAL_PAGES) * PAGE
           F == FRAMES * PAGE
           L == n * PAGE
           E6 == (HEAP_TABLES + 6) * PAGE
           E4 == (HEAP_TABLES + 4) * PAGE
           E8 == (HEAP_TABLES + 8) * PAGE
<1>4. n \in Nat /\ identity \in Seq(Frames) /\ placement_address \in Nat /\ step \in Steps /\ halted \in BOOLEAN
  BY <1>2 DEF BootTypes
<1>5. /\ A \in Nat /\ M \in Nat /\ F \in Nat /\ RdEnd + A + 8 * PAGE + M <= F
      /\ E4 = A + 4 * PAGE /\ E6 = A + 6 * PAGE /\ E8 = A + 8 * PAGE
      /\ PAGE \in Nat \ {0} /\ RdEnd \in Nat /\ FRAMES \in Nat
  BY Room, Sizes
<1>6. L \in Nat /\ (n + 1) * PAGE = L + PAGE /\ (n < FRAMES <=> L < F)
  <2> HIDE DEF n
  <2>1. (n < FRAMES <=> n * PAGE < FRAMES * PAGE)
    <3>1. n \in Int /\ FRAMES \in Int /\ PAGE \in Nat \ {0}
      BY <1>4, <1>5
    <3> QED BY <3>1, Multiples
  <2>2. n * PAGE \in Nat /\ (n + 1) * PAGE = n * PAGE + PAGE
    BY <1>4, <1>5
  <2> QED BY <2>1, <2>2 DEF n
<1>7. CASE /\ L < placement_address + PAGE
           /\ IF identity = <<>> THEN placement_address' = Aligned(placement_address) + PAGE
                                 ELSE placement_address' = placement_address
           /\ identity' = Append(identity, FreeFrame(used))
           /\ used' = used \cup {FreeFrame(used)} /\ step' = step
  <2>1. n < FRAMES
    <3>1. L < placement_address + PAGE /\ placement_address <= RdEnd + E6
      BY <1>3, <1>7
    <3> HIDE DEF n, A, M, F, L, E4, E6, E8
    <3> QED BY <3>1, <1>4, <1>5, <1>6
  <2>2. FreeFrame(used) = n /\ n \in Frames
    <3>1. used = 0 .. n - 1
      BY <1>3
    <3> HIDE DEF n
    <3> QED BY <3>1, <2>1, <1>4, NextFrame
  <2>3. /\ identity' = Append(identity, n) /\ used' = (0 .. n - 1) \cup {n} /\ step' = "identity"
    BY <2>2, <1>1, <1>3, <1>7
  <2>4. used' = 0 .. n
    <3> HIDE DEF n
    <3> QED BY <2>3, <1>4
  <2>5. /\ identity' \in Seq(Frames) /\ Len(identity') = n + 1 /\ identity' # <<>>
        /\ \A v \in 1 .. n : identity'[v] = identity[v]
        /\ identity'[n + 1] = n
    BY <2>2, <2>3, <1>4
  <2>6. /\ placement_address' \in Nat /\ RdEnd <= placement_address'
        /\ placement_address' <= RdEnd + E6
    <3>1. CASE identity = <<>>
      <4>1. placement_address' = Aligned(placement_address) + PAGE /\ placement_address <= RdEnd + E4
        BY <3>1, <1>3, <1>7
      <4>2. Aligned(placement_address) \in Nat /\ placement_address <= Aligned(placement_address)
            /\ Aligned(placement_address) <= placement_address + PAGE - 1
        BY <1>4, AlignedUp
      <4> HIDE DEF A, M, F, L, E4, E6, E8
      <4> QED BY <4>1, <4>2, <1>3, <1>4, <1>5
    <3>2. CASE identity # <<>>
      BY <3>2, <1>3, <1>4, <1>7
    <3> QED BY <3>1, <3>2
  <2>7. (n + 1) * PAGE <= RdEnd + E8
    <3>1. L < placement_address + PAGE /\ placement_address <= RdEnd + E6
      BY <1>3, <1>7
    <3> HIDE DEF n, A, M, F, L, E4, E6, E8
    <3>2. L + PAGE <= RdEnd + E8
      BY <3>1, <1>4, <1>5, <1>6
    <3> QED BY <3>2, <1>6 DEF L
  <2>8. BootTypes'
    BY <2>3, <2>5, <2>6, <1>1, <1>2 DEF BootTypes, Steps
  <2>9. BootSound'
    <3>1. 0 .. Len(identity') - 1 = 0 .. n
      <4> HIDE DEF n
      <4> QED BY <2>5, <1>4
    <3>2. Len(identity') * PAGE <= RdEnd + (HEAP_TABLES + 8) * PAGE
      BY <2>5, <2>7
    <3>3. /\ step' = "identity" /\ ~Making' /\ index_pages' = <<>>
      BY <2>3, <1>1, <1>3 DEF Making
    <3> QED BY <2>4, <2>5, <2>6, <3>1, <3>2, <3>3 DEF BootSound
  <2>10. IdentityMapped'
    <3>1. DOMAIN identity' = 1 .. n + 1 /\ DOMAIN identity = 1 .. n
      BY <2>5, <1>4
    <3>2. \A v \in 1 .. n : identity[v] = v - 1
      BY <3>1, <1>2 DEF IdentityMapped
    <3>3. \A v \in 1 .. n + 1 : v = n + 1 \/ v \in 1 .. n
      <4> HIDE DEF n
      <4> QED BY <1>4
    <3>4. n = (n + 1) - 1
      <4> HIDE DEF n
      <4> QED BY <1>4
    <3>5. \A v \in 1 .. n + 1 : identity'[v] = v - 1
      <4> HIDE DEF n
      <4> QED BY <2>5, <3>2, <3>3, <3>4
    <3> QED BY <3>1, <3>5, <2>3 DEF IdentityMapped, Booted
  <2>11. used' \subseteq Frames /\ ToSet(identity') \subseteq used'
    <3>1. used \subseteq Frames /\ ToSet(identity) \subseteq used
      BY <1>2, IdentityUsed
    <3>2. ToSet(identity') = ToSet(identity) \cup {n}
      <4> HIDE DEF n
      <4> QED BY <1>4, <2>2, <2>3, AppendList
    <3> QED BY <3>1, <3>2, <2>2, <1>7
  <2>12. HeapInv' /\ ProcInv' /\ DataSound'
    <3>1. Early' /\ step' \in Steps
      BY <2>3 DEF Early, Steps
    <3> QED BY <3>1, <2>11, <1>1, <1>2, EarlyStep
  <2> QED BY <2>8, <2>9, <2>10, <2>12 DEF LoaderInv, BootInv
<1>8. CASE /\ L >= placement_address + PAGE /\ step' = "heap_frames"
           /\ UNCHANGED <<placement_address, identity, used>>
  <2>1. Early' /\ step' \in Steps /\ ~Making'
    BY <1>8 DEF Early, Steps, Making
  <2>2. placement_address + PAGE <= Len(identity) * PAGE /\ RdEnd <= Len(identity) * PAGE
    <3>1. L >= placement_address + PAGE /\ RdEnd <= placement_address
      BY <1>3, <1>8
    <3>2. placement_address + PAGE <= L /\ RdEnd <= L
      <4> HIDE DEF L, n
      <4> QED BY <3>1, <1>4, <1>5, <1>6
    <3> QED BY <3>2
  <2>3. BootTypes'
    BY <2>1, <1>1, <1>2, <1>8 DEF BootTypes
  <2>4. BootSound'
    BY <2>1, <2>2, <1>1, <1>2, <1>3, <1>8 DEF BootSound
  <2>5. IdentityMapped'
    BY <1>2, <1>8 DEF IdentityMapped, Booted
  <2>6. HeapInv' /\ ProcInv' /\ DataSound'
    BY <2>1, <1>1, <1>2, <1>8, IdentityUsed, EarlyStep
  <2> QED BY <2>3, <2>4, <2>5, <2>6 DEF LoaderInv, BootInv
<1> QED BY <1>7, <1>8 DEF MapIdentity, IdentityBound

LEMMA HeapFramesKeeps == ASSUME LoaderInv, HeapFrames PROVE LoaderInv'
<1> DEFINE m == INDEX_PAGES + INITIAL_PAGES
           f == Taken(m)
           n == Len(identity)
<1>1. /\ step = "heap_frames" /\ step' = "create_heap"
      /\ index_pages' = SubSeq(f, 1, INDEX_PAGES)
      /\ heap' = [v \in HeapPages |-> IF v < INITIAL_PAGES THEN f[INDEX_PAGES + v + 1] ELSE None]
      /\ used' = used \cup ToSet(f) /\ writeable' = 0 .. INITIAL_PAGES - 1
      /\ UNCHANGED <<placement_address, identity, end_page, aligned, block, mem, procVars, halted>>
  BY DEF HeapFrames, At
<1>2. BootTypes /\ BootSound /\ IdentityMapped /\ Early /\ Starting
  BY <1>1 DEF LoaderInv, BootInv, Early, Starting
<1>3. /\ placement_address + PAGE <= Len(identity) * PAGE
      /\ used = 0 .. Len(identity) - 1
      /\ Len(identity) * PAGE <= RdEnd + (HEAP_TABLES + 8) * PAGE
      /\ RdEnd <= Len(identity) * PAGE
  BY <1>1, <1>2 DEF BootSound
<1>4. n \in Nat /\ identity \in Seq(Frames) /\ placement_address \in Nat /\ halted \in BOOLEAN
  BY <1>2 DEF BootTypes
<1>5. /\ INDEX_PAGES \in Nat /\ INITIAL_PAGES \in Nat \ {0} /\ m \in Nat /\ PAGE \in Nat \ {0} /\ FRAMES \in Nat
      /\ MAX_PAGES \in Nat /\ INITIAL_PAGES <= MAX_PAGES
  BY Sizes
<1>6. n + m <= FRAMES
  <2> DEFINE A == HEAP_TABLES * PAGE
             M == m * PAGE
             F == FRAMES * PAGE
             L == n * PAGE
             E8 == (HEAP_TABLES + 8) * PAGE
  <2>1. /\ A \in Nat /\ M \in Nat /\ F \in Nat /\ RdEnd + A + 8 * PAGE + M <= F
        /\ E8 = A + 8 * PAGE /\ RdEnd \in Nat /\ PAGE \in Nat
    BY Room, Sizes
  <2>2. L <= RdEnd + E8
    BY <1>3
  <2>3. L \in Nat
    <3> HIDE DEF n
    <3> QED BY <1>4, <1>5
  <2>4. L + M <= F
    <3> HIDE DEF A, M, F, L, E8
    <3> QED BY <2>1, <2>2, <2>3
  <2>5. (n + m) * PAGE = L + M /\ (n + m <= FRAMES <=> (n + m) * PAGE <= F)
    <3> HIDE DEF n, m
    <3>1. n \in Int /\ m \in Int /\ n + m \in Int /\ FRAMES \in Int
      BY <1>4, <1>5
    <3> QED BY <3>1, <1>5, Multiples DEF L, M, F
  <2> HIDE DEF L, M, F, n, m
  <2> QED BY <2>4, <2>5
<1>7. Enough(m)
  <2>1. Frames \ used = n .. FRAMES - 1
    <3>1. Frames = 0 .. FRAMES - 1 /\ used = 0 .. n - 1
      BY <1>3 DEF Frames
    <3> HIDE DEF n
    <3> QED BY <3>1, <1>4, <1>5
  <2>2. n \in Int /\ FRAMES - 1 \in Int
    BY <1>4, <1>5
  <2>3. Cardinality(n .. FRAMES - 1) = IF n > FRAMES - 1 THEN 0 ELSE FRAMES - 1 - n + 1
    <3> HIDE DEF n
    <3> QED BY <2>2, FS_Interval
  <2>4. Cardinality(n .. FRAMES - 1) >= m
    <3> HIDE DEF n, m
    <3> QED BY <2>3, <1>4, <1>5, <1>6
  <2> QED BY <2>1, <2>4 DEF Enough
<1>8. /\ f \in [1 .. m -> Frames \ used]
      /\ \A j, k \in 1 .. m : f[j] = f[k] => j = k
  <2> HIDE DEF m
  <2> QED BY <1>5, <1>7, TakenFrames
<1>9. /\ \A k \in 1 .. m : f[k] \in Frames /\ f[k] \notin used
      /\ DOMAIN f = 1 .. m
  BY <1>8
<1>10. \A v \in 0 .. INITIAL_PAGES - 1 : INDEX_PAGES + v + 1 \in INDEX_PAGES + 1 .. m
  BY <1>5
<1>11. \A k \in 1 .. INDEX_PAGES : k \in 1 .. m
  BY <1>5
<1>12. \A v \in HeapPages : v \in Nat /\ (v < INITIAL_PAGES => v \in 0 .. INITIAL_PAGES - 1)
  BY <1>5 DEF HeapPages
<1>13. /\ index_pages' \in Seq(Frames) /\ Len(index_pages') = INDEX_PAGES
       /\ \A k \in 1 .. INDEX_PAGES : index_pages'[k] = f[k]
  <2>1. f \in Seq(Frames) /\ Len(f) = m
    <3>1. f \in [1 .. m -> Frames]
      BY <1>8
    <3> HIDE DEF f, m
    <3> QED BY <3>1, <1>5, SeqDef
  <2>2. INDEX_PAGES <= m
    BY <1>5
  <2> HIDE DEF f, m
  <2> QED BY <2>1, <2>2, <1>1, <1>5
<1> HIDE DEF f
<1>14. /\ \A v \in HeapPages : v < INITIAL_PAGES =>
            heap'[v] = f[INDEX_PAGES + v + 1] /\ INDEX_PAGES + v + 1 \in INDEX_PAGES + 1 .. m
       /\ \A v \in HeapPages : ~(v < INITIAL_PAGES) => heap'[v] = None
  BY <1>1, <1>10, <1>12
<1>15. \A k \in INDEX_PAGES + 1 .. m : k \in 1 .. m /\ k \notin 1 .. INDEX_PAGES
  BY <1>5
<1>16. ToSet(f) \subseteq Frames /\ ToSet(f) \cap used = {} /\ \A k \in 1 .. m : f[k] \in ToSet(f)
  BY <1>9 DEF ToSet
<1>17. used \subseteq Frames /\ ToSet(identity) \subseteq used
  BY <1>2, IdentityUsed
<1>18. used' \subseteq Frames /\ None \notin Frames
  <2>1. used' \subseteq Frames
    BY <1>1, <1>16, <1>17
  <2>2. None \notin Frames
    BY Sizes DEF None, Frames
  <2> QED BY <2>1, <2>2
<1>19. ToSet(index_pages') = {f[k] : k \in 1 .. INDEX_PAGES}
  <2>1. DOMAIN index_pages' = 1 .. INDEX_PAGES
    BY <1>13
  <2> QED BY <2>1, <1>13 DEF ToSet
<1>20. FrameOwner'
  <2>1. ASSUME NEW v \in HeapPages, NEW w \in HeapPages, v # w, heap'[v] # None
        PROVE  heap'[v] # heap'[w]
    <3>1. v < INITIAL_PAGES /\ heap'[v] = f[INDEX_PAGES + v + 1] /\ INDEX_PAGES + v + 1 \in 1 .. m
      BY <2>1, <1>14, <1>15
    <3>2. CASE w < INITIAL_PAGES
      <4>1. heap'[w] = f[INDEX_PAGES + w + 1] /\ INDEX_PAGES + w + 1 \in 1 .. m
        BY <3>2, <1>14, <1>15
      <4>2. INDEX_PAGES + v + 1 # INDEX_PAGES + w + 1
        BY <2>1, <1>5, <1>12
      <4> QED BY <3>1, <4>1, <4>2, <1>8
    <3>3. CASE ~(w < INITIAL_PAGES)
      BY <3>3, <2>1, <1>14
    <3> QED BY <3>2, <3>3
  <2>2. ASSUME NEW v \in HeapPages PROVE heap'[v] \notin ToSet(identity') \cup ToSet(index_pages')
    <3>1. ToSet(identity') \subseteq used
      BY <1>1, <1>17
    <3>2. CASE v < INITIAL_PAGES
      <4> DEFINE x == INDEX_PAGES + v + 1
      <4>1. heap'[v] = f[x] /\ x \in 1 .. m /\ x \notin 1 .. INDEX_PAGES
        BY <3>2, <1>14, <1>15
      <4> HIDE DEF x
      <4>2. f[x] \notin used
        BY <4>1, <1>9
      <4>3. \A k \in 1 .. INDEX_PAGES : f[k] # f[x]
        BY <4>1, <1>8, <1>11
      <4> QED BY <3>1, <4>1, <4>2, <4>3, <1>19
    <3>3. CASE ~(v < INITIAL_PAGES)
      <4>1. heap'[v] = None
        BY <3>3, <1>14
      <4>2. \A k \in 1 .. INDEX_PAGES : f[k] \in Frames
        BY <1>9, <1>11
      <4> QED BY <3>1, <4>1, <4>2, <1>17, <1>18, <1>19
    <3> QED BY <3>2, <3>3
  <2>3. ToSet(identity') \subseteq used' /\ ToSet(index_pages') \subseteq used'
    BY <1>1, <1>11, <1>16, <1>17, <1>19
  <2>4. \A v \in HeapPages : heap'[v] \in used' \cup {None}
    <3>1. \A v \in HeapPages : v < INITIAL_PAGES => heap'[v] \in ToSet(f)
      BY <1>14, <1>15, <1>16
    <3> QED BY <3>1, <1>1, <1>14
  <2> QED BY <2>1, <2>2, <2>3, <2>4 DEF FrameOwner
<1>21. HeapInv'
  <2>1. end_page = 0 /\ \A v \in HeapPages : block[v] = Hole
    BY <1>2, StartingFacts
  <2>2. heap' \in [HeapPages -> Frames \cup {None}]
    <3>1. \A v \in HeapPages : heap'[v] \in Frames \cup {None}
      BY <1>9, <1>14, <1>15
    <3> QED BY <3>1, <1>1
  <2>3. writeable' \subseteq HeapPages
    BY <1>1, <1>5 DEF HeapPages
  <2>4. HeapTypes'
    BY <2>2, <2>3, <1>1, <1>18 DEF LoaderInv, HeapInv, HeapTypes
  <2>5. \A v \in 0 .. INITIAL_PAGES - 1 : heap'[v] # None
    <3>1. \A v \in 0 .. INITIAL_PAGES - 1 : v \in HeapPages /\ v < INITIAL_PAGES
      BY <1>5 DEF HeapPages
    <3>2. \A v \in 0 .. INITIAL_PAGES - 1 : heap'[v] \in Frames
      BY <3>1, <1>9, <1>14, <1>15
    <3> QED BY <3>2, <1>18
  <2>6. ~Early' /\ Starting'
    BY <1>1 DEF Early, Starting
  <2>7. \A v \in 0 .. 0 - 1 : FALSE
    OBVIOUS
  <2>8. HeapSound'
    BY <2>1, <2>5, <2>6, <2>7, <1>1 DEF HeapSound
  <2> QED BY <2>4, <2>8, <1>20 DEF HeapInv
<1>22. BootInv'
  <2>1. BootTypes'
    BY <1>1, <1>2, <1>13 DEF BootTypes, Steps
  <2>2. placement_address + 1 <= Len(identity) * PAGE /\ placement_address <= Len(identity) * PAGE
    <3> DEFINE L == n * PAGE
    <3>1. L \in Nat
      <4> HIDE DEF n
      <4> QED BY <1>4, <1>5
    <3>2. placement_address + PAGE <= L
      BY <1>3
    <3> HIDE DEF L, n
    <3>3. placement_address + 1 <= L /\ placement_address <= L
      BY <3>1, <3>2, <1>4, <1>5
    <3> QED BY <3>3 DEF L, n
  <2>3. BootSound'
    BY <2>2, <1>1, <1>3 DEF BootSound, Early, Making
  <2>4. IdentityMapped'
    BY <2>2, <1>1, <1>2 DEF IdentityMapped
  <2> QED BY <2>1, <2>3, <2>4 DEF BootInv
<1>23. ProcInv'
  BY <1>1, <1>2, NoProgramKept DEF Steps, Making
<1>24. DataSound'
  BY <1>1, <1>2, StartingData DEF LoaderInv, DataSound
<1> QED BY <1>20, <1>21, <1>22, <1>23, <1>24 DEF LoaderInv

LEMMA CreateHeapKeeps == ASSUME LoaderInv, CreateHeap PROVE LoaderInv'
<1>1. /\ step = "create_heap" /\ step' = "user" /\ placement_address' = placement_address + 1
      /\ end_page' = INITIAL_PAGES
      /\ UNCHANGED <<identity, index_pages, used, heap, writeable, aligned, block, mem, procVars, halted>>
  BY DEF CreateHeap, At, Place
<1>2. BootTypes /\ BootSound /\ IdentityMapped /\ Starting
  BY <1>1 DEF LoaderInv, BootInv, Starting
<1>3. BootInv'
  <2>1. placement_address \in Nat
    BY <1>2 DEF BootTypes
  <2>2. BootTypes'
    BY <2>1, <1>1, <1>2 DEF BootTypes, Steps
  <2>3. BootSound'
    BY <1>1, <1>2 DEF BootSound, Early, Making
  <2>4. placement_address' <= Len(identity) * PAGE
    BY <1>1, <1>2 DEF BootSound
  <2>5. IdentityMapped'
    BY <2>4, <1>1, <1>2 DEF IdentityMapped
  <2> QED BY <2>2, <2>3, <2>5 DEF BootInv
<1>4. HeapInv'
  <2>1. \A v \in HeapPages : block[v] = Hole
    BY <1>2, StartingFacts
  <2>2. INITIAL_PAGES \in Nat /\ INITIAL_PAGES <= MAX_PAGES /\ MAX_PAGES \in Nat
        /\ HEAP_MIN_PAGES <= INITIAL_PAGES /\ HEAP_MIN_PAGES \in Nat
    BY Sizes
  <2>3. HeapTypes /\ HeapSound /\ FrameOwner
    BY DEF LoaderInv, HeapInv
  <2>4. HeapTypes'
    BY <2>2, <2>3, <1>1 DEF HeapTypes
  <2>5. ~Early' /\ ~Starting' /\ step' # "create_heap"
    BY <1>1 DEF Early, Starting
  <2>6. \A v \in 0 .. INITIAL_PAGES - 1 : heap[v] # None
    BY <2>3, <1>1 DEF HeapSound
  <2>7. HeapSound'
    BY <2>1, <2>2, <2>5, <2>6, <1>1 DEF HeapSound
  <2>8. FrameOwner'
    BY <2>3, <1>1 DEF FrameOwner
  <2> QED BY <2>4, <2>7, <2>8 DEF HeapInv
<1>5. ProcInv'
  BY <1>1, <1>2, NoProgramKept DEF Steps, Making
<1>6. DataSound'
  BY <1>1, <1>2, StartingData DEF LoaderInv, DataSound
<1> QED BY <1>3, <1>4, <1>5, <1>6 DEF LoaderInv

(***************************************************************************)
(* The programs                                                            *)
(***************************************************************************)
LEMMA PagesEnough ==
    ASSUME NEW n \in Nat
    PROVE  /\ PagesOf(n) \in Nat /\ (n # 0 => PagesOf(n) >= 1)
           /\ \A w \in 0 .. n - 1 : w \div PAGE \in 0 .. PagesOf(n) - 1
           /\ \A u \in Nat : n <= u * PAGE => PagesOf(n) <= u
<1> DEFINE m == n + PAGE - 1
           q == m \div PAGE
           r == m % PAGE
<1>1. PAGE \in Nat \ {0} /\ m \in Int
  BY Sizes
<1>2. q \in Int /\ r \in 0 .. PAGE - 1 /\ m = q * PAGE + r /\ q * PAGE \in Int
  <2> HIDE DEF m
  <2> QED BY <1>1, DivMod
<1>3. PagesOf(n) = q
  BY DEF PagesOf
<1>4. m = n + PAGE - 1
  OBVIOUS
<1> HIDE DEF m, q, r
<1> DEFINE T == q * PAGE
<1>5. ASSUME NEW w \in 0 .. n - 1 PROVE w \div PAGE \in 0 .. q - 1
  <2> DEFINE i == w \div PAGE
             s == w % PAGE
             I == i * PAGE
  <2>1. w \in Int /\ i \in Int /\ s \in 0 .. PAGE - 1 /\ w = I + s /\ w >= 0 /\ I \in Int
    <3>1. w \in Int /\ w >= 0
      OBVIOUS
    <3>2. i \in Int /\ s \in 0 .. PAGE - 1 /\ w = i * PAGE + s
      BY <3>1, <1>1, DivMod
    <3> HIDE DEF i, s
    <3>3. i * PAGE \in Int
      BY <3>2, <1>1
    <3> QED BY <3>1, <3>2, <3>3
  <2> HIDE DEF i, s
  <2>2. I < T /\ 0 * PAGE < (i + 1) * PAGE
    <3>1. (i + 1) * PAGE = I + PAGE /\ 0 * PAGE = 0
      BY <2>1, <1>1
    <3>2. T \in Int /\ m = T + r
      BY <1>2
    <3> HIDE DEF I, T
    <3> QED BY <3>1, <3>2, <2>1, <1>1, <1>2, <1>4
  <2>3. i < q /\ 0 < i + 1
    <3>1. i \in Int /\ q \in Int /\ 0 \in Int /\ i + 1 \in Int
      BY <2>1, <1>2
    <3>2. (i < q <=> i * PAGE < q * PAGE) /\ (0 < i + 1 <=> 0 * PAGE < (i + 1) * PAGE)
      BY <3>1, <1>1, Multiples
    <3> QED BY <2>2, <3>2
  <2>4. i \in 0 .. q - 1
    BY <2>1, <2>3, <1>2
  <2> QED BY <2>4 DEF i
<1>6. q >= 0 /\ (n # 0 => q >= 1)
  <2>1. T > (0 - 1) * PAGE /\ (n # 0 => T > 0 * PAGE)
    <3>1. (0 - 1) * PAGE = 0 - PAGE /\ 0 * PAGE = 0 /\ T \in Int /\ m = T + r
      BY <1>1, <1>2
    <3> HIDE DEF T
    <3> QED BY <3>1, <1>1, <1>2, <1>4
  <2>2. (0 - 1 < q <=> (0 - 1) * PAGE < q * PAGE) /\ (0 < q <=> 0 * PAGE < q * PAGE)
    <3>1. 0 - 1 \in Int /\ q \in Int /\ 0 \in Int
      BY <1>2
    <3> QED BY <3>1, <1>1, Multiples
  <2>3. 0 - 1 < q /\ (n # 0 => 0 < q)
    <3>1. T \in Int /\ (0 - 1) * PAGE \in Int /\ 0 * PAGE \in Int
      BY <1>1, <1>2
    <3>2. (0 - 1) * PAGE < T /\ (n # 0 => 0 * PAGE < T)
      <4> HIDE DEF T
      <4>1. \A x, y \in Int : x > y => y < x
        OBVIOUS
      <4> QED BY <2>1, <3>1, <4>1
    <3> QED BY <3>2, <2>2
  <2> QED BY <2>3, <1>2
<1>7. ASSUME NEW u \in Nat, n <= u * PAGE PROVE q <= u
  <2> DEFINE U == u * PAGE
  <2>1. U \in Int /\ T \in Int /\ m = T + r /\ (u + 1) * PAGE = U + PAGE
    BY <1>1, <1>2
  <2>2. n <= U
    BY <1>7
  <2>3. T < U + PAGE
    <3> HIDE DEF U, T
    <3> QED BY <2>1, <2>2, <1>1, <1>2, <1>4
  <2>4. q < u + 1 <=> q * PAGE < (u + 1) * PAGE
    <3>1. q \in Int /\ u + 1 \in Int
      BY <1>2
    <3> QED BY <3>1, <1>1, Multiples
  <2>5. q < u + 1
    BY <2>1, <2>3, <2>4
  <2> QED BY <2>5, <1>2
<1>8. q \in Nat
  BY <1>2, <1>6
<1> QED BY <1>3, <1>5, <1>6, <1>7, <1>8

LEMMA BootKept ==
    ASSUME LoaderInv, ~Starting, ~Starting', UNCHANGED bootVars, step' \in Steps, halted' \in BOOLEAN
    PROVE  BootInv'
<1>1. BootTypes /\ BootSound /\ IdentityMapped
  BY DEF LoaderInv, BootInv
<1>2. UNCHANGED <<placement_address, identity, index_pages>>
  BY DEF bootVars
<1>3. step = "user" \/ Making
  BY <1>1 DEF BootTypes, Steps, Starting, Early, Making
<1>4. BootTypes'
  BY <1>1, <1>2 DEF BootTypes
<1>5. /\ Len(identity) * PAGE <= RdEnd + (HEAP_TABLES + 8) * PAGE
      /\ RdEnd <= Len(identity) * PAGE
  BY <1>1, <1>3 DEF BootSound
<1>6. BootSound'
  BY <1>2, <1>5 DEF BootSound, Starting, Early
<1>7. IdentityMapped'
  BY <1>1, <1>2 DEF IdentityMapped, Booted, Starting, Early
<1> QED BY <1>4, <1>6, <1>7 DEF BootInv

LEMMA DataKept ==
    ASSUME DataSound, UNCHANGED <<mem, heap, block, end_page, file, image, user>>
    PROVE  DataSound'
<1>1. \A p : Intact(p)' = Intact(p)
  BY DEF Intact
<1>2. \A p : Loaded(p) => Loaded(p)'
  BY <1>1 DEF Loaded
<1> QED BY <1>1, <1>2 DEF DataSound

LEMMA PanicKeeps == ASSUME LoaderInv, Panic PROVE LoaderInv'
<1>1. halted' = TRUE /\ UNCHANGED <<step, placement_address, identity, index_pages, used, heap, writeable,
                                    end_page, aligned, block, mem, file, image, user, live>>
  BY DEF Panic, bootVars, heapVars, procVars
<1>2. BootInv'
  <2>1. BootTypes /\ BootSound /\ IdentityMapped
    BY DEF LoaderInv, BootInv
  <2>2. BootTypes'
    BY <2>1, <1>1 DEF BootTypes
  <2>3. BootSound'
    BY <2>1, <1>1 DEF BootSound, Early, Making
  <2>4. IdentityMapped'
    BY <2>1, <1>1 DEF IdentityMapped, Booted
  <2> QED BY <2>2, <2>3, <2>4 DEF BootInv
<1>3. HeapInv'
  <2>1. HeapTypes /\ HeapSound /\ FrameOwner
    BY DEF LoaderInv, HeapInv
  <2>2. HeapTypes'
    BY <2>1, <1>1 DEF HeapTypes
  <2>3. HeapSound'
    BY <2>1, <1>1 DEF HeapSound, Early, Starting
  <2>4. FrameOwner'
    BY <2>1, <1>1 DEF FrameOwner
  <2> QED BY <2>2, <2>3, <2>4 DEF HeapInv
<1>4. ProcInv'
  BY <1>1 DEF LoaderInv, ProcInv, ProcTypes, ProcSound, Early, Starting, Making
<1>5. DataSound'
  BY <1>1, DataKept DEF LoaderInv
<1> QED BY <1>2, <1>3, <1>4, <1>5 DEF LoaderInv

\* Types of what is known of a process.
LEMMA ProcFacts ==
    ASSUME LoaderInv
    PROVE  /\ file \in Seq(Inodes \cup {Dev}) /\ image \in Seq(HeapPages) /\ user \in Seq(Seq(Frames))
           /\ Len(file) \in Nat /\ Len(image) \in Nat /\ Len(user) \in Nat
           /\ Len(image) <= Len(file) /\ Len(user) <= Len(image)
           /\ \A p \in 1 .. Len(image) : image[p] \in HeapPages
           /\ \A p \in 1 .. Len(file) : file[p] \in Inodes \cup {Dev} /\ NodeLength(file[p]) \in Nat
<1>1. ProcTypes /\ ProcSound
  BY DEF LoaderInv, ProcInv
<1>2. /\ file \in Seq(Inodes \cup {Dev}) /\ image \in Seq(HeapPages) /\ user \in Seq(Seq(Frames))
      /\ Len(file) \in Nat /\ Len(image) \in Nat /\ Len(user) \in Nat
  BY <1>1 DEF ProcTypes
<1>3. Len(image) <= Len(file) /\ Len(user) <= Len(image)
  <2>1. Len(file) = Len(user) + 1 \/ Len(file) = Len(user)
    BY <1>1 DEF ProcSound
  <2>2. Len(image) = Len(user) \/ Len(image) = Len(file)
    BY <1>1 DEF ProcSound
  <2> QED BY <2>1, <2>2, <1>2
<1>4. \A p \in 1 .. Len(image) : image[p] \in HeapPages
  BY <1>2
<1>5. \A p \in 1 .. Len(file) : file[p] \in Inodes \cup {Dev}
  BY <1>2
<1>6. \A f \in Inodes \cup {Dev} : NodeLength(f) \in Nat
  BY FilesTyped DEF NodeLength
<1> QED BY <1>2, <1>3, <1>4, <1>5, <1>6

\* An image that is whole after a step was whole before, if no page of it is
\* new and its frames are the same.
LEMMA IntactKept ==
    ASSUME LoaderInv, NEW p \in 1 .. Len(image), file'[p] = file[p], image'[p] = image[p],
           end_page' \in 0 .. MAX_PAGES,
           \A v \in HeapPages : v < end_page' /\ block'[v] = <<p, "image">> =>
                v < end_page /\ block[v] = <<p, "image">> /\ heap'[v] = heap[v]
    PROVE  Intact(p)' => Intact(p) /\ (NodeLength(file[p]) # 0 => heap'[image[p]] = heap[image[p]])
<1> SUFFICES ASSUME Intact(p)'
             PROVE  Intact(p) /\ (NodeLength(file[p]) # 0 => heap'[image[p]] = heap[image[p]])
  OBVIOUS
<1> DEFINE l == NodeLength(file[p])
           n == PagesOf(l)
           v == image[p]
<1>1. l \in Nat /\ v \in HeapPages /\ MAX_PAGES \in Nat /\ p \in 1 .. Len(file) /\ HeapPages = 0 .. MAX_PAGES - 1
  BY ProcFacts, Sizes DEF HeapPages
<1>2. n \in Nat /\ (l # 0 => n >= 1)
  <2> HIDE DEF l
  <2> QED BY <1>1, PagesEnough
<1>3. \A i \in 0 .. n - 1 : v + i < end_page' /\ block'[v + i] = <<p, "image">> /\ heap'[v + i] = heap'[v] + i
  BY DEF Intact
<1> HIDE DEF l, n, v
<1>4. ASSUME NEW i \in 0 .. n - 1 PROVE v + i \in HeapPages
  <2>1. v + i < end_page' /\ end_page' \in 0 .. MAX_PAGES
    BY <1>3
  <2>2. i \in Nat /\ v \in Nat
    BY <1>1, <1>2
  <2> QED BY <2>1, <2>2, <1>1
<1>5. \A i \in 0 .. n - 1 : v + i < end_page /\ block[v + i] = <<p, "image">> /\ heap'[v + i] = heap[v + i]
  BY <1>3, <1>4
<1>6. n # 0 => 0 \in 0 .. n - 1 /\ v + 0 = v
  BY <1>1, <1>2
<1>7. n # 0 => heap'[v] = heap[v]
  BY <1>5, <1>6
<1>8. \A i \in 0 .. n - 1 : heap[v + i] = heap[v] + i
  <2>1. \A i \in 0 .. n - 1 : n # 0
    BY <1>2
  <2> QED BY <2>1, <1>3, <1>5, <1>7
<1>9. l # 0 => heap'[v] = heap[v]
  BY <1>2, <1>7
<1>10. Intact(p)
  BY <1>5, <1>8 DEF Intact, l, n, v
<1> QED BY <1>9, <1>10 DEF l, v

\* So an image keeps its words when the memory of its frames does.
LEMMA LoadedKept ==
    ASSUME LoaderInv, NEW p \in 1 .. Len(image), file'[p] = file[p], image'[p] = image[p],
           end_page' \in 0 .. MAX_PAGES,
           \A v \in HeapPages : v < end_page' /\ block'[v] = <<p, "image">> =>
                v < end_page /\ block[v] = <<p, "image">> /\ heap'[v] = heap[v],
           Intact(p) => \A w \in 0 .. NodeLength(file[p]) - 1 :
                mem'[heap[image[p]] * PAGE + w] = mem[heap[image[p]] * PAGE + w]
    PROVE  /\ Loaded(p)'
           /\ p \in 1 .. Len(user) /\ user'[p] = user[p] =>
                (Intact(p) /\ NodeLength(file[p]) # 0 => user[p] = UserFrames(heap[image[p]]))'
<1>1. Intact(p)' => Intact(p) /\ (NodeLength(file[p]) # 0 => heap'[image[p]] = heap[image[p]])
  BY IntactKept
<1>2. NodeLength(file[p]) \in Nat
  <2>1. Len(image) \in Nat /\ Len(file) \in Nat /\ Len(image) <= Len(file)
    BY ProcFacts
  <2>2. p \in 1 .. Len(file)
    BY <2>1
  <2> QED BY <2>2, ProcFacts
<1>3. ASSUME Intact(p)' PROVE \A w \in 0 .. NodeLength(file[p]) - 1 :
                                mem'[heap'[image[p]] * PAGE + w] = Word(file[p], w)
  <2>1. Loaded(p)
    BY DEF LoaderInv, DataSound
  <2>2. \A w \in 0 .. NodeLength(file[p]) - 1 : mem'[heap[image[p]] * PAGE + w] = Word(file[p], w)
    BY <1>1, <1>3, <2>1 DEF Loaded
  <2>3. \A w \in 0 .. NodeLength(file[p]) - 1 : NodeLength(file[p]) # 0
    BY <1>2
  <2> QED BY <2>2, <2>3, <1>1, <1>3
<1>4. Loaded(p)'
  BY <1>3 DEF Loaded
<1>5. ASSUME p \in 1 .. Len(user), user'[p] = user[p], Intact(p)', NodeLength(file[p]) # 0
      PROVE  user'[p] = UserFrames(heap'[image'[p]])
  <2>1. user[p] = UserFrames(heap[image[p]])
    BY <1>1, <1>5 DEF LoaderInv, DataSound
  <2> QED BY <2>1, <1>1, <1>5
<1>6. (NodeLength(file[p]) # 0)' <=> NodeLength(file[p]) # 0
  OBVIOUS
<1>7. UserFrames(heap[image[p]])' = UserFrames(heap'[image'[p]])
  BY DEF UserFrames
<1> QED BY <1>4, <1>5, <1>6, <1>7

LEMMA FoundNode ==
    ASSUME NEW name, FindDir(name) # NoNode
    PROVE  FindDir(name) \in Inodes \cup {Dev}
<1> DEFINE T == Named(name)
<1>1. CASE name = "dev"
  BY <1>1 DEF FindDir
<1>2. CASE name # "dev"
  <2>1. T # {} /\ T \subseteq Inodes
    BY <1>2 DEF FindDir, Named
  <2>2. Inodes \subseteq Nat
    BY FilesTyped
  <2>3. \E i \in T : \A j \in T : i <= j
    <3>1. T \subseteq Nat
      BY <2>1, <2>2
    <3> HIDE DEF T
    <3> QED BY <2>1, <3>1, LeastPosition
  <2>4. FindDir(name) = CHOOSE i \in T : \A j \in T : i <= j
    BY <1>2, <2>1 DEF FindDir
  <2> HIDE DEF T
  <2>5. FindDir(name) \in T
    BY <2>3, <2>4
  <2> QED BY <2>1, <2>5
<1> QED BY <1>1, <1>2

LEMMA ExecKeeps == ASSUME LoaderInv, NEW name \in Names, Exec(name) PROVE LoaderInv'
<1> DEFINE node == FindDir(name)
<1>1. /\ step = "user" /\ step' = "image" /\ Len(file) < MAX_PROCS
      /\ node \in Inodes \cup {Dev} /\ file' = Append(file, node)
      /\ UNCHANGED <<placement_address, identity, index_pages, used, heap, writeable, end_page, aligned,
                     block, mem, image, user, live, halted>>
  BY FoundNode DEF Exec, At, bootVars, heapVars
<1> HIDE DEF node
<1>2. ~Starting /\ ~Starting' /\ ~Making /\ Making' /\ step' \in Steps /\ ~Early /\ ~Early'
  BY <1>1 DEF Starting, Early, Making, Steps
<1>3. BootInv'
  BY <1>1, <1>2, BootKept DEF LoaderInv, BootInv, BootTypes, bootVars
<1>4. HeapInv'
  <2>1. HeapTypes /\ HeapSound /\ FrameOwner
    BY DEF LoaderInv, HeapInv
  <2>2. HeapTypes'
    BY <2>1, <1>1 DEF HeapTypes
  <2>3. HeapSound'
    BY <2>1, <1>1, <1>2 DEF HeapSound, Starting
  <2>4. FrameOwner'
    BY <2>1, <1>1 DEF FrameOwner
  <2> QED BY <2>2, <2>3, <2>4 DEF HeapInv
<1>5. /\ file' \in Seq(Inodes \cup {Dev}) /\ Len(file') = Len(file) + 1
      /\ \A p \in 1 .. Len(file) : file'[p] = file[p]
  BY <1>1, ProcFacts
<1>6. ProcTypes /\ ProcSound /\ Len(file) \in Nat /\ Len(file) = Len(user) /\ Len(image) = Len(file)
  BY <1>1, <1>2, ProcFacts DEF LoaderInv, ProcInv, ProcSound
<1>7. ProcInv'
  <2>1. ProcTypes'
    BY <1>1, <1>5, <1>6 DEF ProcTypes
  <2>2. Len(file') <= MAX_PROCS /\ Len(file) <= Len(file')
    BY <1>1, <1>5, <1>6, Sizes
  <2>3. ASSUME NEW v \in HeapPages, block[v] # Hole PROVE block[v][1] <= Len(file')
    <3>1. block[v] \in Procs \X {"image", "proc", "dir", "table"}
      BY <2>3 DEF LoaderInv, HeapInv, HeapTypes
    <3>2. block[v][1] \in Nat /\ block[v][1] <= Len(file)
      BY <3>1, <2>3, <1>6 DEF ProcSound, Procs
    <3> QED BY <3>2, <1>5, <1>6
  <2>4. ProcSound'
    BY <2>2, <2>3, <1>1, <1>2, <1>5, <1>6 DEF ProcSound
  <2> QED BY <2>1, <2>4 DEF ProcInv
<1>8. DataSound'
  <2>1. ASSUME NEW p \in 1 .. Len(image)
        PROVE  /\ Loaded(p)'
               /\ p \in 1 .. Len(user) =>
                    (Intact(p) /\ NodeLength(file[p]) # 0 => user[p] = UserFrames(heap[image[p]]))'
    <3>1. file'[p] = file[p] /\ image'[p] = image[p] /\ user' = user
      BY <1>1, <1>5, <1>6
    <3>2. end_page' \in 0 .. MAX_PAGES
      BY <1>1 DEF LoaderInv, HeapInv, HeapTypes
    <3> QED BY <3>1, <3>2, <1>1, LoadedKept
  <2>2. DataSound
    BY DEF LoaderInv
  <2> QED BY <2>1, <2>2, <1>1, <1>6 DEF DataSound
<1> QED BY <1>3, <1>4, <1>7, <1>8 DEF LoaderInv

LEMMA MapImageKeeps == ASSUME LoaderInv, MapImage PROVE LoaderInv'
<1> DEFINE h == heap[image[New]]
           f == UserFrames(h)
<1>1. CASE /\ step = "map" /\ InMemory(f)
           /\ used' = used \cup ToSet(f) /\ user' = Append(user, f)
           /\ live' = live \cup {New} /\ step' = "user"
           /\ UNCHANGED <<bootVars, heap, writeable, end_page, aligned, block, mem, file, image, halted>>
  <2>1. ~Starting /\ ~Starting' /\ Making /\ ~Making' /\ step' \in Steps /\ ~Early /\ ~Early'
    BY <1>1 DEF Starting, Early, Making, Steps
  <2>2. /\ ProcTypes /\ ProcSound /\ Len(user) \in Nat /\ New = Len(user) + 1 /\ Len(image) = New
        /\ New <= MAX_PROCS /\ image[New] < end_page /\ New = Len(file)
    BY <1>1, <2>1, ProcFacts DEF LoaderInv, ProcInv, ProcSound, New
  <2>3. HeapTypes /\ HeapSound /\ FrameOwner
    BY DEF LoaderInv, HeapInv
  <2>4. New \in 1 .. Len(image) /\ New \in Procs
    BY <2>2, Sizes DEF Procs
  <2>5. h \in Frames
    <3>1. image[New] \in HeapPages
      BY <2>4, ProcFacts
    <3>2. image[New] \in 0 .. end_page - 1
      BY <3>1, <2>2, <2>3 DEF HeapTypes, HeapPages
    <3>3. h \in Frames \cup {None} /\ h # None
      BY <3>1, <3>2, <2>3 DEF HeapTypes, HeapSound
    <3> QED BY <3>3
  <2> HIDE DEF h
  <2>6. f \in Seq(Frames) /\ ToSet(f) \subseteq Frames
    <3>1. USER_PAGES \in Nat /\ FRAMES \in Nat /\ h \in Nat
      BY <2>5, Sizes DEF Frames
    <3>2. DOMAIN f = 1 .. USER_PAGES /\ \A i \in 1 .. USER_PAGES : f[i] = h + i - 1
      BY DEF UserFrames
    <3>3. ASSUME NEW i \in 1 .. USER_PAGES PROVE f[i] \in Frames
      <4>1. f[i] <= FRAMES - 1
        BY <1>1, <3>2 DEF InMemory
      <4> QED BY <4>1, <3>1, <3>2 DEF Frames
    <3>4. f = [i \in 1 .. USER_PAGES |-> f[i]]
      BY <3>2 DEF UserFrames
    <3>5. f \in [1 .. USER_PAGES -> Frames]
      BY <3>3, <3>4
    <3> HIDE DEF f
    <3>6. f \in Seq(Frames)
      BY <3>1, <3>5, SeqDef
    <3> QED BY <3>2, <3>3, <3>6 DEF ToSet
  <2> HIDE DEF f
  <2>7. BootInv'
    BY <1>1, <2>1, BootKept DEF LoaderInv, BootInv, BootTypes
  <2>8. HeapInv'
    <3>1. UNCHANGED <<identity, index_pages>>
      BY <1>1 DEF bootVars
    <3>2. HeapTypes'
      BY <2>3, <2>6, <1>1 DEF HeapTypes
    <3>3. HeapSound'
      BY <2>1, <2>3, <1>1 DEF HeapSound, Starting
    <3>4. FrameOwner'
      BY <2>3, <3>1, <1>1 DEF FrameOwner
    <3> QED BY <3>2, <3>3, <3>4 DEF HeapInv
  <2>9. user' \in Seq(Seq(Frames)) /\ Len(user') = Len(user) + 1 /\ user'[New] = f
        /\ \A p \in 1 .. Len(user) : user'[p] = user[p]
    BY <2>2, <2>6, <1>1, ProcFacts
  <2>10. ProcInv'
    <3>1. live' \subseteq 1 .. Len(user') /\ live' \subseteq Procs
      <4>1. live \subseteq 1 .. Len(user) /\ live \subseteq Procs
        BY <2>2 DEF ProcSound, ProcTypes
      <4>2. \A p \in 1 .. Len(user) : p \in 1 .. Len(user')
        BY <2>2, <2>9
      <4>3. New \in 1 .. Len(user')
        BY <2>2, <2>9
      <4> QED BY <4>1, <4>2, <4>3, <2>4, <1>1
    <3>2. ProcTypes'
      BY <3>1, <2>2, <2>9, <1>1 DEF ProcTypes
    <3>3. ProcSound'
      BY <3>1, <2>1, <2>2, <2>9, <1>1 DEF ProcSound
    <3> QED BY <3>2, <3>3 DEF ProcInv
  <2>11. DataSound'
    <3>1. end_page' \in 0 .. MAX_PAGES
      BY <2>3, <1>1 DEF HeapTypes
    <3>2. ASSUME NEW p \in 1 .. Len(image)
          PROVE  /\ Loaded(p)'
                 /\ p \in 1 .. Len(user) /\ user'[p] = user[p] =>
                      (Intact(p) /\ NodeLength(file[p]) # 0 => user[p] = UserFrames(heap[image[p]]))'
      BY <3>1, <1>1, LoadedKept
    <3>3. (Intact(New) /\ NodeLength(file[New]) # 0 => user[New] = UserFrames(heap[image[New]]))'
      BY <2>9, <1>1 DEF f, h, UserFrames, New
    <3>4. ASSUME NEW p \in 1 .. Len(user')
          PROVE  (Intact(p) /\ NodeLength(file[p]) # 0 => user[p] = UserFrames(heap[image[p]]))'
      <4>1. p = New \/ (p \in 1 .. Len(user) /\ p \in 1 .. Len(image))
        BY <2>2, <2>9
      <4>2. p = New => p = New'
        BY <1>1 DEF New
      <4>3. CASE p = New
        BY <3>3, <4>2, <4>3
      <4>4. CASE p \in 1 .. Len(user) /\ p \in 1 .. Len(image)
        BY <3>2, <4>4, <2>9
      <4> QED BY <4>1, <4>3, <4>4
    <3> QED BY <3>2, <3>4, <1>1 DEF LoaderInv, DataSound
  <2> QED BY <2>7, <2>8, <2>10, <2>11 DEF LoaderInv
<1>2. CASE Panic
  BY <1>2, PanicKeeps
<1> QED BY <1>1, <1>2 DEF MapImage, At

\* When the heap loses a hole at its end, what is left has its frames.
LEMMA LastHoleFound ==
    ASSUME NEW b, NEW e \in Nat, e = end_page
    PROVE  Min(LastHole(b)) \in 0 .. e
<1>1. e \in LastHole(b) /\ LastHole(b) \subseteq 0 .. e
  BY DEF LastHole
<1>2. LastHole(b) # {} /\ LastHole(b) \subseteq Nat
  BY <1>1
<1>3. Min(LastHole(b)) \in LastHole(b)
  BY <1>2, Lowest
<1> QED BY <1>1, <1>3

LEMMA KillKeeps == ASSUME LoaderInv, NEW p \in Procs, Kill(p) PROVE LoaderInv'
<1> DEFINE k == Min(LastHole(Kept(p)))
           pages == {v \in Unmapped(k) : heap[v] # None}
           b == Kept(p)
<1>1. /\ step = "user" /\ step' = "user" /\ live' = live \ {p}
      /\ UNCHANGED <<placement_address, identity, index_pages, writeable, mem, file, image, user>>
      /\ \/ /\ block' = b
            /\ UNCHANGED <<used, heap, end_page, aligned, halted>>
         \/ /\ halted' = (~aligned /\ pages # {})
            /\ used' = used \ {heap[v] : v \in pages}
            /\ heap' = NotPresent(pages)
            /\ end_page' = NewEnd(k)
            /\ aligned' = MinimalEnd(k)
            /\ block' = [v \in HeapPages |-> IF v < NewEnd(k) THEN b[v] ELSE Hole]
  BY DEF Kill, At, bootVars, heapVars
<1>2. ~Starting /\ ~Starting' /\ ~Making /\ ~Making' /\ step' \in Steps /\ ~Early /\ ~Early'
  BY <1>1 DEF Starting, Early, Making, Steps
<1>3. HeapTypes /\ HeapSound /\ FrameOwner /\ ProcTypes /\ ProcSound /\ BootTypes
  BY DEF LoaderInv, HeapInv, ProcInv, BootInv
<1>4. /\ end_page \in Nat /\ end_page <= MAX_PAGES /\ MAX_PAGES \in Nat /\ HEAP_MIN_PAGES \in Nat
      /\ HEAP_MIN_PAGES <= end_page /\ HeapPages = 0 .. MAX_PAGES - 1
  BY <1>2, <1>3, Sizes DEF HeapTypes, HeapSound, HeapPages
<1>5. /\ b \in [HeapPages -> {Hole} \cup Procs \X {"image", "proc", "dir", "table"}]
      /\ \A v \in HeapPages : b[v] # Hole => b[v] = block[v]
  BY <1>3 DEF Kept, HeapTypes
<1>6. k \in 0 .. end_page
  BY <1>4, LastHoleFound
<1> HIDE DEF k, b
\* In both cases the end is no higher, and below it the frames are the same.
<1>7. /\ end_page' \in 0 .. MAX_PAGES /\ end_page' <= end_page /\ end_page' >= HEAP_MIN_PAGES
      /\ aligned' \in BOOLEAN /\ halted' \in BOOLEAN
      /\ \A v \in HeapPages : v < end_page' => heap'[v] = heap[v]
      /\ \A v \in HeapPages : heap'[v] = heap[v] \/ heap'[v] = None
      /\ heap' \in [HeapPages -> Frames \cup {None}]
      /\ used' \subseteq used
      /\ \A v \in HeapPages : heap'[v] # None => heap'[v] \in used'
      /\ ToSet(identity) \cup ToSet(index_pages) \subseteq used' \cup {None}
      /\ block' \in [HeapPages -> {Hole} \cup Procs \X {"image", "proc", "dir", "table"}]
      /\ \A v \in HeapPages : block'[v] # Hole => block'[v] = block[v] /\ v < end_page'
  <2>1. CASE block' = b /\ UNCHANGED <<used, heap, end_page, aligned, halted>>
    <3>1. \A v \in HeapPages : heap[v] # None => heap[v] \in used
      BY <1>3 DEF FrameOwner
    <3>2. ToSet(identity) \cup ToSet(index_pages) \subseteq used \cup {None}
      BY <1>3 DEF FrameOwner
    <3>3. \A v \in HeapPages : block'[v] # Hole => block'[v] = block[v] /\ v < end_page
      BY <2>1, <1>3, <1>5 DEF HeapSound
    <3> QED BY <2>1, <3>1, <3>2, <3>3, <1>3, <1>4, <1>5 DEF HeapTypes, BootTypes
  <2>2. CASE /\ halted' = (~aligned /\ pages # {})
             /\ used' = used \ {heap[v] : v \in pages}
             /\ heap' = NotPresent(pages)
             /\ end_page' = NewEnd(k)
             /\ aligned' = MinimalEnd(k)
             /\ block' = [v \in HeapPages |-> IF v < NewEnd(k) THEN b[v] ELSE Hole]
    <3>1. /\ NewEnd(k) \in Nat /\ HEAP_MIN_PAGES <= NewEnd(k) /\ NewEnd(k) <= end_page
          /\ \A v \in Unmapped(k) : v \in HeapPages /\ ~(v < NewEnd(k))
      <4>1. CASE MinimalEnd(k)
        BY <4>1, <1>4, <1>6 DEF NewEnd, Unmapped
      <4>2. CASE ~MinimalEnd(k)
        <5>1. ~(k <= HEAP_MIN_PAGES)
          BY <4>2 DEF MinimalEnd
        <5>2. NewEnd(k) = k /\ Unmapped(k) = k .. end_page - 1
          BY <4>2 DEF NewEnd, Unmapped
        <5> QED BY <5>1, <5>2, <1>4, <1>6
      <4> QED BY <4>1, <4>2
    <3>2. \A v \in pages : v \in HeapPages /\ ~(v < NewEnd(k)) /\ heap[v] # None
      BY <3>1
    <3> HIDE DEF pages
    <3>3. \A v \in HeapPages : heap'[v] = IF v \in pages THEN None ELSE heap[v]
      BY <2>2 DEF NotPresent
    <3>4. heap' \in [HeapPages -> Frames \cup {None}]
      <4>1. \A v \in HeapPages : heap[v] \in Frames \cup {None}
        BY <1>3 DEF HeapTypes
      <4> QED BY <4>1, <2>2 DEF NotPresent
    <3>5. ASSUME NEW v \in HeapPages, heap'[v] # None PROVE heap'[v] \in used'
      <4>1. v \notin pages /\ heap'[v] = heap[v]
        BY <3>3, <3>5
      <4>2. heap[v] \in used /\ \A w \in pages : heap[w] # heap[v]
        BY <4>1, <3>2, <3>5, <1>3 DEF FrameOwner
      <4> QED BY <4>1, <4>2, <2>2
    <3>6. ToSet(identity) \cup ToSet(index_pages) \subseteq used' \cup {None}
      <4>1. \A w \in pages : heap[w] \notin ToSet(identity) \cup ToSet(index_pages)
        BY <3>2, <1>3 DEF FrameOwner
      <4> QED BY <4>1, <2>2, <1>3 DEF FrameOwner
    <3>7. /\ block' \in [HeapPages -> {Hole} \cup Procs \X {"image", "proc", "dir", "table"}]
          /\ \A v \in HeapPages : block'[v] # Hole => block'[v] = block[v] /\ v < end_page'
      BY <2>2, <1>5
    <3>8. aligned' \in BOOLEAN /\ halted' \in BOOLEAN
      BY <2>2 DEF MinimalEnd
    <3>9. \A v \in HeapPages : v < end_page' => heap'[v] = heap[v]
      BY <3>2, <3>3, <2>2
    <3>10. end_page' \in 0 .. MAX_PAGES /\ end_page' <= end_page /\ end_page' >= HEAP_MIN_PAGES
      BY <3>1, <2>2, <1>4
    <3> QED BY <3>3, <3>4, <3>5, <3>6, <3>7, <3>8, <3>9, <3>10, <2>2
  <2> QED BY <2>1, <2>2, <1>1
<1> HIDE DEF pages
<1>8. BootInv'
  BY <1>1, <1>2, <1>7, BootKept DEF bootVars
<1>9. HeapInv'
  <2>1. HeapTypes'
    BY <1>1, <1>3, <1>7 DEF HeapTypes
  <2>2. ASSUME NEW v \in 0 .. end_page' - 1 PROVE heap'[v] # None
    <3>1. v \in HeapPages /\ v < end_page' /\ v \in 0 .. end_page - 1
      <4>1. end_page' \in Nat /\ end_page' <= end_page /\ v \in Nat
        BY <1>7
      <4>2. v < end_page'
        <5>1. \A x \in Nat : \A y \in 0 .. x - 1 : y < x
          OBVIOUS
        <5> QED BY <5>1, <4>1
      <4>3. v < end_page /\ v < MAX_PAGES
        BY <4>1, <4>2, <1>4
      <4>4. v \in HeapPages
        BY <4>1, <4>3, <1>4
      <4>5. v \in 0 .. end_page - 1
        BY <4>1, <4>3, <1>4
      <4> QED BY <4>2, <4>4, <4>5
    <3> QED BY <3>1, <1>3, <1>7 DEF HeapSound
  <2>3. step' # "create_heap"
    BY <1>1
  <2>4. HeapSound'
    BY <2>2, <2>3, <1>2, <1>7 DEF HeapSound
  <2>5. FrameOwner'
    <3>1. ASSUME NEW v \in HeapPages, NEW w \in HeapPages, v # w, heap'[v] # None
          PROVE  heap'[v] # heap'[w]
      BY <3>1, <1>3, <1>7 DEF FrameOwner
    <3>2. ASSUME NEW v \in HeapPages PROVE heap'[v] \notin ToSet(identity) \cup ToSet(index_pages)
      <4>1. None \notin Frames
        BY Sizes DEF None, Frames
      <4>2. ToSet(identity) \subseteq Frames /\ ToSet(index_pages) \subseteq Frames
        BY <1>3 DEF BootTypes, ToSet
      <4> QED BY <4>1, <4>2, <1>3, <1>7 DEF FrameOwner
    <3>3. \A v \in HeapPages : heap'[v] \in used' \cup {None}
      BY <1>7
    <3> QED BY <3>1, <3>2, <3>3, <1>1, <1>7 DEF FrameOwner
  <2> QED BY <2>1, <2>4, <2>5 DEF HeapInv
<1>10. ProcInv'
  <2>1. ProcTypes'
    BY <1>1, <1>3 DEF ProcTypes
  <2>2. \A v \in HeapPages : block'[v] # Hole => block'[v][1] <= Len(file)
    BY <1>3, <1>7 DEF ProcSound
  <2>3. \A v \in HeapPages, q \in Procs : block'[v] = <<q, "image">> => q <= Len(image)
    <3>1. \A q \in Procs : <<q, "image">> # Hole
      BY DEF Hole
    <3> QED BY <3>1, <1>3, <1>7 DEF ProcSound
  <2>4. ProcSound'
    BY <2>2, <2>3, <1>1, <1>2, <1>3 DEF ProcSound
  <2> QED BY <2>1, <2>4 DEF ProcInv
<1>11. DataSound'
  <2>1. ASSUME NEW q \in 1 .. Len(image)
        PROVE  /\ Loaded(q)'
               /\ q \in 1 .. Len(user) /\ user'[q] = user[q] =>
                    (Intact(q) /\ NodeLength(file[q]) # 0 => user[q] = UserFrames(heap[image[q]]))'
    <3>1. ASSUME NEW v \in HeapPages, v < end_page', block'[v] = <<q, "image">>
          PROVE  v < end_page /\ block[v] = <<q, "image">> /\ heap'[v] = heap[v]
      <4>1. <<q, "image">> # Hole
        BY DEF Hole
      <4>2. v \in Nat /\ end_page' \in Nat
        BY <1>4, <1>7
      <4>3. block'[v] = block[v] /\ heap'[v] = heap[v]
        BY <4>1, <3>1, <1>7
      <4>4. v < end_page
        BY <4>2, <3>1, <1>4, <1>7
      <4> QED BY <4>3, <4>4, <3>1
    <3> QED BY <3>1, <1>1, <1>7, LoadedKept
  <2>2. Len(user) \in Nat /\ Len(image) \in Nat /\ Len(user) <= Len(image)
    BY ProcFacts
  <2>3. \A q \in 1 .. Len(user) : q \in 1 .. Len(image)
    BY <2>2
  <2> QED BY <2>1, <2>3, <1>1 DEF LoaderInv, DataSound
<1> QED BY <1>8, <1>9, <1>10, <1>11 DEF LoaderInv

\* A block that is asked for has a page at least, and the image's all of the file.
LEMMA WantedPages ==
    ASSUME LoaderInv, Allocating
    PROVE  /\ Wanted \in Nat /\ Wanted >= 1
           /\ step = "image" => \A w \in 0 .. NodeLength(file[New]) - 1 : w \div PAGE \in 0 .. Wanted - 1
<1>1. Making /\ step \in {"image", "proc", "dir", "table"}
  BY DEF Allocating, Making
<1>2. Len(file) \in 1 .. Len(file) /\ NodeLength(file[New]) \in Nat
  <2>1. Len(file) = Len(user) + 1 /\ Len(user) \in Nat /\ Len(file) \in Nat
    BY <1>1, ProcFacts DEF LoaderInv, ProcInv, ProcSound
  <2>2. Len(file) \in 1 .. Len(file)
    BY <2>1
  <2> QED BY <2>2, ProcFacts DEF New
<1> DEFINE l == NodeLength(file[New])
<1>3. /\ PagesOf(l) \in Nat /\ (l # 0 => PagesOf(l) >= 1)
      /\ \A w \in 0 .. l - 1 : w \div PAGE \in 0 .. PagesOf(l) - 1
  <2> HIDE DEF l
  <2> QED BY <1>2, PagesEnough DEF l
<1>4. CASE step = "image" /\ l # 0
  <2>1. Wanted = PagesOf(l)
    BY <1>4 DEF Wanted
  <2> QED BY <2>1, <1>3, <1>4
<1>5. CASE step = "image" /\ l = 0
  <2>1. Wanted = 1
    BY <1>5 DEF Wanted
  <2>2. \A w \in 0 .. l - 1 : FALSE
    BY <1>5
  <2> QED BY <2>1, <2>2
<1>6. CASE step # "image"
  BY <1>6 DEF Wanted, DIR_PAGES
<1> QED BY <1>4, <1>5, <1>6

LEMMA ExpandKeeps == ASSUME LoaderInv, Expand PROVE LoaderInv'
<1> DEFINE m == Wanted
           pages == end_page .. end_page + m - 1
           f == Taken(m)
<1>1. /\ Allocating /\ Enough(m) /\ end_page + m <= MAX_PAGES
      /\ heap' = [w \in HeapPages |-> IF w \in pages THEN f[w - end_page + 1] ELSE heap[w]]
      /\ used' = used \cup ToSet(f) /\ writeable' = writeable \ pages
      /\ end_page' = end_page + m
      /\ UNCHANGED <<step, placement_address, identity, index_pages, aligned, block, mem,
                     file, image, user, live, halted>>
  BY DEF Expand, ExpandedWriteable, bootVars, procVars
<1>2. ~Starting /\ ~Starting' /\ Making /\ Making' /\ ~Early /\ ~Early' /\ step # "create_heap" /\ step \in Steps
  BY <1>1 DEF Allocating, Starting, Early, Making, Steps
<1>3. m \in Nat /\ m >= 1
  BY <1>1, WantedPages
<1>4. HeapTypes /\ HeapSound /\ FrameOwner /\ ProcTypes /\ ProcSound /\ BootTypes
  BY DEF LoaderInv, HeapInv, ProcInv, BootInv
<1>5. /\ end_page \in Nat /\ end_page <= MAX_PAGES /\ MAX_PAGES \in Nat /\ HEAP_MIN_PAGES \in Nat
      /\ HEAP_MIN_PAGES <= end_page /\ HeapPages = 0 .. MAX_PAGES - 1
  BY <1>2, <1>4, Sizes DEF HeapTypes, HeapSound, HeapPages
<1>6. /\ f \in [1 .. m -> Frames \ used]
      /\ \A j, k \in 1 .. m : f[j] = f[k] => j = k
  <2> HIDE DEF m
  <2> QED BY <1>1, <1>3, TakenFrames
<1> HIDE DEF f, m
<1>7. \A w \in pages : w \in HeapPages /\ w - end_page + 1 \in 1 .. m
  BY <1>1, <1>3, <1>5
<1>8. /\ \A w \in pages : heap'[w] = f[w - end_page + 1] /\ heap'[w] \in Frames \ used /\ heap'[w] \in ToSet(f)
      /\ \A w \in HeapPages : w \notin pages => heap'[w] = heap[w]
  <2>1. \A k \in 1 .. m : f[k] \in Frames \ used /\ f[k] \in ToSet(f)
    BY <1>6 DEF ToSet
  <2> QED BY <2>1, <1>1, <1>7
<1>9. used' \subseteq Frames /\ None \notin Frames /\ used \subseteq used'
  <2>1. ToSet(f) \subseteq Frames
    BY <1>6 DEF ToSet
  <2>2. used' \subseteq Frames /\ used \subseteq used'
    BY <2>1, <1>1, <1>4 DEF HeapTypes
  <2>3. None \notin Frames
    BY Sizes DEF None, Frames
  <2> QED BY <2>2, <2>3
<1>10. \A v, w \in pages : v # w => heap'[v] # heap'[w]
  <2>1. ASSUME NEW v \in pages, NEW w \in pages, v # w PROVE v - end_page + 1 # w - end_page + 1
    BY <2>1, <1>5, <1>3
  <2> QED BY <2>1, <1>6, <1>7, <1>8
<1>11. \A v \in pages : v \notin 0 .. end_page - 1
  BY <1>3, <1>5
<1>12. end_page' \in 0 .. MAX_PAGES /\ end_page <= end_page' /\ end_page' \in Nat
  BY <1>1, <1>3, <1>5
<1>13. \A v \in 0 .. end_page' - 1 : v \in pages \/ v \in 0 .. end_page - 1
  BY <1>1, <1>3, <1>5
<1>14. \A v \in 0 .. end_page - 1 : v \in HeapPages
  BY <1>5
<1> HIDE DEF pages
<1>15. BootInv'
  BY <1>1, <1>2, <1>4, BootKept DEF bootVars, BootTypes
<1>16. HeapInv'
  <2>1. HeapTypes'
    <3>1. heap' \in [HeapPages -> Frames \cup {None}]
      <4>1. \A w \in HeapPages : heap'[w] \in Frames \cup {None}
        BY <1>4, <1>8 DEF HeapTypes
      <4> QED BY <4>1, <1>1
    <3>2. writeable' \subseteq HeapPages
      BY <1>1, <1>4 DEF HeapTypes
    <3> QED BY <3>1, <3>2, <1>1, <1>4, <1>9, <1>12 DEF HeapTypes
  <2>2. \A v \in 0 .. end_page' - 1 : heap'[v] # None
    <3>1. \A v \in pages : heap'[v] # None
      BY <1>8, <1>9
    <3>2. \A v \in 0 .. end_page - 1 : v \notin pages => heap'[v] # None
      BY <1>4, <1>8, <1>14 DEF HeapSound
    <3> QED BY <3>1, <3>2, <1>13
  <2>3. ASSUME NEW v \in HeapPages, block[v] # Hole PROVE v < end_page'
    <3>1. v < end_page /\ v \in Nat
      BY <2>3, <1>4, <1>5 DEF HeapSound
    <3> QED BY <3>1, <1>5, <1>12
  <2>4. end_page' >= HEAP_MIN_PAGES
    BY <1>5, <1>12
  <2>5. HeapSound'
    BY <2>2, <2>3, <2>4, <1>1, <1>2 DEF HeapSound
  <2>6. FrameOwner'
    <3>1. ASSUME NEW v \in HeapPages, NEW w \in HeapPages, v # w, heap'[v] # None
          PROVE  heap'[v] # heap'[w]
      <4>1. heap[v] \in used \cup {None} /\ heap[w] \in used \cup {None}
        BY <1>4 DEF FrameOwner
      <4>2. CASE v \in pages /\ w \in pages
        BY <4>2, <3>1, <1>10
      <4>3. CASE v \in pages /\ w \notin pages
        BY <4>1, <4>3, <1>8, <1>9
      <4>4. CASE v \notin pages /\ w \in pages
        BY <4>1, <4>4, <1>8, <1>9
      <4>5. CASE v \notin pages /\ w \notin pages
        BY <4>5, <3>1, <1>4, <1>8 DEF FrameOwner
      <4> QED BY <4>2, <4>3, <4>4, <4>5
    <3>2. ToSet(identity) \cup ToSet(index_pages) \subseteq used
      <4>1. ToSet(identity) \subseteq Frames /\ ToSet(index_pages) \subseteq Frames
        BY <1>4 DEF BootTypes, ToSet
      <4> QED BY <4>1, <1>4, <1>9 DEF FrameOwner
    <3>3. \A v \in HeapPages : heap'[v] \notin ToSet(identity) \cup ToSet(index_pages)
      BY <3>2, <1>4, <1>8 DEF FrameOwner
    <3>4. \A v \in HeapPages : heap'[v] \in used' \cup {None}
      <4>1. \A v \in HeapPages : heap[v] \in used' \cup {None}
        BY <1>4, <1>9 DEF FrameOwner
      <4>2. \A v \in pages : heap'[v] \in used'
        BY <1>1, <1>8
      <4> QED BY <4>1, <4>2, <1>8
    <3> QED BY <3>1, <3>2, <3>3, <3>4, <1>1, <1>9 DEF FrameOwner
  <2> QED BY <2>1, <2>5, <2>6 DEF HeapInv
<1>17. ProcInv'
  <2>1. ProcTypes'
    BY <1>1, <1>4 DEF ProcTypes
  <2>2. step # "image" => image[Len(file)] < end_page'
    <3>1. step # "image" => image[Len(file)] < end_page /\ image[Len(file)] \in HeapPages
      <4>1. Len(file) = Len(user) + 1 /\ Len(user) \in Nat /\ (step # "image" => Len(image) = Len(file))
        BY <1>2, <1>4, ProcFacts DEF ProcSound
      <4>2. step # "image" => Len(file) \in 1 .. Len(image)
        BY <4>1
      <4> QED BY <4>2, <1>2, <1>4, ProcFacts DEF ProcSound
    <3>2. \A x \in HeapPages : x \in Nat
      BY <1>5
    <3> QED BY <3>1, <3>2, <1>5, <1>12
  <2>3. ProcSound'
    BY <2>2, <1>1, <1>2, <1>4 DEF ProcSound
  <2> QED BY <2>1, <2>3 DEF ProcInv
<1>18. DataSound'
  <2>1. ASSUME NEW q \in 1 .. Len(image)
        PROVE  /\ Loaded(q)'
               /\ q \in 1 .. Len(user) /\ user'[q] = user[q] =>
                    (Intact(q) /\ NodeLength(file[q]) # 0 => user[q] = UserFrames(heap[image[q]]))'
    <3>1. ASSUME NEW v \in HeapPages, v < end_page', block'[v] = <<q, "image">>
          PROVE  v < end_page /\ block[v] = <<q, "image">> /\ heap'[v] = heap[v]
      <4>1. <<q, "image">> # Hole
        BY DEF Hole
      <4>2. block[v] = <<q, "image">> /\ v < end_page
        BY <4>1, <3>1, <1>1, <1>4 DEF HeapSound
      <4>3. v \notin pages
        <5>1. v \in 0 .. end_page - 1
          BY <4>2, <1>5
        <5> QED BY <5>1, <1>11
      <4> QED BY <4>2, <4>3, <1>8
    <3> QED BY <3>1, <1>1, <1>12, LoadedKept
  <2>2. Len(user) \in Nat /\ Len(image) \in Nat /\ Len(user) <= Len(image)
    BY ProcFacts
  <2>3. \A q \in 1 .. Len(user) : q \in 1 .. Len(image)
    BY <2>2
  <2> QED BY <2>1, <2>3, <1>1 DEF LoaderInv, DataSound
<1> QED BY <1>15, <1>16, <1>17, <1>18 DEF LoaderInv

\* A hole that is long enough has room for the whole block.
LEMMA CandidateRoom ==
    ASSUME LoaderInv, Allocating, NEW v \in Candidates
    PROVE  /\ v \in HeapPages /\ v < end_page
           /\ \A w \in v .. v + Wanted - 1 : w \in HeapPages /\ w < end_page /\ block[w] = Hole
<1>1. /\ end_page \in Nat /\ end_page <= MAX_PAGES /\ MAX_PAGES \in Nat /\ HeapPages = 0 .. MAX_PAGES - 1
  BY Sizes DEF LoaderInv, HeapInv, HeapTypes, HeapPages
<1>2. Wanted \in Nat /\ Wanted >= 1
  BY WantedPages
<1>3. v \in 0 .. end_page - 1 /\ HoleLength(v) >= Wanted
  BY DEF Candidates, Fitting
<1> DEFINE T == {w \in v .. end_page : ~InHole(w)}
           e == Min(T)
<1>4. end_page \in T
  <2>1. end_page \notin 0 .. end_page - 1 /\ end_page \in v .. end_page
    BY <1>1, <1>3
  <2> QED BY <2>1 DEF InHole
<1>5. e \in T /\ \A y \in T : e <= y
  <2>1. T # {} /\ T \subseteq Nat
    BY <1>3, <1>4
  <2> HIDE DEF T
  <2> QED BY <2>1, Lowest
<1>6. e \in v .. end_page /\ HoleLength(v) = e - v
  BY <1>5 DEF HoleLength
<1> HIDE DEF e
<1>7. v + Wanted <= e /\ e \in Nat /\ e <= end_page /\ v \in Nat
  BY <1>1, <1>2, <1>3, <1>6
<1>8. ASSUME NEW w \in v .. v + Wanted - 1 PROVE w \in HeapPages /\ w < end_page /\ block[w] = Hole
  <2>1. w \in Nat /\ w < e /\ w \in v .. end_page
    BY <1>1, <1>2, <1>7
  <2>2. w \notin T
    <3> HIDE DEF T
    <3>1. ~(e <= w)
      BY <2>1, <1>7
    <3> QED BY <3>1, <1>5
  <2>3. InHole(w)
    BY <2>1, <2>2
  <2>4. w < end_page /\ w \in HeapPages
    BY <2>1, <1>1, <1>7
  <2> QED BY <2>3, <2>4 DEF InHole
<1>9. v \in HeapPages /\ v < end_page
  BY <1>1, <1>3
<1> QED BY <1>8, <1>9

\* Where a word of an image that is whole lies.
LEMMA ImagePlace ==
    ASSUME LoaderInv, NEW p \in 1 .. Len(image), Intact(p), NEW w \in 0 .. NodeLength(file[p]) - 1
    PROVE  /\ image[p] + w \div PAGE \in HeapPages
           /\ block[image[p] + w \div PAGE] = <<p, "image">>
           /\ heap[image[p] + w \div PAGE] \in Frames /\ heap[image[p]] \in Frames
           /\ heap[image[p] + w \div PAGE] = heap[image[p]] + w \div PAGE
           /\ (w % PAGE) \in 0 .. PAGE - 1
           /\ heap[image[p]] * PAGE + w = heap[image[p] + w \div PAGE] * PAGE + (w % PAGE)
<1> DEFINE l == NodeLength(file[p])
           i == w \div PAGE
           s == w % PAGE
           v == image[p]
           h == heap[v]
<1>1. /\ l \in Nat /\ v \in HeapPages /\ PAGE \in Nat \ {0} /\ MAX_PAGES \in Nat /\ HeapPages = 0 .. MAX_PAGES - 1
      /\ end_page \in 0 .. MAX_PAGES /\ heap \in [HeapPages -> Frames \cup {None}] /\ None \notin Frames
  <2>1. Len(image) \in Nat /\ Len(file) \in Nat /\ Len(image) <= Len(file)
    BY ProcFacts
  <2>2. p \in 1 .. Len(file)
    BY <2>1
  <2>3. l \in Nat /\ v \in HeapPages
    BY <2>2, ProcFacts
  <2>4. end_page \in 0 .. MAX_PAGES /\ heap \in [HeapPages -> Frames \cup {None}]
    BY DEF LoaderInv, HeapInv, HeapTypes
  <2>5. None \notin Frames
    BY Sizes DEF None, Frames
  <2> QED BY <2>3, <2>4, <2>5, Sizes DEF HeapPages
<1>0. w \in 0 .. l - 1 /\ w \in Int
  <2>1. \A x \in Nat : 0 .. x - 1 \subseteq Int
    OBVIOUS
  <2> QED BY <1>1, <2>1
<1>2. w \in Int /\ i \in Int /\ s \in 0 .. PAGE - 1 /\ w = i * PAGE + s
  BY <1>0, <1>1, DivMod
<1>3. PagesOf(l) \in Nat /\ i \in 0 .. PagesOf(l) - 1
  <2> HIDE DEF l
  <2> QED BY <1>0, <1>1, PagesEnough
<1>4. /\ \A j \in 0 .. PagesOf(l) - 1 :
            v + j < end_page /\ block[v + j] = <<p, "image">> /\ heap[v + j] = h + j
  BY DEF Intact
<1> HIDE DEF l, i, s, v
<1>5. \A j \in 0 .. PagesOf(l) - 1 : v + j \in 0 .. end_page - 1 /\ v + j \in HeapPages
  <2> TAKE j \in 0 .. PagesOf(l) - 1
  <2>1. v + j < end_page /\ j \in Nat /\ v \in Nat /\ end_page \in Nat /\ end_page <= MAX_PAGES
    BY <1>1, <1>3, <1>4
  <2> QED BY <2>1, <1>1
<1>6. \A j \in 0 .. PagesOf(l) - 1 : heap[v + j] \in Frames
  BY <1>1, <1>5 DEF LoaderInv, HeapInv, HeapSound
<1>7. h \in Frames
  <2>1. 0 \in 0 .. PagesOf(l) - 1 /\ v + 0 = v
    BY <1>1, <1>3
  <2> QED BY <2>1, <1>6
<1>8. heap[v + i] = h + i /\ h \in Nat
  BY <1>3, <1>4, <1>7, Sizes DEF Frames
<1> HIDE DEF h
<1>9. h * PAGE + w = (h + i) * PAGE + s
  <2>1. (h + i) * PAGE = h * PAGE + i * PAGE /\ h * PAGE \in Int /\ i * PAGE \in Int
    BY <1>1, <1>2, <1>8
  <2> QED BY <2>1, <1>2
<1>10. /\ v + i \in HeapPages /\ block[v + i] = <<p, "image">>
       /\ heap[v + i] \in Frames /\ h \in Frames /\ heap[v + i] = h + i
       /\ s \in 0 .. PAGE - 1 /\ h * PAGE + w = heap[v + i] * PAGE + s
  BY <1>2, <1>3, <1>4, <1>5, <1>6, <1>7, <1>8, <1>9
<1>11. v = image[p] /\ i = w \div PAGE /\ s = w % PAGE /\ h = heap[image[p]]
  BY DEF v, i, s, h
<1> QED BY <1>10, <1>11

\* The words of a frame are its own, and all are in the memory.
LEMMA FrameWords ==
    ASSUME NEW f \in Frames, NEW r \in 0 .. PAGE - 1
    PROVE  /\ f * PAGE + r \in 0 .. FRAMES * PAGE - 1
           /\ (f * PAGE + r) \div PAGE = f /\ (f * PAGE + r) % PAGE = r
<1>1. f \in Nat /\ f <= FRAMES - 1 /\ FRAMES \in Nat /\ PAGE \in Nat \ {0} /\ f \in Int
  BY Sizes DEF Frames
<1>2. (f * PAGE + r) \div PAGE = f /\ (f * PAGE + r) % PAGE = r
  BY <1>1, DivModUnique
<1> DEFINE A == f * PAGE
           B == (f + 1) * PAGE
           F == FRAMES * PAGE
<1>3. A \in Nat /\ B = A + PAGE /\ F \in Int /\ B <= F
  <2>1. f + 1 \in Int /\ FRAMES \in Int /\ f + 1 <= FRAMES
    BY <1>1
  <2>2. (f + 1 <= FRAMES) <=> B <= F
    BY <2>1, <1>1, Multiples
  <2> QED BY <2>1, <2>2, <1>1
<1>4. A + r \in 0 .. F - 1
  <2> HIDE DEF A, B, F
  <2> QED BY <1>1, <1>3
<1> QED BY <1>2, <1>4

\* The ram disk lies in frames of the kernel.
LEMMA RamDiskFrames ==
    ASSUME LoaderInv, ~Starting, NEW a \in LOCATION .. RdEnd - 1
    PROVE  a \in 0 .. FRAMES * PAGE - 1 /\ \A v \in HeapPages : heap[v] # a \div PAGE
<1> DEFINE n == Len(identity)
           i == a \div PAGE
           s == a % PAGE
           I == i * PAGE
           L == n * PAGE
<1>1. /\ LOCATION \in Nat /\ RdEnd \in Nat /\ PAGE \in Nat \ {0} /\ n \in Nat /\ a \in Int
      /\ identity \in Seq(Frames)
  BY Sizes DEF LoaderInv, BootInv, BootTypes
<1>2. i \in Int /\ s \in 0 .. PAGE - 1 /\ a = I + s /\ I \in Int
  <2>1. i \in Int /\ s \in 0 .. PAGE - 1 /\ a = i * PAGE + s
    BY <1>1, DivMod
  <2> HIDE DEF i
  <2> QED BY <2>1, <1>1
<1>3. RdEnd <= L
  <2>1. step = "user" \/ Making
    BY DEF LoaderInv, BootInv, BootTypes, Steps, Starting, Early, Making
  <2> QED BY <2>1 DEF LoaderInv, BootInv, BootSound
<1> HIDE DEF n, i, s
<1>4. i < n /\ 0 - 1 < i
  <2>1. L \in Int /\ (0 - 1) * PAGE = 0 - PAGE
    BY <1>1
  <2>2. I < L /\ (0 - 1) * PAGE < I
    <3> HIDE DEF I, L
    <3> QED BY <2>1, <1>1, <1>2, <1>3
  <2>3. (i < n <=> i * PAGE < n * PAGE) /\ (0 - 1 < i <=> (0 - 1) * PAGE < i * PAGE)
    <3>1. i \in Int /\ n \in Int /\ 0 - 1 \in Int
      BY <1>1, <1>2
    <3> QED BY <3>1, <1>1, Multiples
  <2> QED BY <2>2, <2>3
<1>5. i + 1 \in 1 .. n /\ (i + 1) - 1 = i
  BY <1>1, <1>2, <1>4
<1>6. DOMAIN identity = 1 .. n
  BY <1>1 DEF n
<1>7. identity[i + 1] = i /\ i \in ToSet(identity) /\ i \in Frames
  <2>1. identity[i + 1] = i
    BY <1>5, <1>6 DEF LoaderInv, BootInv, IdentityMapped
  <2>2. identity[i + 1] \in Frames
    BY <1>1, <1>5, <1>6
  <2> QED BY <2>1, <2>2, <1>5, <1>6 DEF ToSet
<1>8. \A v \in HeapPages : heap[v] # i
  BY <1>7 DEF LoaderInv, HeapInv, FrameOwner
<1>9. a \in 0 .. FRAMES * PAGE - 1
  BY <1>2, <1>7, FrameWords
<1> QED BY <1>8, <1>9 DEF i

\* What rd_read copies into the pages of a new block goes where no other word
\* goes, and the rest of the memory is left alone.
LEMMA ReadPlace ==
    ASSUME LoaderInv, Allocating, step = "image", NEW v \in Candidates,
           NEW w \in 0 .. NodeLength(file[New]) - 1
    PROVE  /\ w \div PAGE \in 0 .. Wanted - 1 /\ v + w \div PAGE \in v .. v + Wanted - 1
           /\ v + w \div PAGE \in HeapPages /\ heap[v + w \div PAGE] \in Frames
           /\ Physical(v, w) \in 0 .. FRAMES * PAGE - 1
           /\ Physical(v, w) \div PAGE = heap[v + w \div PAGE]
           /\ Physical(v, w) % PAGE = w % PAGE
           /\ w = (w \div PAGE) * PAGE + (w % PAGE) /\ w \div PAGE \in Int
<1> DEFINE i == w \div PAGE
           r == w % PAGE
           P == Physical(v, w)
<1>1. Wanted \in Nat /\ i \in 0 .. Wanted - 1
  BY WantedPages
<1>2. v \in Nat /\ PAGE \in Nat \ {0} /\ NodeLength(file[New]) \in Nat
  <2>1. v \in HeapPages
    BY CandidateRoom
  <2>2. Len(file) = Len(user) + 1 /\ Len(user) \in Nat
    BY ProcFacts DEF LoaderInv, ProcInv, ProcSound, Making
  <2>3. New \in 1 .. Len(file)
    BY <2>2 DEF New
  <2> QED BY <2>1, <2>3, ProcFacts, Sizes DEF HeapPages
<1>3. w \in Int
  <2>1. \A x \in Nat : 0 .. x - 1 \subseteq Int
    OBVIOUS
  <2> QED BY <1>2, <2>1
<1>4. i \in Int /\ r \in 0 .. PAGE - 1 /\ w = i * PAGE + r
  BY <1>2, <1>3, DivMod
<1>5. P = heap[v + i] * PAGE + r
  BY DEF Physical
<1> HIDE DEF i, r, P
<1>6. v + i \in v .. v + Wanted - 1
  BY <1>1, <1>2
<1>7. v + i \in HeapPages /\ v + i < end_page
  BY <1>6, CandidateRoom
<1>8. heap[v + i] \in Frames
  <2>1. v + i \in 0 .. end_page - 1
    BY <1>7 DEF LoaderInv, HeapInv, HeapTypes, HeapPages
  <2> QED BY <2>1, <1>7 DEF LoaderInv, HeapInv, HeapTypes, HeapSound
<1>9. P \in 0 .. FRAMES * PAGE - 1 /\ P \div PAGE = heap[v + i] /\ P % PAGE = r
  BY <1>4, <1>5, <1>8, FrameWords
<1>10. i \in 0 .. Wanted - 1 /\ v + i \in v .. v + Wanted - 1 /\ v + i \in HeapPages /\ heap[v + i] \in Frames
       /\ P \in 0 .. FRAMES * PAGE - 1 /\ P \div PAGE = heap[v + i] /\ P % PAGE = r
       /\ w = i * PAGE + r /\ i \in Int
  BY <1>1, <1>4, <1>6, <1>7, <1>8, <1>9
<1>11. i = w \div PAGE /\ r = w % PAGE /\ P = Physical(v, w)
  BY DEF i, r, P
<1> QED BY <1>10, <1>11

LEMMA ReadWords ==
    ASSUME LoaderInv, Allocating, step = "image", NEW v \in Candidates
    PROVE  /\ ImageRead(mem, v) \in [0 .. FRAMES * PAGE - 1 -> FileWords]
           /\ \A a \in 0 .. FRAMES * PAGE - 1 :
                (\A w \in v .. v + Wanted - 1 : heap[w] # a \div PAGE) => ImageRead(mem, v)[a] = mem[a]
           /\ \A w \in 0 .. NodeLength(file[New]) - 1 :
                ImageRead(mem, v)[Physical(v, w)] = Word(file[New], w)
<1> DEFINE f == file[New]
           l == NodeLength(f)
           W == 0 .. l - 1
           A == 0 .. FRAMES * PAGE - 1
           loaded == {Physical(v, w) : w \in W}
           from(a) == CHOOSE w \in W : Physical(v, w) = a
           M == ImageRead(mem, v)
<1>1. ~Starting /\ Making
  BY DEF Starting, Early, Making
<1>2. mem \in [A -> FileWords] /\ \A a \in LOCATION .. RdEnd - 1 : mem[a] = Image[a - LOCATION + 1]
  BY DEF LoaderInv, DataSound
<1>3. New \in 1 .. Len(file) /\ f \in Inodes \cup {Dev} /\ l \in Nat
  <2>1. Len(file) = Len(user) + 1 /\ Len(user) \in Nat
    BY <1>1, ProcFacts DEF LoaderInv, ProcInv, ProcSound
  <2>2. New \in 1 .. Len(file)
    BY <2>1 DEF New
  <2> QED BY <2>2, ProcFacts
<1>4. ReadSize(f, 0, l) = l
  <2> DEFINE n == NodeLength(f)
  <2>1. n = l /\ ~(0 > l) /\ ~(0 + l > l)
    BY <1>3
  <2>2. f = Dev => l = 0
    BY DEF NodeLength
  <2> HIDE DEF l
  <2> QED BY <2>1, <2>2 DEF ReadSize
<1>5. M = [a \in A |-> IF a \in loaded THEN ReadWord(mem, f, LOCATION, 0, from(a)) ELSE mem[a]]
  <2>1. DOMAIN mem = A
    BY <1>2
  <2> HIDE DEF A
  <2> QED BY <1>4, <2>1 DEF ImageRead
<1>6. ASSUME NEW w \in W PROVE Physical(v, w) \in A /\ from(Physical(v, w)) = w
  <2>1. ASSUME NEW x \in W, Physical(v, x) = Physical(v, w) PROVE x = w
    <3> DEFINE i == w \div PAGE
               r == w % PAGE
               j == x \div PAGE
               s == x % PAGE
    <3>1. /\ i \in 0 .. Wanted - 1 /\ v + i \in HeapPages /\ heap[v + i] \in Frames /\ w = i * PAGE + r
          /\ Physical(v, w) \div PAGE = heap[v + i] /\ Physical(v, w) % PAGE = r /\ i \in Int
      BY ReadPlace
    <3>2. /\ j \in 0 .. Wanted - 1 /\ v + j \in HeapPages /\ heap[v + j] \in Frames /\ x = j * PAGE + s
          /\ Physical(v, x) \div PAGE = heap[v + j] /\ Physical(v, x) % PAGE = s /\ j \in Int
      BY ReadPlace
    <3> HIDE DEF i, r, j, s
    <3>3. heap[v + i] = heap[v + j] /\ r = s
      BY <3>1, <3>2, <2>1
    <3>4. v + i = v + j
      <4>1. heap[v + i] # None
        BY <3>1, Sizes DEF Frames, None
      <4> QED BY <3>1, <3>2, <3>3, <4>1 DEF LoaderInv, HeapInv, FrameOwner
    <3>5. i = j
      <4>1. v \in Nat
        BY CandidateRoom, Sizes DEF HeapPages
      <4> QED BY <4>1, <3>1, <3>2, <3>4
    <3> QED BY <3>1, <3>2, <3>3, <3>5
  <2>2. Physical(v, w) \in A
    BY ReadPlace
  <2> QED BY <2>1, <2>2
<1>7. ASSUME NEW w \in W PROVE ReadWord(mem, f, LOCATION, 0, w) = Word(f, w) /\ Word(f, w) \in FileWords
  <2>1. f \in Inodes /\ Files[f].length = l
    <3>1. f # Dev
      <4>1. f = Dev => l = 0
        BY DEF NodeLength
      <4>2. l # 0
        <5>1. \A x \in 0 .. 0 - 1 : FALSE
          OBVIOUS
        <5> QED BY <5>1
      <4> QED BY <4>1, <4>2
    <3> QED BY <3>1, <1>3 DEF NodeLength
  <2> DEFINE o == Offset(f)
             a == o + LOCATION + 0 + w
  <2>2. /\ o \in Nat /\ o + l <= Len(Image) /\ Len(Image) \in Nat /\ Image[o + w + 1] = Word(f, w)
    BY <2>1, ImageWords
  <2>3. LOCATION \in Nat /\ RdEnd = LOCATION + Len(Image)
    BY Sizes DEF RdEnd
  <2>4. w \in Nat /\ w < l
    <3> HIDE DEF l
    <3> QED BY <1>3
  <2> HIDE DEF o, l
  <2>5. a \in LOCATION .. RdEnd - 1 /\ a - LOCATION + 1 = o + w + 1
    BY <1>3, <2>2, <2>3, <2>4
  <2>6. mem[a] = Word(f, w)
    BY <1>2, <2>2, <2>5
  <2>7. Word(f, w) \in FileWords
    BY <2>1 DEF FileWords, l
  <2> QED BY <2>6, <2>7 DEF ReadWord, HeaderOffset, o
<1> HIDE DEF W
<1>8. \A a \in A : a \in loaded => from(a) \in W /\ Physical(v, from(a)) = a
  BY <1>6
<1> HIDE DEF loaded, from
<1>9. ASSUME NEW a \in A PROVE M[a] \in FileWords
  BY <1>2, <1>5, <1>7, <1>8
<1>10. M \in [A -> FileWords]
  <2>1. M = [a \in A |-> M[a]]
    BY <1>5
  <2> HIDE DEF M
  <2> QED BY <2>1, <1>9
<1>11. ASSUME NEW a \in A, \A w \in v .. v + Wanted - 1 : heap[w] # a \div PAGE PROVE M[a] = mem[a]
  <2>1. a \notin loaded
    <3>1. \A w \in W : Physical(v, w) \div PAGE = heap[v + w \div PAGE] /\ v + w \div PAGE \in v .. v + Wanted - 1
      BY ReadPlace DEF W
    <3> QED BY <3>1, <1>11 DEF loaded
  <2> QED BY <2>1, <1>5
<1>12. ASSUME NEW w \in W PROVE M[Physical(v, w)] = Word(f, w)
  <2>1. Physical(v, w) \in loaded
    BY DEF loaded
  <2> QED BY <2>1, <1>5, <1>6, <1>7
<1> HIDE DEF M
<1> QED BY <1>10, <1>11, <1>12 DEF M, W

LEMMA AllocateKeeps == ASSUME LoaderInv, NEW v \in HeapPages, Allocate(v) PROVE LoaderInv'
<1> DEFINE pages == v .. v + Wanted - 1
           frames == {heap[w] : w \in pages}
           A == 0 .. FRAMES * PAGE - 1
           top == Len(file)
<1>1. /\ Allocating /\ v \in Candidates /\ step' = NextStep
      /\ block' = [w \in HeapPages |-> IF w \in pages THEN <<New, step>> ELSE block[w]]
      /\ mem' = IF step = "image" THEN ImageRead(mem, v) ELSE Cleared(mem, frames)
      /\ image' = IF step = "image" THEN Append(image, v) ELSE image
      /\ UNCHANGED <<placement_address, identity, index_pages, used, heap, writeable, end_page, aligned,
                     file, user, live, halted>>
  BY DEF Allocate, bootVars, heapVars
<1>2. /\ step \in {"image", "proc", "dir", "table"} /\ step' \in {"proc", "dir", "table", "map"}
      /\ ~Starting /\ ~Starting' /\ Making /\ Making' /\ ~Early /\ ~Early'
      /\ step # "create_heap" /\ step' # "create_heap" /\ step' # "image" /\ step' \in Steps
  BY <1>1 DEF Allocating, NextStep, Starting, Early, Making, Steps
<1>3. HeapTypes /\ HeapSound /\ FrameOwner /\ ProcTypes /\ ProcSound /\ BootTypes /\ DataSound
  BY DEF LoaderInv, HeapInv, ProcInv, BootInv
<1>4. /\ Len(user) \in Nat /\ top = Len(user) + 1 /\ top \in Nat /\ top <= MAX_PROCS /\ New = top
      /\ Len(image) = (IF step = "image" THEN Len(user) ELSE top)
      /\ top \in Procs
  <2>1. Len(user) \in Nat /\ top = Len(user) + 1 /\ top \in Nat /\ top <= MAX_PROCS /\ New = top
    BY <1>2, <1>3, ProcFacts DEF ProcSound, New
  <2>2. top \in Procs
    BY <2>1, Sizes DEF Procs
  <2> QED BY <2>1, <2>2, <1>2, <1>3 DEF ProcSound
<1>5. /\ v < end_page
      /\ \A w \in pages : w \in HeapPages /\ w < end_page /\ block[w] = Hole
  BY <1>1, CandidateRoom
<1>6. /\ image' \in Seq(HeapPages) /\ Len(image') = top
      /\ \A p \in 1 .. Len(image) : image'[p] = image[p] /\ p \in 1 .. top
      /\ step = "image" => image'[top] = v
      /\ step # "image" => image' = image
  <2>1. CASE step = "image"
    BY <2>1, <1>1, <1>3, <1>4 DEF ProcTypes
  <2>2. CASE step # "image"
    BY <2>2, <1>1, <1>3, <1>4 DEF ProcTypes
  <2> QED BY <2>1, <2>2
<1> HIDE DEF pages
<1>7. /\ \A w \in HeapPages : block'[w] = IF w \in pages THEN <<top, step>> ELSE block[w]
      /\ block' \in [HeapPages -> {Hole} \cup Procs \X {"image", "proc", "dir", "table"}]
  <2>1. \A w \in HeapPages : block[w] \in {Hole} \cup Procs \X {"image", "proc", "dir", "table"}
    BY <1>3 DEF HeapTypes
  <2>2. <<top, step>> \in Procs \X {"image", "proc", "dir", "table"}
    BY <1>2, <1>4
  <2> QED BY <2>1, <2>2, <1>1, <1>4
<1>8. /\ mem' \in [A -> FileWords]
      /\ \A a \in A : a \div PAGE \notin frames => mem'[a] = mem[a]
      /\ step = "image" => \A w \in 0 .. NodeLength(file[top]) - 1 : mem'[Physical(v, w)] = Word(file[top], w)
  <2>1. CASE step = "image"
    <3>1. /\ ImageRead(mem, v) \in [A -> FileWords]
          /\ \A a \in A : (\A w \in pages : heap[w] # a \div PAGE) => ImageRead(mem, v)[a] = mem[a]
          /\ \A w \in 0 .. NodeLength(file[top]) - 1 : ImageRead(mem, v)[Physical(v, w)] = Word(file[top], w)
      BY <2>1, <1>1, <1>4, ReadWords DEF pages
    <3> HIDE DEF A
    <3> QED BY <3>1, <2>1, <1>1
  <2>2. CASE step # "image"
    <3>1. mem \in [A -> FileWords] /\ Other \in FileWords
      BY <1>3 DEF DataSound, FileWords
    <3> HIDE DEF A, frames
    <3> QED BY <3>1, <2>2, <1>1 DEF Cleared
  <2> QED BY <2>1, <2>2
<1>9. BootInv'
  BY <1>1, <1>2, <1>3, BootKept DEF bootVars, BootTypes
<1>10. HeapInv'
  <2>1. HeapTypes'
    BY <1>1, <1>3, <1>7 DEF HeapTypes
  <2>2. \A w \in HeapPages : block'[w] # Hole => w < end_page
    BY <1>3, <1>5, <1>7 DEF HeapSound
  <2>3. HeapSound'
    BY <2>2, <1>1, <1>2, <1>3 DEF HeapSound
  <2>4. FrameOwner'
    BY <1>1, <1>3 DEF FrameOwner
  <2> QED BY <2>1, <2>3, <2>4 DEF HeapInv
<1>11. ProcInv'
  <2>1. ProcTypes'
    BY <1>1, <1>3, <1>6 DEF ProcTypes
  <2>2. image'[top] < end_page
    BY <1>2, <1>3, <1>5, <1>6 DEF ProcSound
  <2>3. \A w \in HeapPages : block'[w] # Hole => block'[w][1] <= top
    <3>1. <<top, step>>[1] <= top
      BY <1>4
    <3> QED BY <3>1, <1>3, <1>7 DEF ProcSound
  <2>4. ASSUME NEW w \in HeapPages, NEW q \in Procs, block'[w] = <<q, "image">> PROVE q <= top
    <3>1. CASE w \in pages
      <4>1. <<q, "image">> = <<top, step>>
        BY <3>1, <2>4, <1>7
      <4>2. q = top
        BY <4>1
      <4> QED BY <4>2, <1>4
    <3>2. CASE w \notin pages
      <4>1. q <= Len(image) /\ q \in Nat
        BY <3>2, <2>4, <1>3, <1>7 DEF ProcSound, Procs
      <4> QED BY <4>1, <1>4
    <3> QED BY <3>1, <3>2
  <2>5. ProcSound'
    BY <2>2, <2>3, <2>4, <1>1, <1>2, <1>3, <1>4, <1>6 DEF ProcSound
  <2> QED BY <2>1, <2>5 DEF ProcInv
<1>12. \A a \in LOCATION .. RdEnd - 1 : mem'[a] = Image[a - LOCATION + 1]
  <2> TAKE a \in LOCATION .. RdEnd - 1
  <2>1. a \in A /\ a \div PAGE \notin frames
    BY <1>2, <1>5, RamDiskFrames
  <2>2. mem[a] = Image[a - LOCATION + 1]
    BY <1>3 DEF DataSound
  <2> HIDE DEF A, frames
  <2> QED BY <2>1, <2>2, <1>8
<1>13. ASSUME NEW p \in 1 .. Len(image)
       PROVE  /\ Loaded(p)'
              /\ p \in 1 .. Len(user) /\ user'[p] = user[p] =>
                   (Intact(p) /\ NodeLength(file[p]) # 0 => user[p] = UserFrames(heap[image[p]]))'
  <2>1. ASSUME NEW w \in HeapPages, w < end_page', block'[w] = <<p, "image">>
        PROVE  w < end_page /\ block[w] = <<p, "image">> /\ heap'[w] = heap[w]
    <3>1. w \notin pages
      <4>1. ~(p = top /\ step = "image")
        BY <1>4
      <4>2. <<top, step>> # <<p, "image">>
        BY <4>1
      <4> QED BY <4>2, <2>1, <1>7
    <3> QED BY <3>1, <2>1, <1>1, <1>7
  <2>2. ASSUME Intact(p), NEW w \in 0 .. NodeLength(file[p]) - 1
        PROVE  mem'[heap[image[p]] * PAGE + w] = mem[heap[image[p]] * PAGE + w]
    <3> DEFINE x == image[p] + w \div PAGE
               r == w % PAGE
               a == heap[image[p]] * PAGE + w
    <3>1. x \in HeapPages /\ block[x] = <<p, "image">> /\ heap[x] \in Frames /\ r \in 0 .. PAGE - 1
          /\ a = heap[x] * PAGE + r
      BY <2>2, ImagePlace
    <3> HIDE DEF x, r, a
    <3>2. a \in A /\ a \div PAGE = heap[x]
      BY <3>1, FrameWords
    <3>3. x \notin pages
      <4>1. <<p, "image">> # Hole
        BY DEF Hole
      <4> QED BY <4>1, <3>1, <1>5
    <3>4. heap[x] # None
      BY <3>1, Sizes DEF Frames, None
    <3>5. heap[x] \notin frames
      BY <3>1, <3>3, <3>4, <1>3, <1>5 DEF FrameOwner
    <3>6. mem'[a] = mem[a]
      BY <3>2, <3>5, <1>8
    <3> QED BY <3>6 DEF a
  <2>3. end_page' \in 0 .. MAX_PAGES
    BY <1>1, <1>3 DEF HeapTypes
  <2> QED BY <2>1, <2>2, <2>3, <1>1, <1>6, LoadedKept
<1>14. ASSUME step = "image", NEW p \in {top} PROVE Loaded(p)'
  <2>0. p = top
    OBVIOUS
  <2> HIDE DEF top
  <2> SUFFICES ASSUME Intact(p)', NEW w \in 0 .. NodeLength(file'[p]) - 1
               PROVE  mem'[heap'[image'[p]] * PAGE + w] = Word(file'[p], w)
    BY DEF Loaded, NodeLength
  <2> DEFINE l == NodeLength(file[p])
             i == w \div PAGE
             r == w % PAGE
             h == heap[v]
  <2>1. w \in 0 .. l - 1 /\ l \in Nat /\ image'[p] = v /\ file' = file /\ heap' = heap
    <3>1. p \in 1 .. Len(file)
      BY <2>0, <1>4 DEF top
    <3> QED BY <3>1, <2>0, <1>1, <1>6, <1>14, ProcFacts
  <2>2. PagesOf(l) \in Nat /\ i \in 0 .. PagesOf(l) - 1
    <3> HIDE DEF l
    <3> QED BY <2>1, PagesEnough
  <2>3. \A j \in 0 .. PagesOf(l) - 1 : heap[v + j] = h + j
    BY <2>1 DEF Intact
  <2>4. heap[v + i] = h + i
    BY <2>2, <2>3
  <2>5. w = i * PAGE + r /\ i \in Int /\ r \in 0 .. PAGE - 1 /\ PAGE \in Nat \ {0}
    <3>1. PAGE \in Nat \ {0} /\ w \in Int
      <4> HIDE DEF l
      <4> QED BY <2>1, Sizes
    <3> QED BY <3>1, DivMod
  <2>6. h \in Int
    <3>1. v \in 0 .. end_page - 1
      BY <1>3, <1>5 DEF HeapTypes, HeapPages
    <3>2. heap[v] # None /\ heap[v] \in Frames \cup {None}
      BY <3>1, <1>3 DEF HeapTypes, HeapSound
    <3> QED BY <3>2, Sizes DEF Frames
  <2>7. Physical(v, w) = heap[v + i] * PAGE + r
    BY DEF Physical
  <2> HIDE DEF l, i, r, h
  <2>8. Physical(v, w) = h * PAGE + w
    <3>1. (h + i) * PAGE = h * PAGE + i * PAGE /\ h * PAGE \in Int /\ i * PAGE \in Int
      BY <2>5, <2>6
    <3> QED BY <3>1, <2>4, <2>5, <2>7
  <2>9. mem'[Physical(v, w)] = Word(file[p], w)
    BY <2>0, <2>1, <1>8, <1>14 DEF l
  <2> QED BY <2>1, <2>8, <2>9 DEF h
<1>15. DataSound'
  <2>1. ASSUME NEW p \in 1 .. Len(image') PROVE Loaded(p)'
    <3>1. p \in 1 .. Len(image) \/ (step = "image" /\ p = top)
      BY <1>4, <1>6
    <3>2. CASE step = "image" /\ p = top
      <4>1. p \in {top}
        BY <3>2
      <4> QED BY <4>1, <3>2, <1>14
    <3> QED BY <3>1, <3>2, <1>13
  <2>2. \A p \in 1 .. Len(user) : p \in 1 .. Len(image)
    BY <1>4
  <2> QED BY <2>1, <2>2, <1>1, <1>8, <1>12, <1>13 DEF DataSound
<1> QED BY <1>9, <1>10, <1>11, <1>15 DEF LoaderInv

(***************************************************************************)
(* The theorems                                                            *)
(***************************************************************************)
LEMMA InitInv == ASSUME Init PROVE LoaderInv
<1>1. /\ step = "console_init" /\ placement_address = KERNEL_END
      /\ identity = <<>> /\ index_pages = <<>> /\ used = {}
      /\ heap = [v \in HeapPages |-> None] /\ writeable = {} /\ end_page = 0 /\ aligned = TRUE
      /\ block = [v \in HeapPages |-> Hole]
      /\ file = <<>> /\ image = <<>> /\ user = <<>> /\ live = {} /\ halted = FALSE
  BY DEF Init
<1>2. Early /\ Starting /\ ~Making /\ step \in Steps /\ ~Booted
  BY <1>1 DEF Early, Starting, Making, Steps, Booted
<1>3. Len(<<>>) = 0 /\ DOMAIN <<>> = {} /\ (\A v \in 0 .. 0 - 1 : FALSE) /\ (\A v \in 1 .. 0 : FALSE)
  OBVIOUS
<1>4. BootInv
  <2>1. BootTypes
    <3>1. placement_address \in Nat /\ step \in Steps
      BY <1>1, <1>2, Sizes
    <3>2. identity \in Seq(Frames) /\ index_pages \in Seq(Frames)
      BY <1>1
    <3>3. halted \in BOOLEAN
      BY <1>1
    <3> QED BY <3>1, <3>2, <3>3 DEF BootTypes
  <2>2. Len(identity) * PAGE <= RdEnd + (HEAP_TABLES + 8) * PAGE
    <3> DEFINE T == HEAP_TABLES * PAGE
               E == (HEAP_TABLES + 8) * PAGE
    <3>1. T \in Nat /\ E = T + 8 * PAGE /\ RdEnd \in Nat /\ PAGE \in Nat /\ 0 * PAGE = 0
      BY Room, Sizes
    <3>2. Len(identity) = 0
      BY <1>1, <1>3
    <3> HIDE DEF T, E
    <3>3. 0 <= RdEnd + E
      BY <3>1
    <3> QED BY <3>1, <3>2, <3>3 DEF E
  <2>3. used = 0 .. Len(identity) - 1
    BY <1>1, <1>3
  <2>4. BootSound
    BY <2>2, <2>3, <1>1, <1>2 DEF BootSound
  <2>5. IdentityMapped
    BY <1>1, <1>2, <1>3 DEF IdentityMapped
  <2> QED BY <2>1, <2>4, <2>5 DEF BootInv
<1>5. HeapInv
  <2>1. HeapTypes
    BY <1>1, Sizes DEF HeapTypes
  <2>2. HeapSound
    BY <1>1, <1>2, <1>3 DEF HeapSound
  <2>3. ToSet(<<>>) = {}
    BY DEF ToSet
  <2>4. FrameOwner
    BY <2>3, <1>1 DEF FrameOwner
  <2> QED BY <2>1, <2>2, <2>4 DEF HeapInv
<1>6. ProcInv
  <2>1. ProcTypes
    BY <1>1 DEF ProcTypes
  <2>2. \A p \in Procs : Hole # <<p, "image">>
    BY DEF Hole
  <2>3. ProcSound
    BY <2>2, <1>1, <1>2, <1>3, Sizes DEF ProcSound
  <2> QED BY <2>1, <2>3 DEF ProcInv
<1>7. DataSound
  <2> DEFINE A == 0 .. FRAMES * PAGE - 1
  <2>1. mem = [a \in A |-> IF a \in LOCATION .. RdEnd - 1 THEN Image[a - LOCATION + 1] ELSE Other]
    BY DEF Init
  <2>2. ASSUME NEW a \in LOCATION .. RdEnd - 1
        PROVE  a \in A /\ Image[a - LOCATION + 1] \in FileWords
    <3>1. /\ LOCATION \in Nat /\ RdEnd = LOCATION + Len(Image) /\ Len(Image) \in Nat
          /\ Image \in Seq(FileWords)
      BY ImageWords, Sizes DEF RdEnd
    <3>2. a - LOCATION + 1 \in 1 .. Len(Image) /\ a \in Nat /\ a < RdEnd
      BY <3>1
    <3>3. a \in A
      <4> DEFINE F == FRAMES * PAGE
                 T == HEAP_TABLES * PAGE
                 M == (INDEX_PAGES + INITIAL_PAGES) * PAGE
      <4>1. T \in Nat /\ M \in Nat /\ F \in Nat /\ RdEnd + T + 8 * PAGE + M <= F /\ PAGE \in Nat /\ RdEnd \in Nat
        BY Room, Sizes
      <4> HIDE DEF F, T, M
      <4>2. a \in 0 .. F - 1
        BY <4>1, <3>2
      <4> QED BY <4>2 DEF F
    <3> QED BY <3>1, <3>2, <3>3
  <2>3. Other \in FileWords
    BY DEF FileWords
  <2> HIDE DEF A
  <2>4. mem \in [A -> FileWords] /\ \A a \in LOCATION .. RdEnd - 1 : mem[a] = Image[a - LOCATION + 1]
    BY <2>1, <2>2, <2>3
  <2> QED BY <2>4, <1>1, <1>3 DEF DataSound, A
<1> QED BY <1>4, <1>5, <1>6, <1>7 DEF LoaderInv

LEMMA StepInv == ASSUME LoaderInv, [Next]_vars PROVE LoaderInv'
<1>1. CASE ConsoleInit
  BY <1>1, ConsoleInitKeeps
<1>2. CASE PmmInit
  BY <1>2, PmmInitKeeps
<1>3. CASE KernelDirectory
  BY <1>3, KernelDirectoryKeeps
<1>4. CASE MapIdentity
  BY <1>4, MapIdentityKeeps
<1>5. CASE HeapFrames
  BY <1>5, HeapFramesKeeps
<1>6. CASE CreateHeap
  BY <1>6, CreateHeapKeeps
<1>7. CASE \E name \in Names : Exec(name)
  BY <1>7, ExecKeeps
<1>8. CASE \E v \in HeapPages : Allocate(v)
  BY <1>8, AllocateKeeps
<1>9. CASE Expand
  BY <1>9, ExpandKeeps
<1>10. CASE ExpandPanic
  BY <1>10, PanicKeeps DEF ExpandPanic
<1>11. CASE MapImage
  BY <1>11, MapImageKeeps
<1>12. CASE \E p \in Procs : ProgramFault(p) \/ KillFault(p)
  BY <1>12, PanicKeeps DEF ProgramFault, KillFault
<1>13. CASE \E p \in Procs : Kill(p)
  BY <1>13, KillKeeps
<1>14. CASE UNCHANGED vars
  <2>1. UNCHANGED <<step, placement_address, identity, index_pages, used, heap, writeable,
                    end_page, aligned, block, mem, file, image, user, live, halted>>
    BY <1>14 DEF vars, bootVars, heapVars, procVars
  <2>2. BootInv'
    BY <2>1 DEF LoaderInv, BootInv, BootTypes, BootSound, IdentityMapped, Booted, Early, Making
  <2>3. HeapInv'
    BY <2>1 DEF LoaderInv, HeapInv, HeapTypes, HeapSound, FrameOwner, Starting, Early
  <2>4. ProcInv'
    BY <2>1 DEF LoaderInv, ProcInv, ProcTypes, ProcSound, Starting, Early, Making
  <2>5. DataSound'
    BY <2>1, DataKept DEF LoaderInv
  <2> QED BY <2>2, <2>3, <2>4, <2>5 DEF LoaderInv
<1>15. CASE PanicLoop
  BY <1>14, <1>15 DEF PanicLoop
<1> QED BY <1>1, <1>2, <1>3, <1>4, <1>5, <1>6, <1>7, <1>8, <1>9, <1>10, <1>11, <1>12, <1>13, <1>14, <1>15
        DEF Next

LEMMA InvOfSpec == Spec => []LoaderInv
<1>1. Init => LoaderInv
  BY InitInv
<1>2. LoaderInv /\ [Next]_vars => LoaderInv'
  BY StepInv
<1> QED BY <1>1, <1>2, PTL DEF Spec

\* Every variable of the boot and of the loader has its type, and no frame
\* above the memory is ever marked, not even by vmm_map_page (pmm.c, exec.c:34).
THEOREM Types == Spec => []TypeOK
<1>1. LoaderInv => TypeOK
  BY DEF LoaderInv, BootInv, BootTypes, HeapInv, HeapTypes, ProcInv, ProcTypes, DataSound, TypeOK
<1> QED BY <1>1, InvOfSpec, PTL

\* When paging is switched on, all that was handed out before is mapped at its
\* own address, wherever the kernel and the ram disk end: vmm_init's loop gets
\* the frames in order and ends behind what it itself has allocated.
THEOREM IdentityIsMapped == Spec => []IdentityMapped
<1>1. LoaderInv => IdentityMapped
  BY DEF LoaderInv, BootInv
<1> QED BY <1>1, InvOfSpec, PTL

\* No frame is ever behind two pages of the kernel, and each is marked in the
\* map of frames, whatever is loaded, expanded, contracted and killed.
THEOREM FramesHaveOwners == Spec => []FrameOwner
<1>1. LoaderInv => FrameOwner
  BY DEF LoaderInv, HeapInv
<1> QED BY <1>1, InvOfSpec, PTL

\* A live process whose image is whole has the words of its file at 0x400000,
\* as rdgen wrote them on the build host.
THEOREM ImagesAreLoaded == Spec => []ImageLoaded
<1>1. ASSUME LoaderInv PROVE ImageLoaded
  <2> SUFFICES ASSUME NEW p \in live, Intact(p), NEW w \in 0 .. NodeLength(file[p]) - 1
               PROVE  mem[user[p][w \div PAGE + 1] * PAGE + (w % PAGE)] = Word(file[p], w)
    BY DEF ImageLoaded
  <2> DEFINE l == NodeLength(file[p])
             i == w \div PAGE
             r == w % PAGE
             h == heap[image[p]]
  <2>1. p \in 1 .. Len(user) /\ p \in 1 .. Len(image) /\ p \in 1 .. Len(file)
    <3>1. p \in 1 .. Len(user)
      BY <1>1 DEF LoaderInv, ProcInv, ProcSound
    <3> QED BY <3>1, <1>1, ProcFacts
  <2>2. l \in Nat /\ file[p] \in Inodes \cup {Dev}
    BY <2>1, <1>1, ProcFacts
  <2>3. l # 0
    <3>1. \A x \in 0 .. 0 - 1 : FALSE
      OBVIOUS
    <3> QED BY <3>1
  <2>4. l <= USER_PAGES * PAGE
    <3>1. file[p] \in Inodes /\ l = Files[file[p]].length
      BY <2>2, <2>3 DEF NodeLength
    <3> QED BY <3>1, MemoryAssumption
  <2>5. i \in 0 .. USER_PAGES - 1 /\ USER_PAGES \in Nat
    <3>1. PagesOf(l) \in Nat /\ PagesOf(l) <= USER_PAGES /\ i \in 0 .. PagesOf(l) - 1 /\ USER_PAGES \in Nat
      <4> HIDE DEF l
      <4> QED BY <2>2, <2>4, PagesEnough, Sizes DEF l
    <3> HIDE DEF i
    <3> QED BY <3>1
  <2>6. user[p] = UserFrames(h)
    BY <2>1, <2>3, <1>1 DEF LoaderInv, DataSound
  <2>7. h \in Frames /\ r \in 0 .. PAGE - 1 /\ heap[image[p] + i] = h + i
        /\ h * PAGE + w = heap[image[p] + i] * PAGE + r
    BY <2>1, <1>1, ImagePlace
  <2>8. mem[h * PAGE + w] = Word(file[p], w)
    BY <2>1, <1>1 DEF LoaderInv, DataSound, Loaded
  <2> HIDE DEF l, i, r, h
  <2>9. user[p][i + 1] = h + i
    <3>1. i + 1 \in 1 .. USER_PAGES /\ h \in Nat /\ h + (i + 1) - 1 = h + i
      BY <2>5, <2>7, Sizes DEF Frames
    <3> QED BY <3>1, <2>6 DEF UserFrames
  <2>10. mem[user[p][i + 1] * PAGE + r] = Word(file[p], w)
    BY <2>7, <2>8, <2>9
  <2> QED BY <2>10 DEF i, r
<1> QED BY <1>1, InvOfSpec, PTL
=============================================================================
