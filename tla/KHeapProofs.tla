----------------------------- MODULE KHeapProofs -----------------------------
(***************************************************************************)
(* Proofs about the kernel heap: for every page size, heap size and set of *)
(* requests, as long as none of the named situations was met, holes and    *)
(* blocks tile the heap, no call touches the block of another caller, and  *)
(* a block is as large as was asked for.                                   *)
(*                                                                         *)
(* Layout says what heap.c relies on, of a memory, the holes, the blocks   *)
(* and the end of the heap.  Tiled alone is not inductive: it does not say *)
(* what the footers say that free follows backwards.  The operations are   *)
(* short sequences of five steps, each with its lemma: a hole is split, a  *)
(* hole is taken or a block released, two holes are merged, the last hole  *)
(* gets another end, or there is a hole behind the last block.             *)
(***************************************************************************)
EXTENDS KHeap, Lemmas

\* The footer of a hole names a header with the mark of a hole, its own or, after
\* a merge to the right, one inside it; or it was never written, and then the
\* hole is the last.
FooterNames(m, h, f, e) ==
    IF m[f] = HEAP_MAGIC THEN m[f + 1] \in h .. f - HEADER /\ m[m[f + 1] + 1] = 1
                         ELSE f + FOOTER = e

\* Headers in memory m, each followed by the next, from START to e.
Chain(m, S, e) ==
    /\ START \in S
    /\ \A s \in S : /\ s \in Int /\ START <= s
                    /\ m[s] = HEAP_MAGIC /\ m[s + 2] \in Int /\ m[s + 2] >= Overhead
                    /\ s + m[s + 2] <= e /\ s + m[s + 2] \in S \cup {e}
    /\ \A s, t \in S : s < t => s + m[s + 2] <= t
    /\ \A s \in S \cup {e} : s = START \/ \E p \in S : p + m[p + 2] = s

\* H are the holes and L the blocks, up to e, with the marks and the footers.
Layout(m, H, L, e) ==
    /\ m \in [Words -> Int] /\ e \in Int /\ e <= LIMIT
    /\ H \cap L = {}
    /\ Chain(m, H \cup L, e)
    /\ \A h \in H : m[h + 1] = 1 /\ FooterNames(m, h, h + m[h + 2] - FOOTER, e)
    /\ \A b \in L : /\ m[b + 1] = 0 /\ m[b + m[b + 2] - FOOTER] = HEAP_MAGIC
                    /\ m[b + m[b + 2] - FOOTER + 1] = b
    /\ m[START - FOOTER] = 0

\* A header and a footer of its own.
Formed(m, a, mark, len) ==
    /\ m[a] = HEAP_MAGIC /\ m[a + 1] = mark /\ m[a + 2] = len
    /\ m[a + len - FOOTER] = HEAP_MAGIC /\ m[a + len - FOOTER + 1] = a
NoneTouch(m, H) == \A h \in H : h + m[h + 2] \notin H
SameOutside(m, n, lo, hi) == \A a \in Words : a < lo \/ a >= hi => n[a] = m[a]

\* Every word that heap.c looks at is a word of the model.
LEMMA InWords ==
    ASSUME NEW m, NEW S, NEW e \in Int, Chain(m, S, e), e <= LIMIT, NEW s \in S
    PROVE  /\ s \in Int /\ START <= s /\ s + m[s + 2] <= e /\ m[s + 2] \in Int /\ m[s + 2] >= 5
           /\ \A a \in s .. s + m[s + 2] - 1 : a \in Words
           /\ START \in Int /\ START - FOOTER \in Words
<1>1. /\ s \in Int /\ START <= s /\ s + m[s + 2] <= e /\ m[s + 2] \in Int /\ m[s + 2] >= 5
      /\ START \in S /\ START \in Nat
  BY HeapAssumption DEF Chain, Overhead, HEADER, FOOTER
<1>2. LIMIT \in Int
  BY HeapAssumption DEF LIMIT
<1>3. START + m[START + 2] <= e /\ m[START + 2] \in Int /\ m[START + 2] >= 5
  BY <1>1 DEF Chain, Overhead, HEADER, FOOTER
<1> QED BY <1>1, <1>2, <1>3 DEF Words, FOOTER

\* What a step that writes between lo and hi leaves of a segment elsewhere.
LEMMA Untouched ==
    ASSUME NEW m, NEW H, NEW L, NEW e, Layout(m, H, L, e),
           NEW n, NEW lo \in Int, NEW hi \in Int, SameOutside(m, n, lo, hi),
           NEW s \in H \cup L, s + m[s + 2] <= lo \/ hi <= s
    PROVE  /\ s \in Int /\ START <= s /\ m[s + 2] \in Int /\ m[s + 2] >= 5
           /\ n[s] = HEAP_MAGIC /\ n[s + 2] = m[s + 2]
           /\ s \in H => /\ n[s + 1] = 1
                         /\ FooterNames(n, s, s + n[s + 2] - FOOTER, e)
                         /\ \A x : s + m[s + 2] # e => FooterNames(n, s, s + n[s + 2] - FOOTER, x)
           /\ s \in L => /\ n[s + 1] = 0 /\ n[s + n[s + 2] - FOOTER] = HEAP_MAGIC
                         /\ n[s + n[s + 2] - FOOTER + 1] = s
<1>1. e \in Int /\ e <= LIMIT /\ Chain(m, H \cup L, e)
  BY DEF Layout
<1>2. /\ s \in Int /\ START <= s /\ m[s + 2] \in Int /\ m[s + 2] >= 5
      /\ \A a \in s .. s + m[s + 2] - 1 : a \in Words
  BY <1>1, InWords
<1>3. \A a \in s .. s + m[s + 2] - 1 : n[a] = m[a]
  BY <1>2 DEF SameOutside
<1>4. /\ n[s] = m[s] /\ n[s + 1] = m[s + 1] /\ n[s + 2] = m[s + 2]
      /\ n[s + m[s + 2] - 2] = m[s + m[s + 2] - 2]
      /\ n[s + m[s + 2] - 1] = m[s + m[s + 2] - 1]
  BY <1>2, <1>3
<1>5. s + m[s + 2] - FOOTER = s + m[s + 2] - 2 /\ s + m[s + 2] - 2 + 1 = s + m[s + 2] - 1
  BY <1>2 DEF FOOTER
<1>6. m[s] = HEAP_MAGIC
  BY <1>1 DEF Chain
<1>7. ASSUME s \in H, NEW x, x = e \/ s + m[s + 2] # e
      PROVE  n[s + 1] = 1 /\ FooterNames(n, s, s + n[s + 2] - FOOTER, x)
  <2>1. m[s + 1] = 1 /\ FooterNames(m, s, s + m[s + 2] - FOOTER, e)
    BY <1>7 DEF Layout
  <2>2. CASE m[s + m[s + 2] - 2] = HEAP_MAGIC
    <3> DEFINE q == m[s + m[s + 2] - 1]
    <3>1. q \in s .. s + m[s + 2] - 5 /\ m[q + 1] = 1
      BY <2>1, <2>2, <1>2, <1>5 DEF FooterNames, HEADER
    <3>2. n[q + 1] = 1
      BY <3>1, <1>2, <1>3
    <3> QED BY <3>1, <3>2, <2>1, <2>2, <1>2, <1>4, <1>5 DEF FooterNames, HEADER
  <2>3. CASE m[s + m[s + 2] - 2] # HEAP_MAGIC
    BY <2>1, <2>3, <1>2, <1>4, <1>5, <1>7 DEF FooterNames, FOOTER
  <2> QED BY <2>2, <2>3
<1>8. ASSUME s \in L
      PROVE  /\ n[s + 1] = 0 /\ n[s + n[s + 2] - FOOTER] = HEAP_MAGIC
             /\ n[s + n[s + 2] - FOOTER + 1] = s
  BY <1>8, <1>4, <1>5 DEF Layout
<1> QED BY <1>2, <1>4, <1>6, <1>7, <1>8

\* A hole is split in two.
LEMMA SplitHole ==
    ASSUME NEW m, NEW H, NEW L, NEW e, Layout(m, H, L, e),
           NEW h \in H, NEW k \in Int, k >= Overhead, k + Overhead <= m[h + 2],
           NEW n \in [Words -> Int], SameOutside(m, n, h, h + m[h + 2]),
           Formed(n, h, 1, k), Formed(n, h + k, 1, m[h + 2] - k)
    PROVE  Layout(n, H \cup {h + k}, L, e)
<1> DEFINE S == H \cup L
           g == h + k
           T == H \cup {g} \cup L
<1>1. /\ e \in Int /\ e <= LIMIT /\ Chain(m, S, e) /\ h \in S /\ m \in [Words -> Int]
      /\ m[h + 1] = 1 /\ h \notin L
  BY DEF Layout
<1>2. /\ h \in Int /\ START <= h /\ h + m[h + 2] <= e /\ m[h + 2] \in Int /\ m[h + 2] >= 5
      /\ START \in Int /\ START - FOOTER \in Words
      /\ \A a \in h .. h + m[h + 2] - 1 : a \in Words
  BY <1>1, InWords
<1>3. /\ n[h] = HEAP_MAGIC /\ n[h + 1] = 1 /\ n[h + 2] = k
      /\ n[h + k - 2] = HEAP_MAGIC /\ n[h + k - 1] = h
      /\ n[g] = HEAP_MAGIC /\ n[g + 1] = 1 /\ n[g + 2] = m[h + 2] - k
      /\ n[h + m[h + 2] - 2] = HEAP_MAGIC /\ n[h + m[h + 2] - 1] = g
  BY <1>2 DEF Formed, FOOTER
<1>4. g \in Int /\ h < g /\ g < h + m[h + 2] /\ g + n[g + 2] = h + m[h + 2] /\ k >= 5 /\ k + 5 <= m[h + 2]
  BY <1>2, <1>3 DEF Overhead, HEADER, FOOTER
<1>5. ASSUME NEW s \in S, s # h
      PROVE  /\ s \in Int /\ START <= s /\ m[s + 2] \in Int /\ m[s + 2] >= 5
             /\ s + m[s + 2] <= h \/ h + m[h + 2] <= s
             /\ n[s] = HEAP_MAGIC /\ n[s + 2] = m[s + 2]
             /\ s \in H => n[s + 1] = 1 /\ FooterNames(n, s, s + n[s + 2] - FOOTER, e)
             /\ s \in L => /\ n[s + 1] = 0 /\ n[s + n[s + 2] - FOOTER] = HEAP_MAGIC
                           /\ n[s + n[s + 2] - FOOTER + 1] = s
  <2>1. s \in Int /\ (s + m[s + 2] <= h \/ h + m[h + 2] <= s)
    BY <1>1, <1>2, <1>5 DEF Chain
  <2>2. h \in Int /\ h + m[h + 2] \in Int
    BY <1>2
  <2> QED BY <2>1, <2>2, Untouched
<1>6. g \notin S
  BY <1>2, <1>4, <1>5
<1>7. Chain(n, T, e)
  <2>1. START \in T
    BY <1>1 DEF Chain
  <2>2. ASSUME NEW s \in T
        PROVE  /\ s \in Int /\ START <= s
               /\ n[s] = HEAP_MAGIC /\ n[s + 2] \in Int /\ n[s + 2] >= Overhead
               /\ s + n[s + 2] <= e /\ s + n[s + 2] \in T \cup {e}
    <3>1. CASE s = h
      BY <3>1, <1>1, <1>2, <1>3, <1>4 DEF Overhead, HEADER, FOOTER
    <3>2. CASE s = g
      BY <3>2, <1>1, <1>2, <1>3, <1>4 DEF Overhead, HEADER, FOOTER, Chain
    <3>3. CASE s # h /\ s # g
      BY <3>3, <1>1, <1>5 DEF Overhead, HEADER, FOOTER, Chain
    <3> QED BY <3>1, <3>2, <3>3
  <2>3. ASSUME NEW s \in T, NEW t \in T, s < t
        PROVE  s + n[s + 2] <= t
    <3>1. CASE s # h /\ s # g /\ t # g
      BY <3>1, <2>3, <1>1, <1>5 DEF Chain
    <3>2. CASE s # h /\ s # g /\ t = g
      BY <3>2, <2>3, <1>1, <1>2, <1>4, <1>5
    <3>3. CASE s = h
      BY <3>3, <2>2, <2>3, <1>2, <1>3, <1>4, <1>5
    <3>4. CASE s = g
      BY <3>4, <2>2, <2>3, <1>2, <1>3, <1>4, <1>5
    <3> QED BY <3>1, <3>2, <3>3, <3>4
  <2>4. ASSUME NEW s \in T \cup {e}
        PROVE  s = START \/ \E p \in T : p + n[p + 2] = s
    <3>1. CASE s = g
      BY <3>1, <1>1, <1>3
    <3>2. CASE s # g
      <4>1. s = START \/ \E p \in S : p + m[p + 2] = s
        BY <3>2, <1>1 DEF Chain
      <4>2. CASE s = START
        BY <4>2
      <4>3. ASSUME NEW p \in S, p + m[p + 2] = s
            PROVE  \E q \in T : q + n[q + 2] = s
        <5>1. CASE p = h
          BY <5>1, <4>3, <1>4
        <5>2. CASE p # h
          BY <5>2, <4>3, <1>5
        <5> QED BY <5>1, <5>2
      <4> QED BY <4>1, <4>2, <4>3
    <3> QED BY <3>1, <3>2
  <2> HIDE DEF T
  <2> QED BY <2>1, <2>2, <2>3, <2>4 DEF Chain
<1>8. ASSUME NEW s \in H \cup {g}
      PROVE  n[s + 1] = 1 /\ FooterNames(n, s, s + n[s + 2] - FOOTER, e)
  <2>1. CASE s = h
    BY <2>1, <1>2, <1>3, <1>4 DEF FooterNames, HEADER, FOOTER
  <2>2. CASE s = g
    BY <2>2, <1>2, <1>3, <1>4 DEF FooterNames, HEADER, FOOTER
  <2>3. CASE s # h /\ s # g
    BY <2>3, <1>5
  <2> QED BY <2>1, <2>2, <2>3
<1>9. ASSUME NEW b \in L
      PROVE  /\ n[b + 1] = 0 /\ n[b + n[b + 2] - FOOTER] = HEAP_MAGIC
             /\ n[b + n[b + 2] - FOOTER + 1] = b
  BY <1>1, <1>5
<1>10. n[START - FOOTER] = 0
  <2>1. START - FOOTER < h
    BY <1>2 DEF FOOTER
  <2> QED BY <2>1, <1>2 DEF SameOutside, Layout
<1>11. (H \cup {g}) \cap L = {}
  BY <1>6 DEF Layout
<1> QED BY <1>1, <1>7, <1>8, <1>9, <1>10, <1>11 DEF Layout

\* A hole becomes a block or a block a hole, with a footer of its own.
LEMMA Recast ==
    ASSUME NEW m, NEW H, NEW L, NEW e, Layout(m, H, L, e),
           NEW h \in H \cup L, NEW mark \in {0, 1},
           NEW n \in [Words -> Int], SameOutside(m, n, h, h + m[h + 2]),
           Formed(n, h, mark, m[h + 2])
    PROVE  Layout(n, IF mark = 1 THEN H \cup {h} ELSE H \ {h},
                     IF mark = 1 THEN L \ {h} ELSE L \cup {h}, e)
<1> DEFINE S == H \cup L
           G == IF mark = 1 THEN H \cup {h} ELSE H \ {h}
           K == IF mark = 1 THEN L \ {h} ELSE L \cup {h}
<1>1. e \in Int /\ e <= LIMIT /\ Chain(m, S, e) /\ h \in S /\ H \cap L = {}
  BY DEF Layout
<1>2. /\ h \in Int /\ START <= h /\ h + m[h + 2] <= e /\ m[h + 2] \in Int /\ m[h + 2] >= 5
      /\ START \in Int /\ START - FOOTER \in Words
  BY <1>1, InWords
<1>3. /\ n[h] = HEAP_MAGIC /\ n[h + 1] = mark /\ n[h + 2] = m[h + 2]
      /\ n[h + m[h + 2] - 2] = HEAP_MAGIC /\ n[h + m[h + 2] - 1] = h
  BY <1>2 DEF Formed, FOOTER
<1>4. ASSUME NEW s \in S, s # h
      PROVE  /\ s \in Int /\ START <= s /\ m[s + 2] \in Int /\ m[s + 2] >= 5
             /\ n[s] = HEAP_MAGIC /\ n[s + 2] = m[s + 2]
             /\ s \in H => n[s + 1] = 1 /\ FooterNames(n, s, s + n[s + 2] - FOOTER, e)
             /\ s \in L => /\ n[s + 1] = 0 /\ n[s + n[s + 2] - FOOTER] = HEAP_MAGIC
                           /\ n[s + n[s + 2] - FOOTER + 1] = s
  <2>1. s \in Int /\ (s + m[s + 2] <= h \/ h + m[h + 2] <= s)
    BY <1>1, <1>2, <1>4 DEF Chain
  <2>2. h \in Int /\ h + m[h + 2] \in Int
    BY <1>2
  <2> QED BY <2>1, <2>2, Untouched
<1>5. G \cup K = S /\ G \cap K = {} /\ G \ {h} \subseteq H /\ K \ {h} \subseteq L
      /\ (h \in G => mark = 1) /\ (h \in K => mark = 0)
  BY <1>1
<1> HIDE DEF G, K
<1>6. Chain(n, S, e)
  <2>1. \A s \in S : n[s] = m[s] /\ n[s + 2] = m[s + 2]
    BY <1>1, <1>3, <1>4 DEF Chain
  <2> HIDE DEF S
  <2> QED BY <1>1, <2>1 DEF Chain
<1>7. ASSUME NEW s \in G
      PROVE  n[s + 1] = 1 /\ FooterNames(n, s, s + n[s + 2] - FOOTER, e)
  <2>1. CASE s = h
    BY <2>1, <1>2, <1>3, <1>5 DEF FooterNames, HEADER, FOOTER
  <2>2. CASE s # h
    BY <2>2, <1>4, <1>5
  <2> QED BY <2>1, <2>2
<1>8. ASSUME NEW b \in K
      PROVE  /\ n[b + 1] = 0 /\ n[b + n[b + 2] - FOOTER] = HEAP_MAGIC
             /\ n[b + n[b + 2] - FOOTER + 1] = b
  <2>1. CASE b = h
    BY <2>1, <1>2, <1>3, <1>5 DEF FOOTER
  <2>2. CASE b # h
    BY <2>2, <1>4, <1>5
  <2> QED BY <2>1, <2>2
<1>9. n[START - FOOTER] = 0
  <2>1. START - FOOTER < h
    BY <1>2 DEF FOOTER
  <2> QED BY <2>1, <1>2 DEF SameOutside, Layout
<1>10. Layout(n, G, K, e)
  BY <1>1, <1>5, <1>6, <1>7, <1>8, <1>9 DEF Layout
<1> QED BY <1>10 DEF G, K

\* Two holes that touch become one; the footer may be told the new header.
LEMMA MergeHoles ==
    ASSUME NEW m, NEW H, NEW L, NEW e, Layout(m, H, L, e),
           NEW h \in H, NEW g \in H, h + m[h + 2] = g,
           NEW n \in [Words -> Int], n[h + 2] = m[h + 2] + m[g + 2],
           n[g + m[g + 2] - 1] \in {m[g + m[g + 2] - 1], h},
           \A a \in Words : a < h + 2 \/ (a > h + 2 /\ a < g + m[g + 2] - 1) \/ a >= g + m[g + 2]
                            => n[a] = m[a]
    PROVE  Layout(n, H \ {g}, L, e)
<1> DEFINE S == H \cup L
           T == (H \ {g}) \cup L
           top == g + m[g + 2]
<1>1. e \in Int /\ e <= LIMIT /\ Chain(m, S, e) /\ h \in S /\ g \in S /\ H \cap L = {}
  BY DEF Layout
<1>2. /\ h \in Int /\ START <= h /\ h + m[h + 2] <= e /\ m[h + 2] \in Int /\ m[h + 2] >= 5
      /\ START \in Int /\ START - FOOTER \in Words
      /\ \A a \in h .. h + m[h + 2] - 1 : a \in Words
  BY <1>1, InWords
<1>3. /\ g \in Int /\ START <= g /\ g + m[g + 2] <= e /\ m[g + 2] \in Int /\ m[g + 2] >= 5
      /\ \A a \in g .. g + m[g + 2] - 1 : a \in Words
  BY <1>1, InWords
<1>4. T = S \ {g} /\ h # g /\ h < g
  BY <1>1, <1>2
<1>5. h + n[h + 2] = top /\ top \in Int /\ n[h + 2] \in Int /\ n[h + 2] >= 10
  BY <1>2, <1>3
<1>6. ASSUME NEW s \in S, s # h, s # g
      PROVE  /\ s \in Int /\ START <= s /\ m[s + 2] \in Int /\ m[s + 2] >= 5
             /\ s + m[s + 2] <= h \/ top <= s
             /\ n[s] = HEAP_MAGIC /\ n[s + 2] = m[s + 2]
             /\ s \in H => n[s + 1] = 1 /\ FooterNames(n, s, s + n[s + 2] - FOOTER, e)
             /\ s \in L => /\ n[s + 1] = 0 /\ n[s + n[s + 2] - FOOTER] = HEAP_MAGIC
                           /\ n[s + n[s + 2] - FOOTER + 1] = s
  <2>1. s \in Int /\ (s + m[s + 2] <= h \/ top <= s)
    BY <1>1, <1>2, <1>3, <1>6 DEF Chain
  <2>2. SameOutside(m, n, h, top)
    BY <1>2, <1>3, HeapAssumption DEF SameOutside, Words, LIMIT, FOOTER
  <2> QED BY <2>1, <2>2, <1>2, <1>5, Untouched
<1>7. /\ n[h] = HEAP_MAGIC /\ n[h + 1] = 1
  <2>1. m[h] = HEAP_MAGIC /\ m[h + 1] = 1
    BY <1>1 DEF Chain, Layout
  <2>2. h \in Words /\ h + 1 \in Words /\ h < h + 2 /\ h + 1 < h + 2
    BY <1>2, <1>3
  <2> QED BY <2>1, <2>2, <1>2
<1>8. Chain(n, T, e)
  <2>1. START \in T
    BY <1>1, <1>2, <1>4 DEF Chain
  <2>2. ASSUME NEW s \in T
        PROVE  /\ s \in Int /\ START <= s
               /\ n[s] = HEAP_MAGIC /\ n[s + 2] \in Int /\ n[s + 2] >= Overhead
               /\ s + n[s + 2] <= e /\ s + n[s + 2] \in T \cup {e}
    <3>1. CASE s = h
      <4>1. top \in S \cup {e}
        BY <1>1 DEF Chain
      <4> QED BY <3>1, <4>1, <1>2, <1>3, <1>4, <1>5, <1>7 DEF Overhead, HEADER, FOOTER
    <3>2. CASE s # h
      <4>1. s + m[s + 2] \in S \cup {e} /\ s + m[s + 2] <= e
        BY <1>1, <1>4 DEF Chain
      <4>2. s + m[s + 2] # g
        BY <3>2, <1>2, <1>3, <1>4, <1>6
      <4> QED BY <3>2, <4>1, <4>2, <1>4, <1>6 DEF Overhead, HEADER, FOOTER
    <3> QED BY <3>1, <3>2
  <2>3. ASSUME NEW s \in T, NEW t \in T, s < t
        PROVE  s + n[s + 2] <= t
    <3>1. CASE s = h
      BY <3>1, <2>3, <1>2, <1>4, <1>5, <1>6
    <3>2. CASE s # h
      BY <3>2, <2>3, <1>1, <1>4, <1>6 DEF Chain
    <3> QED BY <3>1, <3>2
  <2>4. ASSUME NEW s \in T \cup {e}
        PROVE  s = START \/ \E p \in T : p + n[p + 2] = s
    <3>1. s = START \/ \E p \in S : p + m[p + 2] = s
      BY <1>1, <1>4 DEF Chain
    <3>2. ASSUME NEW p \in S, p + m[p + 2] = s
          PROVE  \E q \in T : q + n[q + 2] = s
      <4>1. CASE p = h
        BY <4>1, <3>2, <1>2, <1>3, <1>4
      <4>2. CASE p = g
        BY <4>2, <3>2, <1>4, <1>5
      <4>3. CASE p # h /\ p # g
        BY <4>3, <3>2, <1>4, <1>6
      <4> QED BY <4>1, <4>2, <4>3
    <3> QED BY <3>1, <3>2
  <2> HIDE DEF T
  <2> QED BY <2>1, <2>2, <2>3, <2>4 DEF Chain
<1>9. FooterNames(n, h, h + n[h + 2] - FOOTER, e)
  <2>1. FooterNames(m, g, g + m[g + 2] - FOOTER, e)
    BY DEF Layout
  <2>2. n[top - 2] = m[top - 2] /\ h + n[h + 2] - FOOTER = top - 2 /\ g + m[g + 2] - FOOTER = top - 2
        /\ top - 2 + 1 = top - 1
    BY <1>2, <1>3, <1>5 DEF FOOTER
  <2>3. CASE m[top - 2] = HEAP_MAGIC
    <3>1. m[top - 1] \in g .. top - 5 /\ m[m[top - 1] + 1] = 1
      BY <2>1, <2>2, <2>3, <1>3 DEF FooterNames, HEADER
    <3>2. n[m[top - 1] + 1] = 1
      <4> DEFINE q == m[top - 1]
      <4>1. q + 1 \in g .. top - 1 /\ q + 1 < top - 1 /\ q + 1 > h + 2
        BY <3>1, <1>2, <1>3
      <4>2. q + 1 \in Words
        BY <4>1, <1>3
      <4>3. m[q + 1] = 1 /\ q \in Int
        BY <3>1, <1>3
      <4> HIDE DEF q
      <4>4. n[q + 1] = 1
        BY <4>1, <4>2, <4>3, <1>3
      <4> QED BY <4>4 DEF q
    <3>3. n[top - 1] \in h .. top - 5 /\ n[n[top - 1] + 1] = 1
      BY <3>1, <3>2, <1>2, <1>3, <1>7
    <3> QED BY <3>3, <2>2, <2>3, <1>3 DEF FooterNames, HEADER
  <2>4. CASE m[top - 2] # HEAP_MAGIC
    BY <2>1, <2>2, <2>4 DEF FooterNames
  <2> QED BY <2>3, <2>4
<1>10. n[START - FOOTER] = 0
  <2>1. START - FOOTER < h + 2
    BY <1>2 DEF FOOTER
  <2> QED BY <2>1, <1>2 DEF Layout
<1>11. (H \ {g}) \cap L = {}
  BY <1>1
<1>12. \A s \in H \ {g} : n[s + 1] = 1 /\ FooterNames(n, s, s + n[s + 2] - FOOTER, e)
  BY <1>6, <1>7, <1>9
<1>13. \A b \in L : /\ n[b + 1] = 0 /\ n[b + n[b + 2] - FOOTER] = HEAP_MAGIC
                    /\ n[b + n[b + 2] - FOOTER + 1] = b
  BY <1>1, <1>6
<1> QED BY <1>1, <1>8, <1>10, <1>11, <1>12, <1>13 DEF Layout

\* What ends at e is one hole or block, and any other ends at or below it.
LEMMA LastSegment ==
    ASSUME NEW m, NEW S, NEW e \in Int, Chain(m, S, e), e <= LIMIT,
           NEW h \in S, h + m[h + 2] = e, NEW s \in S, s # h
    PROVE  s \in Int /\ h \in Int /\ s + m[s + 2] <= h /\ s + m[s + 2] # e
<1>1. /\ h \in Int /\ m[h + 2] \in Int /\ m[h + 2] >= 5
      /\ s \in Int /\ m[s + 2] \in Int /\ m[s + 2] >= 5
      /\ s + m[s + 2] <= e
  BY InWords
<1>2. s < h \/ h < s
  BY <1>1
<1>3. ~(h < s)
  BY <1>1 DEF Chain
<1>4. s + m[s + 2] <= h
  BY <1>2, <1>3 DEF Chain
<1> QED BY <1>1, <1>4

\* The last hole gets another end, higher or lower.
LEMMA MoveEnd ==
    ASSUME NEW m, NEW H, NEW L, NEW e, Layout(m, H, L, e),
           NEW h \in H, h + m[h + 2] = e,
           NEW top \in Int, top <= LIMIT, top - h >= Overhead,
           NEW n \in [Words -> Int], Formed(n, h, 1, top - h),
           \A a \in Words : a < h => n[a] = m[a]
    PROVE  Layout(n, H, L, top)
<1> DEFINE S == H \cup L
<1>1. e \in Int /\ e <= LIMIT /\ Chain(m, S, e) /\ h \in S /\ H \cap L = {}
  BY DEF Layout
<1>2. /\ h \in Int /\ START <= h /\ m[h + 2] \in Int /\ m[h + 2] >= 5
      /\ START \in Int /\ START - FOOTER \in Words
  BY <1>1, InWords
<1>3. /\ n[h] = HEAP_MAGIC /\ n[h + 1] = 1 /\ n[h + 2] = top - h
      /\ n[top - 2] = HEAP_MAGIC /\ n[top - 1] = h
  BY <1>2 DEF Formed, FOOTER
<1>4. ASSUME NEW s \in S, s # h
      PROVE  /\ s \in Int /\ START <= s /\ m[s + 2] \in Int /\ m[s + 2] >= 5
             /\ s + m[s + 2] <= h /\ s + m[s + 2] # e
             /\ n[s] = HEAP_MAGIC /\ n[s + 2] = m[s + 2]
             /\ s \in H => n[s + 1] = 1 /\ FooterNames(n, s, s + n[s + 2] - FOOTER, top)
             /\ s \in L => /\ n[s + 1] = 0 /\ n[s + n[s + 2] - FOOTER] = HEAP_MAGIC
                           /\ n[s + n[s + 2] - FOOTER + 1] = s
  <2>1. s + m[s + 2] <= h /\ s + m[s + 2] # e
    BY <1>1, <1>4, LastSegment
  <2>2. LIMIT \in Int
    BY HeapAssumption DEF LIMIT
  <2>3. SameOutside(m, n, h, LIMIT)
    BY <1>2, <2>2, HeapAssumption DEF SameOutside, Words, FOOTER
  <2> QED BY <2>1, <2>2, <2>3, <1>2, Untouched
<1>5. top - h >= 5
  BY DEF Overhead, HEADER, FOOTER
<1>6. Chain(n, S, top)
  <2>1. START \in S
    BY <1>1 DEF Chain
  <2>2. ASSUME NEW s \in S
        PROVE  /\ s \in Int /\ START <= s
               /\ n[s] = HEAP_MAGIC /\ n[s + 2] \in Int /\ n[s + 2] >= Overhead
               /\ s + n[s + 2] <= top /\ s + n[s + 2] \in S \cup {top}
    <3>1. CASE s = h
      BY <3>1, <1>2, <1>3, <1>5 DEF Overhead, HEADER, FOOTER
    <3>2. CASE s # h
      <4>1. s + m[s + 2] \in S \cup {e}
        BY <1>1 DEF Chain
      <4> QED BY <3>2, <4>1, <1>2, <1>4, <1>5 DEF Overhead, HEADER, FOOTER
    <3> QED BY <3>1, <3>2
  <2>3. ASSUME NEW s \in S, NEW t \in S, s < t
        PROVE  s + n[s + 2] <= t
    <3>1. CASE s = h
      BY <3>1, <2>3, <1>2, <1>4
    <3>2. CASE s # h
      BY <3>2, <2>3, <1>1, <1>4 DEF Chain
    <3> QED BY <3>1, <3>2
  <2>4. ASSUME NEW s \in S \cup {top}
        PROVE  s = START \/ \E p \in S : p + n[p + 2] = s
    <3>1. CASE s = top
      BY <3>1, <1>1, <1>2, <1>3
    <3>2. CASE s # top
      <4>1. s = START \/ \E p \in S : p + m[p + 2] = s
        BY <3>2, <1>1 DEF Chain
      <4>2. s # e
        BY <3>2, <1>1, <1>2, <1>4
      <4> QED BY <4>1, <4>2, <1>4
    <3> QED BY <3>1, <3>2
  <2> HIDE DEF S
  <2> QED BY <2>1, <2>2, <2>3, <2>4 DEF Chain
<1>7. FooterNames(n, h, h + n[h + 2] - FOOTER, top)
  BY <1>2, <1>3, <1>5 DEF FooterNames, HEADER, FOOTER
<1>8. n[START - FOOTER] = 0
  <2>1. START - FOOTER < h
    BY <1>2 DEF FOOTER
  <2> QED BY <2>1, <1>2 DEF Layout
<1>9. \A s \in H : n[s + 1] = 1 /\ FooterNames(n, s, s + n[s + 2] - FOOTER, top)
  BY <1>3, <1>4, <1>7
<1>10. \A b \in L : /\ n[b + 1] = 0 /\ n[b + n[b + 2] - FOOTER] = HEAP_MAGIC
                    /\ n[b + n[b + 2] - FOOTER + 1] = b
  BY <1>1, <1>4
<1> QED BY <1>1, <1>6, <1>8, <1>9, <1>10 DEF Layout

\* New pages become a hole behind the last block.
LEMMA NewHole ==
    ASSUME NEW m, NEW L, NEW e, Layout(m, {}, L, e),
           NEW top \in Int, top <= LIMIT, top - e >= Overhead,
           NEW n \in [Words -> Int], Formed(n, e, 1, top - e),
           \A a \in Words : a < e => n[a] = m[a]
    PROVE  Layout(n, {e}, L, top)
<1> DEFINE T == {e} \cup L
<1>1. e \in Int /\ e <= LIMIT /\ Chain(m, {} \cup L, e) /\ {} \cup L = L
  BY DEF Layout
<1>2. /\ START \in L /\ START \in Int /\ START - FOOTER \in Words /\ START < e
  BY <1>1, InWords DEF Chain
<1>3. /\ n[e] = HEAP_MAGIC /\ n[e + 1] = 1 /\ n[e + 2] = top - e
      /\ n[top - 2] = HEAP_MAGIC /\ n[top - 1] = e
  BY <1>1 DEF Formed, FOOTER
<1>4. ASSUME NEW s \in L
      PROVE  /\ s \in Int /\ START <= s /\ m[s + 2] \in Int /\ m[s + 2] >= 5
             /\ s + m[s + 2] <= e /\ s + m[s + 2] \in T
             /\ n[s] = HEAP_MAGIC /\ n[s + 2] = m[s + 2]
             /\ n[s + 1] = 0 /\ n[s + n[s + 2] - FOOTER] = HEAP_MAGIC
             /\ n[s + n[s + 2] - FOOTER + 1] = s
  <2>1. s + m[s + 2] <= e /\ s + m[s + 2] \in T
    BY <1>1 DEF Chain
  <2>2. LIMIT \in Int
    BY HeapAssumption DEF LIMIT
  <2>3. SameOutside(m, n, e, LIMIT)
    BY <1>1, <2>2, HeapAssumption DEF SameOutside, Words, FOOTER
  <2> QED BY <2>1, <2>2, <2>3, <1>1, Untouched
<1>5. top - e >= 5
  BY DEF Overhead, HEADER, FOOTER
<1>6. Chain(n, T, top)
  <2>2. ASSUME NEW s \in T
        PROVE  /\ s \in Int /\ START <= s
               /\ n[s] = HEAP_MAGIC /\ n[s + 2] \in Int /\ n[s + 2] >= Overhead
               /\ s + n[s + 2] <= top /\ s + n[s + 2] \in T \cup {top}
    <3>1. CASE s = e
      BY <3>1, <1>1, <1>2, <1>3, <1>5 DEF Overhead, HEADER, FOOTER
    <3>2. CASE s \in L
      BY <3>2, <1>1, <1>4, <1>5 DEF Overhead, HEADER, FOOTER
    <3> QED BY <3>1, <3>2
  <2>3. ASSUME NEW s \in T, NEW t \in T, s < t
        PROVE  s + n[s + 2] <= t
    <3>1. CASE s = e
      BY <3>1, <2>3, <1>1, <1>4
    <3>2. CASE s \in L /\ t = e
      BY <3>2, <1>4
    <3>3. CASE s \in L /\ t \in L
      BY <3>3, <2>3, <1>1, <1>4 DEF Chain
    <3> QED BY <3>1, <3>2, <3>3
  <2>4. ASSUME NEW s \in T \cup {top}
        PROVE  s = START \/ \E p \in T : p + n[p + 2] = s
    <3>1. CASE s = top
      BY <3>1, <1>1, <1>3
    <3>2. CASE s # top
      <4>1. s = START \/ \E p \in L : p + m[p + 2] = s
        BY <3>2, <1>1 DEF Chain
      <4> QED BY <4>1, <1>4
    <3> QED BY <3>1, <3>2
  <2>5. START \in T
    BY <1>2
  <2> HIDE DEF T
  <2> QED BY <2>2, <2>3, <2>4, <2>5 DEF Chain
<1>7. n[e + 1] = 1 /\ FooterNames(n, e, e + n[e + 2] - FOOTER, top)
  BY <1>1, <1>3, <1>5 DEF FooterNames, HEADER, FOOTER
<1>8. n[START - FOOTER] = 0
  <2>1. START - FOOTER < e
    BY <1>1, <1>2 DEF FOOTER
  <2> QED BY <2>1, <1>2 DEF Layout
<1>9. e \notin L
  BY <1>1, <1>4
<1> QED BY <1>4, <1>6, <1>7, <1>8, <1>9 DEF Layout

\* What is between the ends of a hole is no header.
LEMMA InsideHole ==
    ASSUME NEW m, NEW H, NEW L, NEW e, Layout(m, H, L, e), NEW h \in H,
           NEW a \in Int, h < a, a < h + m[h + 2]
    PROVE  a \notin H \cup L /\ a # e
<1>1. e \in Int /\ e <= LIMIT /\ Chain(m, H \cup L, e) /\ h \in H \cup L
  BY DEF Layout
<1>2. h \in Int /\ m[h + 2] \in Int /\ h + m[h + 2] <= e
  BY <1>1, InWords
<1> QED BY <1>1, <1>2 DEF Chain

\* What a step that writes within one hole keeps: the size of the segments
\* elsewhere.
LEMMA SizesKept ==
    ASSUME NEW m, NEW H, NEW L, NEW e, Layout(m, H, L, e), NEW h \in H,
           NEW n, SameOutside(m, n, h, h + m[h + 2]),
           NEW s \in H \cup L, s # h
    PROVE  n[s + 2] = m[s + 2]
<1>1. e \in Int /\ e <= LIMIT /\ Chain(m, H \cup L, e) /\ h \in H \cup L
  BY DEF Layout
<1>2. h \in Int /\ m[h + 2] \in Int /\ s \in Int /\ h + m[h + 2] \in Int
  BY <1>1, InWords
<1>3. s + m[s + 2] <= h \/ h + m[h + 2] <= s
  BY <1>1, <1>2 DEF Chain
<1> QED BY <1>2, <1>3, Untouched

\* A block is cut from the front of a hole; the rest stays a hole.
LEMMA TakeFront ==
    ASSUME NEW m, NEW H, NEW L, NEW e, Layout(m, H, L, e),
           NEW h \in H, NEW k \in Int, k >= Overhead, k + Overhead <= m[h + 2],
           NEW n \in [Words -> Int], SameOutside(m, n, h, h + m[h + 2]),
           Formed(n, h, 0, k), Formed(n, h + k, 1, m[h + 2] - k)
    PROVE  /\ Layout(n, (H \ {h}) \cup {h + k}, L \cup {h}, e)
           /\ NoneTouch(m, H) => NoneTouch(n, (H \ {h}) \cup {h + k})
<1> DEFINE g == h + k
           i == [x \in Words |-> IF x = h + 1 THEN 1 ELSE n[x]]
<1>1. e \in Int /\ e <= LIMIT /\ Chain(m, H \cup L, e) /\ h \in H \cup L /\ h \notin L
  BY DEF Layout
<1>2. /\ h \in Int /\ START <= h /\ h + m[h + 2] <= e /\ m[h + 2] \in Int /\ m[h + 2] >= 5
      /\ \A a \in h .. h + m[h + 2] - 1 : a \in Words
  BY <1>1, InWords
<1>3. k >= 5 /\ k + 5 <= m[h + 2] /\ g \in Int /\ h < g /\ g < h + m[h + 2]
  BY <1>2 DEF Overhead, HEADER, FOOTER
<1>4. g \notin H \cup L /\ g # e
  BY <1>3, InsideHole
<1>5. /\ i \in [Words -> Int] /\ i[h + 1] = 1
      /\ \A x \in Words : x # h + 1 => i[x] = n[x]
  BY <1>2, <1>3
<1> HIDE DEF i
<1>6. SameOutside(m, i, h, h + m[h + 2]) /\ SameOutside(i, n, h, h + k)
  BY <1>2, <1>3, <1>5 DEF SameOutside
<1>7. Formed(i, h, 1, k) /\ Formed(i, g, 1, m[h + 2] - k)
  <2>1. \A x \in {h, h + 2, h + k - 2, h + k - 2 + 1, g, g + 1, g + 2,
                  g + (m[h + 2] - k) - 2, g + (m[h + 2] - k) - 2 + 1} : x \in Words /\ x # h + 1
    BY <1>2, <1>3
  <2> QED BY <2>1, <1>5 DEF Formed, FOOTER
<1>8. Layout(i, H \cup {g}, L, e)
  BY <1>5, <1>6, <1>7, SplitHole
<1>9. i[h + 2] = k
  BY <1>7 DEF Formed
<1>10. SameOutside(i, n, h, h + i[h + 2]) /\ Formed(n, h, 0, i[h + 2])
  BY <1>6, <1>9
<1>11. Layout(n, (H \cup {g}) \ {h}, L \cup {h}, e)
  <2>1. h \in (H \cup {g}) \cup L /\ 0 \in {0, 1}
    OBVIOUS
  <2>2. Layout(n, IF 0 = 1 THEN H \cup {g} \cup {h} ELSE (H \cup {g}) \ {h},
                  IF 0 = 1 THEN L \ {h} ELSE L \cup {h}, e)
    BY <2>1, <1>8, <1>10, Recast
  <2> QED BY <2>2
<1>12. (H \cup {g}) \ {h} = (H \ {h}) \cup {g}
  BY <1>2, <1>3
<1>13. ASSUME NoneTouch(m, H), NEW s \in (H \ {h}) \cup {g}
       PROVE  s + n[s + 2] \notin (H \ {h}) \cup {g}
  <2>1. CASE s = g
    <3>1. g + n[g + 2] = h + m[h + 2]
      BY <1>2, <1>3 DEF Formed
    <3> QED BY <2>1, <3>1, <1>3, <1>13 DEF NoneTouch
  <2>2. CASE s # g
    <3>1. n[s + 2] = m[s + 2]
      BY <2>2, SizesKept
    <3>2. s + m[s + 2] \in H \cup L \cup {e}
      BY <2>2, <1>1 DEF Chain
    <3> QED BY <2>2, <3>1, <3>2, <1>4, <1>13 DEF NoneTouch
  <2> QED BY <2>1, <2>2
<1> QED BY <1>11, <1>12, <1>13 DEF NoneTouch

\* A block is cut from the back of a hole.
LEMMA TakeBack ==
    ASSUME NEW m, NEW H, NEW L, NEW e, Layout(m, H, L, e),
           NEW h \in H, NEW k \in Int, k >= Overhead, k + Overhead <= m[h + 2],
           NEW n \in [Words -> Int], SameOutside(m, n, h, h + m[h + 2]),
           Formed(n, h, 1, k), Formed(n, h + k, 0, m[h + 2] - k)
    PROVE  /\ Layout(n, H, L \cup {h + k}, e)
           /\ NoneTouch(m, H) => NoneTouch(n, H)
<1> DEFINE g == h + k
           i == [x \in Words |-> IF x = g + 1 THEN 1 ELSE n[x]]
<1>1. e \in Int /\ e <= LIMIT /\ Chain(m, H \cup L, e) /\ h \in H \cup L /\ h \notin L
  BY DEF Layout
<1>2. /\ h \in Int /\ START <= h /\ h + m[h + 2] <= e /\ m[h + 2] \in Int /\ m[h + 2] >= 5
      /\ \A a \in h .. h + m[h + 2] - 1 : a \in Words
  BY <1>1, InWords
<1>3. k >= 5 /\ k + 5 <= m[h + 2] /\ g \in Int /\ h < g /\ g < h + m[h + 2]
  BY <1>2 DEF Overhead, HEADER, FOOTER
<1>4. g \notin H \cup L /\ g # e
  BY <1>3, InsideHole
<1>5. /\ i \in [Words -> Int] /\ i[g + 1] = 1
      /\ \A x \in Words : x # g + 1 => i[x] = n[x]
  BY <1>2, <1>3
<1> HIDE DEF i
<1>6. SameOutside(m, i, h, h + m[h + 2]) /\ SameOutside(i, n, g, h + m[h + 2])
  BY <1>2, <1>3, <1>5 DEF SameOutside
<1>7. Formed(i, h, 1, k) /\ Formed(i, g, 1, m[h + 2] - k)
  <2>1. \A x \in {h, h + 1, h + 2, h + k - 2, h + k - 2 + 1, g, g + 2,
                  g + (m[h + 2] - k) - 2, g + (m[h + 2] - k) - 2 + 1} : x \in Words /\ x # g + 1
    BY <1>2, <1>3
  <2> QED BY <2>1, <1>5 DEF Formed, FOOTER
<1>8. Layout(i, H \cup {g}, L, e)
  BY <1>5, <1>6, <1>7, SplitHole
<1>9. i[g + 2] = m[h + 2] - k /\ g + (m[h + 2] - k) = h + m[h + 2]
  BY <1>2, <1>3, <1>7 DEF Formed
<1>10. SameOutside(i, n, g, g + i[g + 2]) /\ Formed(n, g, 0, i[g + 2])
  BY <1>6, <1>9
<1>11. Layout(n, (H \cup {g}) \ {g}, L \cup {g}, e)
  <2>1. g \in (H \cup {g}) \cup L /\ 0 \in {0, 1}
    OBVIOUS
  <2>2. Layout(n, IF 0 = 1 THEN H \cup {g} \cup {g} ELSE (H \cup {g}) \ {g},
                  IF 0 = 1 THEN L \ {g} ELSE L \cup {g}, e)
    BY <2>1, <1>8, <1>10, Recast
  <2> QED BY <2>2
<1>12. (H \cup {g}) \ {g} = H
  BY <1>4
<1>13. ASSUME NoneTouch(m, H), NEW s \in H
       PROVE  s + n[s + 2] \notin H
  <2>1. CASE s = h
    BY <2>1, <1>4 DEF Formed
  <2>2. CASE s # h
    BY <2>2, <1>13, SizesKept DEF NoneTouch
  <2> QED BY <2>1, <2>2
<1> QED BY <1>11, <1>12, <1>13 DEF NoneTouch

\* A block is cut from the middle of a hole.
LEMMA TakeMiddle ==
    ASSUME NEW m, NEW H, NEW L, NEW e, Layout(m, H, L, e),
           NEW h \in H, NEW k \in Int, k >= Overhead, NEW l \in Int, l >= Overhead,
           k + l + Overhead <= m[h + 2],
           NEW n \in [Words -> Int], SameOutside(m, n, h, h + m[h + 2]),
           Formed(n, h, 1, k), Formed(n, h + k, 0, l), Formed(n, h + k + l, 1, m[h + 2] - k - l)
    PROVE  /\ Layout(n, H \cup {h + k + l}, L \cup {h + k}, e)
           /\ NoneTouch(m, H) => NoneTouch(n, H \cup {h + k + l})
<1> DEFINE g == h + k
           r == g + l
           top == h + m[h + 2]
           i == [x \in Words |-> IF x = g + 1 THEN 1 ELSE IF x = g + 2 THEN m[h + 2] - k
                                 ELSE IF x = top - 1 THEN g ELSE n[x]]
<1>1. e \in Int /\ e <= LIMIT /\ Chain(m, H \cup L, e) /\ h \in H \cup L /\ h \notin L
  BY DEF Layout
<1>2. /\ h \in Int /\ START <= h /\ top <= e /\ m[h + 2] \in Int /\ m[h + 2] >= 5
      /\ \A a \in h .. top - 1 : a \in Words
  BY <1>1, InWords
<1>3. /\ k >= 5 /\ l >= 5 /\ k + l + 5 <= m[h + 2] /\ g \in Int /\ h < g /\ g < top
      /\ r \in Int /\ h < r /\ r < top /\ top \in Int
  BY <1>2 DEF Overhead, HEADER, FOOTER
<1>4. g \notin H \cup L /\ g # e /\ r \notin H \cup L /\ r # e
  BY <1>3, InsideHole
<1>5. /\ i \in [Words -> Int] /\ i[g + 1] = 1 /\ i[g + 2] = m[h + 2] - k /\ i[top - 1] = g
      /\ \A x \in Words : x # g + 1 /\ x # g + 2 /\ x # top - 1 => i[x] = n[x]
  <2>1. g + 1 \in Words /\ g + 2 \in Words /\ top - 1 \in Words
    BY <1>2, <1>3
  <2>2. m[h + 2] - k \in Int /\ g + 1 # g + 2 /\ g + 2 # top - 1 /\ g + 1 # top - 1
    BY <1>2, <1>3
  <2> QED BY <2>1, <2>2, <1>3
<1> HIDE DEF i
<1>6. SameOutside(m, i, h, h + m[h + 2])
  BY <1>2, <1>3, <1>5 DEF SameOutside
<1>7. Formed(i, h, 1, k) /\ Formed(i, g, 1, m[h + 2] - k)
  <2>1. \A x \in {h, h + 1, h + 2, h + k - 2, h + k - 2 + 1, g, top - 2} :
          x \in Words /\ x # g + 1 /\ x # g + 2 /\ x # top - 1
    BY <1>2, <1>3
  <2>2. g + (m[h + 2] - k) - 2 = top - 2 /\ top - 2 + 1 = top - 1
    BY <1>2, <1>3
  <2>3. n[top - 2] = HEAP_MAGIC
    <3>1. h + k + l + (m[h + 2] - k - l) - 2 = top - 2
      BY <1>2, <1>3
    <3> QED BY <3>1 DEF Formed, FOOTER
  <2> QED BY <2>1, <2>2, <2>3, <1>5 DEF Formed, FOOTER
<1>8. Layout(i, H \cup {g}, L, e)
  <2>1. k + Overhead <= m[h + 2]
    BY <1>2, <1>3 DEF Overhead, HEADER, FOOTER
  <2> QED BY <2>1, <1>5, <1>6, <1>7, SplitHole
<1>9. g + i[g + 2] = top /\ l + Overhead <= i[g + 2] /\ Formed(n, g, 0, l)
      /\ Formed(n, g + l, 1, i[g + 2] - l)
  BY <1>2, <1>3, <1>5 DEF Overhead, HEADER, FOOTER
<1>10. SameOutside(i, n, g, top)
  BY <1>2, <1>3, <1>5 DEF SameOutside
<1>11. Layout(n, ((H \cup {g}) \ {g}) \cup {r}, L \cup {g}, e)
  BY <1>8, <1>9, <1>10, TakeFront
<1>12. ((H \cup {g}) \ {g}) \cup {r} = H \cup {r}
  BY <1>4
<1>13. ASSUME NoneTouch(m, H), NEW s \in H \cup {r}
       PROVE  s + n[s + 2] \notin H \cup {r}
  <2>1. CASE s = h
    BY <2>1, <1>3, <1>4 DEF Formed
  <2>2. CASE s = r
    <3>1. r + n[r + 2] = top
      BY <1>2, <1>3 DEF Formed
    <3> QED BY <2>2, <3>1, <1>3, <1>13 DEF NoneTouch
  <2>3. CASE s # h /\ s # r
    <3>1. n[s + 2] = m[s + 2]
      BY <2>3, SizesKept
    <3>2. s + m[s + 2] \in H \cup L \cup {e}
      BY <2>3, <1>1 DEF Chain
    <3> QED BY <2>3, <3>1, <3>2, <1>4, <1>13 DEF NoneTouch
  <2> QED BY <2>1, <2>2, <2>3
<1> QED BY <1>11, <1>12, <1>13 DEF NoneTouch

(***************************************************************************)
(* What the operators of KHeap compute                                     *)
(***************************************************************************)
LEMMA Constants ==
    /\ START \in Nat /\ LIMIT \in Int /\ HEAP_MIN_SIZE \in Nat
    /\ VMM_PAGE_SIZE \in Nat \ {0} /\ VMM_PAGE_SIZE >= 5
    /\ HEADER = 3 /\ FOOTER = 2 /\ Overhead = 5 /\ HEAP_MAGIC = -1
    /\ Words = START - 2 .. LIMIT - 1
    /\ START % VMM_PAGE_SIZE = 0
    /\ 2 * VMM_PAGE_SIZE <= HEAP_MIN_SIZE
    /\ HEAP_MIN_SIZE % VMM_PAGE_SIZE = 0
    /\ START + INITIAL_PAGES * VMM_PAGE_SIZE \in START + HEAP_MIN_SIZE .. LIMIT
    /\ (START + INITIAL_PAGES * VMM_PAGE_SIZE) % VMM_PAGE_SIZE = 0
<1>1. /\ START \in Nat /\ START % VMM_PAGE_SIZE = 0 /\ VMM_PAGE_SIZE \in Nat /\ VMM_PAGE_SIZE >= Overhead
      /\ HEAP_MIN_PAGES \in Nat \ {0, 1} /\ INITIAL_PAGES \in Nat /\ INITIAL_PAGES >= HEAP_MIN_PAGES
      /\ FRAME_PAGES \in Nat /\ FRAME_PAGES >= INITIAL_PAGES
  BY HeapAssumption
<1>2. HEADER = 3 /\ FOOTER = 2 /\ Overhead = 5 /\ HEAP_MAGIC = -1
  BY DEF HEADER, FOOTER, Overhead, HEAP_MAGIC
<1>3. \A a, b \in Nat : a <= b => a * VMM_PAGE_SIZE <= b * VMM_PAGE_SIZE
  BY <1>1
<1>4. /\ HEAP_MIN_PAGES * VMM_PAGE_SIZE \in Nat /\ FRAME_PAGES * VMM_PAGE_SIZE \in Nat
      /\ INITIAL_PAGES * VMM_PAGE_SIZE \in Nat
  BY <1>1
<1>5. /\ 2 * VMM_PAGE_SIZE <= HEAP_MIN_PAGES * VMM_PAGE_SIZE
      /\ HEAP_MIN_PAGES * VMM_PAGE_SIZE <= INITIAL_PAGES * VMM_PAGE_SIZE
      /\ INITIAL_PAGES * VMM_PAGE_SIZE <= FRAME_PAGES * VMM_PAGE_SIZE
  BY <1>1, <1>3
<1>6. VMM_PAGE_SIZE \in Nat \ {0}
  BY <1>1, <1>2
<1>7. (HEAP_MIN_PAGES * VMM_PAGE_SIZE + 0) % VMM_PAGE_SIZE = 0
      /\ (INITIAL_PAGES * VMM_PAGE_SIZE + 0) % VMM_PAGE_SIZE = 0
  BY <1>1, <1>6, DivModUnique
<1>8. HEAP_MIN_SIZE % VMM_PAGE_SIZE = 0 /\ (INITIAL_PAGES * VMM_PAGE_SIZE) % VMM_PAGE_SIZE = 0
  BY <1>4, <1>7 DEF HEAP_MIN_SIZE
<1> DEFINE least == HEAP_MIN_PAGES * VMM_PAGE_SIZE
           first == INITIAL_PAGES * VMM_PAGE_SIZE
           most == FRAME_PAGES * VMM_PAGE_SIZE
<1> HIDE DEF least, first, most
<1>10. START + first \in START + least .. START + most /\ START + most \in Int
  <2>1. least \in Nat /\ first \in Nat /\ most \in Nat /\ least <= first /\ first <= most
    BY <1>4, <1>5 DEF least, first, most
  <2> QED BY <2>1, <1>1
<1>9. (START + first) % VMM_PAGE_SIZE = 0
  <2>1. first \in Int /\ START \in Int /\ first % VMM_PAGE_SIZE = 0
    BY <1>1, <1>4, <1>8 DEF first
  <2> QED BY <2>1, <1>1, <1>6, DivModShift
<1> QED BY <1>1, <1>2, <1>4, <1>5, <1>6, <1>8, <1>9, <1>10
        DEF LIMIT, HEAP_MIN_SIZE, Words, FOOTER, least, first, most

\* The heap grows to the next page boundary that leaves room for the request.
LEMMA GrowsEnough ==
    ASSUME NEW size \in Nat, end_address \in Int, end_address >= START
    PROVE  /\ NewEnd(size) \in Int /\ NewEnd(size) >= end_address + size + Overhead
           /\ NewEnd(size) % VMM_PAGE_SIZE = 0
<1> DEFINE need == end_address - START + size + Overhead
           q == (need + VMM_PAGE_SIZE - 1) \div VMM_PAGE_SIZE
           r == (need + VMM_PAGE_SIZE - 1) % VMM_PAGE_SIZE
<1>1. need \in Int /\ need + VMM_PAGE_SIZE - 1 \in Int /\ VMM_PAGE_SIZE \in Nat \ {0}
  BY Constants
<1>2. q \in Int /\ r \in 0 .. VMM_PAGE_SIZE - 1 /\ need + VMM_PAGE_SIZE - 1 = q * VMM_PAGE_SIZE + r
  BY <1>1, DivMod
<1>3. NewEnd(size) = START + q * VMM_PAGE_SIZE
  BY DEF NewEnd, RoundUp
<1> HIDE DEF q, r
<1>4. q * VMM_PAGE_SIZE + 0 = q * VMM_PAGE_SIZE /\ 0 \in 0 .. VMM_PAGE_SIZE - 1
  BY <1>1, <1>2
<1>5. (q * VMM_PAGE_SIZE) % VMM_PAGE_SIZE = 0
  <2>1. (q * VMM_PAGE_SIZE + 0) % VMM_PAGE_SIZE = 0
    BY <1>1, <1>2, <1>4, DivModUnique
  <2> QED BY <2>1, <1>4
<1> DEFINE u == q * VMM_PAGE_SIZE
<1>6. u \in Int /\ u % VMM_PAGE_SIZE = 0 /\ need + VMM_PAGE_SIZE - 1 = u + r /\ NewEnd(size) = START + u
  BY <1>1, <1>2, <1>3, <1>5
<1> HIDE DEF u
<1>7. START \in Int /\ START % VMM_PAGE_SIZE = 0
  BY Constants
<1>8. (START + u) % VMM_PAGE_SIZE = 0
  BY <1>1, <1>6, <1>7, DivModShift
<1> HIDE DEF need
<1>9. u >= need
  BY <1>1, <1>2, <1>6
<1> QED BY <1>6, <1>7, <1>8, <1>9, Constants DEF need

\* contract keeps the minimum, never grows the heap, and gives back the hole's
\* pages only down to the minimum.
LEMMA ContractBounds ==
    ASSUME NEW n \in Int, NEW old \in Int, n < old, HEAP_MIN_SIZE <= old
    PROVE  /\ Contracted(n) \in HEAP_MIN_SIZE .. old
           /\ n < Contracted(n) => Contracted(n) = HEAP_MIN_SIZE
<1> DEFINE odd == IF (n \div VMM_PAGE_SIZE) % 2 = 1 THEN 2 * VMM_PAGE_SIZE ELSE n
<1>1. odd \in Int /\ (odd = n \/ odd <= HEAP_MIN_SIZE)
  BY Constants
<1>2. Contracted(n) = IF odd < HEAP_MIN_SIZE THEN HEAP_MIN_SIZE ELSE odd
  BY DEF Contracted
<1> HIDE DEF odd
<1> QED BY <1>1, <1>2, Constants

\* Pages are unmapped above the new end only.
LEMMA UnmapBounds ==
    ASSUME NEW new \in Nat, end_address \in Int, mapped_end \in Int,
           START + new <= end_address, end_address <= mapped_end, mapped_end <= LIMIT
    PROVE  Unmapped(new) \in START + new .. LIMIT
<1> DEFINE q == (new + 1 + VMM_PAGE_SIZE - 1) \div VMM_PAGE_SIZE
           r == (new + 1 + VMM_PAGE_SIZE - 1) % VMM_PAGE_SIZE
           u == q * VMM_PAGE_SIZE
<1>1. new + 1 + VMM_PAGE_SIZE - 1 \in Int /\ VMM_PAGE_SIZE \in Nat \ {0}
  BY Constants
<1>2. q \in Int /\ r \in 0 .. VMM_PAGE_SIZE - 1 /\ new + 1 + VMM_PAGE_SIZE - 1 = u + r
  BY <1>1, DivMod
<1>3. RoundUp(new + 1) = u
  BY DEF RoundUp
<1> HIDE DEF q, r
<1>5. u \in Int
  BY <1>1, <1>2
<1> HIDE DEF u
<1>4. u >= new + 1 /\ u <= new + VMM_PAGE_SIZE
  BY <1>1, <1>2, <1>5
<1> QED BY <1>1, <1>3, <1>4, <1>5, Constants DEF Unmapped

LEMMA HeaderFacts ==
    ASSUME NEW m \in [Words -> Int], NEW a \in Int, NEW mark \in Int, NEW len \in Int
    PROVE  /\ Header(m, a, mark, len) \in [Words -> Int]
           /\ \A x \in Words : Header(m, a, mark, len)[x] =
                IF x = a + 2 THEN len ELSE IF x = a + 1 THEN mark
                ELSE IF x = a THEN HEAP_MAGIC ELSE m[x]
<1> DEFINE m1 == [m EXCEPT ![a] = HEAP_MAGIC]
           m2 == [m1 EXCEPT ![a + 1] = mark]
<1>1. HEAP_MAGIC \in Int
  BY DEF HEAP_MAGIC
<1>2. m1 \in [Words -> Int] /\ \A x \in Words : m1[x] = IF x = a THEN HEAP_MAGIC ELSE m[x]
  BY <1>1
<1>3. Header(m, a, mark, len) = [m2 EXCEPT ![a + 2] = len]
  BY DEF Header
<1> HIDE DEF m1
<1>4. m2 \in [Words -> Int] /\ \A x \in Words : m2[x] = IF x = a + 1 THEN mark ELSE m1[x]
  BY <1>2
<1> HIDE DEF m2
<1> QED BY <1>2, <1>3, <1>4

LEMMA FooterFacts ==
    ASSUME NEW m \in [Words -> Int], NEW a \in Int, NEW h \in Int
    PROVE  /\ Footer(m, a, h) \in [Words -> Int]
           /\ \A x \in Words : Footer(m, a, h)[x] =
                IF x = a + 1 THEN h ELSE IF x = a THEN HEAP_MAGIC ELSE m[x]
<1> DEFINE m1 == [m EXCEPT ![a] = HEAP_MAGIC]
<1>1. HEAP_MAGIC \in Int
  BY DEF HEAP_MAGIC
<1>2. m1 \in [Words -> Int] /\ \A x \in Words : m1[x] = IF x = a THEN HEAP_MAGIC ELSE m[x]
  BY <1>1
<1>3. Footer(m, a, h) = [m1 EXCEPT ![a + 1] = h]
  BY DEF Footer
<1> HIDE DEF m1
<1> QED BY <1>2, <1>3

LEMMA ReadType ==
    ASSUME NEW m \in [Words -> Int], NEW a \in Int
    PROVE  Read(m, a) \in Int /\ IsHole(m, a) \in Int /\ Size(m, a) \in Int
  BY DEF Read, IsHole, Size

\* A header is read where it is.
LEMMA ReadSegment ==
    ASSUME NEW m, NEW H, NEW L, NEW e, Layout(m, H, L, e), NEW s \in H \cup L
    PROVE  Read(m, s) = m[s] /\ IsHole(m, s) = m[s + 1] /\ Size(m, s) = m[s + 2]
<1>1. e \in Int /\ e <= LIMIT /\ Chain(m, H \cup L, e)
  BY DEF Layout
<1>2. s \in Words /\ s + 1 \in Words /\ s + 2 \in Words
  BY <1>1, InWords
<1> QED BY <1>2 DEF Read, IsHole, Size

\* insert_ordered_array and remove_ordered_array on the index.
LEMMA InsertedFacts ==
    ASSUME NEW m \in [Words -> Int], NEW ix \in Seq(Int), NEW h \in Int
    PROVE  /\ Inserted(m, ix, h) \in Seq(Int)
           /\ ToSet(Inserted(m, ix, h)) = ToSet(ix) \cup {h}
           /\ Distinct(ix) /\ h \notin ToSet(ix) => Distinct(Inserted(m, ix, h))
<1> DEFINE T == {i \in 1 .. Len(ix) + 1 : i = Len(ix) + 1 \/ SizeAt(m, ix, i) >= Size(m, h)}
<1>1. Len(ix) \in Nat /\ \A i \in 1 .. Len(ix) : ix[i] \in Int
  BY LenProperties, ElementOfSeq
<1>2. T \subseteq Nat /\ Len(ix) + 1 \in T
  BY <1>1
<1>3. PICK k \in T : \A i \in T : k <= i
  BY <1>2, LeastPosition
<1>4. ASSUME NEW j \in 1 .. k - 1 PROVE SizeAt(m, ix, j) < Size(m, h)
  <2>1. j \notin T /\ j \in 1 .. Len(ix)
    BY <1>1, <1>3
  <2>2. SizeAt(m, ix, j) \in Int /\ Size(m, h) \in Int
    BY <2>1, <1>1, ReadType DEF SizeAt
  <2> QED BY <2>1, <2>2, <1>1
<1>5. InsertPoint(m, ix, h) \in 1 .. Len(ix) + 1
  BY <1>3, <1>4 DEF InsertPoint
<1> QED BY <1>5, InsertAtList DEF Inserted

LEMMA RemovedType ==
    ASSUME NEW ix \in Seq(Int), NEW i \in Nat \ {0}
    PROVE  Removed(ix, i) \in Seq(Int)
<1>1. Len(ix) \in Nat /\ \A j \in 1 .. Len(ix) : ix[j] \in Int
  BY LenProperties, ElementOfSeq
<1>2. CASE i > Len(ix)
  <2>1. \A j \in 1 .. Len(ix) - 1 : ix[j] \in Int
    BY <1>1
  <2>2. Front(ix) \in Seq(Int)
    BY <2>1, <1>1, SubSeqProperties DEF Front
  <2> QED BY <2>2, <1>2 DEF Removed
<1>3. CASE ~(i > Len(ix))
  <2>1. (\A j \in 1 .. i - 1 : ix[j] \in Int) /\ (\A j \in i + 1 .. Len(ix) : ix[j] \in Int)
    BY <1>1, <1>3
  <2>2. SubSeq(ix, 1, i - 1) \in Seq(Int) /\ SubSeq(ix, i + 1, Len(ix)) \in Seq(Int)
    BY <2>1, <1>1, SubSeqProperties
  <2>3. RemoveAt(ix, i) \in Seq(Int)
    BY <2>2, ConcatProperties DEF RemoveAt
  <2> QED BY <2>3, <1>3 DEF Removed
<1> QED BY <1>2, <1>3

LEMMA PositionFacts ==
    ASSUME NEW ix \in Seq(Int), NEW h
    PROVE  /\ PositionOf(ix, h) \in Nat \ {0}
           /\ h \in ToSet(ix) => PositionOf(ix, h) \in 1 .. Len(ix) /\ ix[PositionOf(ix, h)] = h
<1>1. Len(ix) \in Nat /\ DOMAIN ix = 1 .. Len(ix)
  BY LenProperties
<1> QED BY <1>1 DEF PositionOf, ToSet

LEMMA RemovedFacts ==
    ASSUME NEW ix \in Seq(Int), NEW i \in 1 .. Len(ix), Distinct(ix)
    PROVE  /\ Removed(ix, i) \in Seq(Int)
           /\ ToSet(Removed(ix, i)) = ToSet(ix) \ {ix[i]}
           /\ Distinct(Removed(ix, i))
<1>1. Removed(ix, i) = RemoveAt(ix, i)
  BY LenProperties DEF Removed
<1> QED BY <1>1, RemoveAtList

(***************************************************************************)
(* The inductive invariant, and what each operation does to it             *)
(***************************************************************************)
HeapKept ==
    defect = "none" =>
        /\ Layout(mem, Holes, live, end_address)
        /\ Distinct(index) /\ NoneTouch(mem, Holes)
        /\ end_address % VMM_PAGE_SIZE = 0
HeapInv == TypeOK /\ HeapKept /\ GrowthSuffices

\* The words of block b, header and footer included, are the same in n.
Same(n, b) == \A a \in b .. b + mem[b + 2] - 1 : n[a] = mem[a]

\* A step that writes within one hole leaves every block as it is.
LEMMA BlocksSame ==
    ASSUME NEW H, NEW L, NEW e, Layout(mem, H, L, e), NEW h \in H,
           NEW n, SameOutside(mem, n, h, h + mem[h + 2]), NEW b \in L
    PROVE  Same(n, b)
<1>1. e \in Int /\ e <= LIMIT /\ Chain(mem, H \cup L, e) /\ h # b
  BY DEF Layout
<1>2. h \in Int /\ mem[h + 2] \in Int
  BY <1>1, InWords
<1>3. /\ b \in Int /\ mem[b + 2] \in Int
      /\ \A a \in b .. b + mem[b + 2] - 1 : a \in Words
  BY <1>1, InWords
<1>4. b + mem[b + 2] <= h \/ h + mem[h + 2] <= b
  BY <1>1, <1>2, <1>3 DEF Chain
<1> QED BY <1>2, <1>3, <1>4 DEF Same, SameOutside

\* alloc of a block from a hole, of any alignment: what is written.
LEMMA PlacedFront ==
    ASSUME TypeOK, HeapKept, defect = "none", NEW size \in Nat \ {0},
           NEW i \in 1 .. Len(index), Fits(index[i], size + Overhead, FALSE)
    PROVE  LET r == Placed(i, size, FALSE)
           IN  /\ r.mem \in [Words -> Int] /\ r.index \in Seq(Int) /\ r.block \in Int
               /\ r.defect = "none"
               /\ Layout(r.mem, ToSet(r.index), live \cup {r.block}, end_address)
               /\ Distinct(r.index) /\ NoneTouch(r.mem, ToSet(r.index))
               /\ \A b \in live : Same(r.mem, b)
               /\ r.mem[r.block + 2] >= size + Overhead
<1> DEFINE r == Placed(i, size, FALSE)
           h == index[i]
           w == Size(mem, h)
           need == size + Overhead
           len == IF SlackTaken(w - need) THEN w ELSE need
           rest == w - len
           m1 == Header(mem, h, 0, len)
           m2 == Footer(m1, h + len - FOOTER, h)
           next == h + len
           m3 == Header(m2, next, 1, rest)
           m4 == IF next + rest - FOOTER < end_address
                 THEN Footer(m3, next + rest - FOOTER, next) ELSE m3
           ix == Removed(index, i)
<1>1. /\ r.block = h
      /\ r.mem = IF rest # 0 THEN m4 ELSE m2
      /\ r.index = IF rest # 0 THEN Inserted(m4, ix, next) ELSE ix
      /\ r.defect = IF rest \in 1 .. Overhead - 1 THEN "sliver" ELSE "none"
  BY DEF Placed, FooterOf
<1> HIDE DEF r
<1>2. /\ mem \in [Words -> Int] /\ index \in Seq(Int) /\ Distinct(index) /\ DOMAIN index = 1 .. Len(index)
      /\ Layout(mem, Holes, live, end_address) /\ NoneTouch(mem, Holes)
  BY LenProperties DEF TypeOK, HeapKept
<1>3. h \in Holes /\ w = mem[h + 2]
  <2>1. h \in Holes
    BY <1>2 DEF Holes, ToSet
  <2> QED BY <2>1, <1>2, ReadSegment
<1>4. /\ h \in Int /\ w \in Int /\ w >= need /\ need \in Int /\ need >= 6 /\ h + w <= end_address
      /\ end_address \in Int /\ end_address <= LIMIT
      /\ \A a \in h .. h + w - 1 : a \in Words
  <2>1. /\ end_address \in Int /\ end_address <= LIMIT
        /\ Chain(mem, Holes \cup live, end_address) /\ h \in Holes \cup live
    BY <1>2, <1>3 DEF Layout
  <2>2. w >= need
    BY <2>1, <1>3, InWords DEF Fits
  <2>3. need \in Int /\ need >= 6
    BY Constants
  <2>4. /\ h \in Int /\ h + mem[h + 2] <= end_address /\ mem[h + 2] \in Int
        /\ \A a \in h .. h + mem[h + 2] - 1 : a \in Words
    BY <2>1, InWords
  <2> HIDE DEF h, w, need
  <2> QED BY <2>1, <2>2, <2>3, <2>4, <1>3
<1>13. \A x \in Words : x \in Int
  BY Constants
<1> HIDE DEF h, w, need
<1>5. len \in Int /\ rest \in Int /\ len >= need /\ ((rest = 0 /\ len = w) \/ (rest >= 5 /\ len = need))
  BY <1>4, Constants DEF SlackTaken
<1> HIDE DEF len
<1>6. rest = w - len /\ next = h + len
  OBVIOUS
<1> HIDE DEF rest, next
<1>7. /\ m1 \in [Words -> Int]
      /\ \A x \in Words : m1[x] = IF x = h + 2 THEN len ELSE IF x = h + 1 THEN 0
                                 ELSE IF x = h THEN HEAP_MAGIC ELSE mem[x]
  <2>1. h \in Int /\ len \in Int /\ 0 \in Int /\ mem \in [Words -> Int]
    BY <1>2, <1>4, <1>5
  <2> QED BY <2>1, HeaderFacts
<1> HIDE DEF m1
<1>8. /\ m2 \in [Words -> Int]
      /\ \A x \in Words : m2[x] = IF x = h + len - 2 + 1 THEN h ELSE IF x = h + len - 2 THEN HEAP_MAGIC
                                 ELSE m1[x]
  <2>1. h + len - FOOTER \in Int /\ FOOTER = 2
    BY <1>4, <1>5, Constants
  <2> QED BY <2>1, <1>4, <1>7, FooterFacts
<1> HIDE DEF m2
<1>9. Formed(m2, h, 0, len)
  <2>1. /\ h \in Words /\ h + 1 \in Words /\ h + 2 \in Words
        /\ h + len - 2 \in Words /\ h + len - 2 + 1 \in Words
    BY <1>4, <1>5, <1>6
  <2>2. h + len - 2 > h + 2
    BY <1>4, <1>5
  <2> QED BY <2>1, <2>2, <1>4, <1>5, <1>7, <1>8 DEF Formed, FOOTER
<1>10. \A x \in Words : x < h \/ x >= h + len => m2[x] = mem[x]
  <2>1. ASSUME NEW x \in Words, x < h \/ x >= h + len PROVE m2[x] = mem[x]
    <3>1. x \in Int /\ h \in Int /\ len \in Int /\ len >= 6
      BY <1>4, <1>5, <1>13
    <3>2. x # h + len - 2 + 1 /\ x # h + len - 2 /\ x # h + 2 /\ x # h + 1 /\ x # h
      BY <2>1, <3>1
    <3> QED BY <3>2, <1>7, <1>8
  <2> QED BY <2>1
<1>11. CASE rest = 0
  <2>1. len = w /\ r.mem = m2 /\ r.index = ix /\ r.defect = "none"
    BY <1>1, <1>5, <1>11
  <2>2. SameOutside(mem, m2, h, h + mem[h + 2]) /\ Formed(m2, h, 0, mem[h + 2])
    BY <2>1, <1>3, <1>9, <1>10 DEF SameOutside
  <2>3. Layout(m2, Holes \ {h}, live \cup {h}, end_address)
    <3>1. h \in Holes \cup live /\ 0 \in {0, 1}
      BY <1>3
    <3>2. Layout(m2, IF 0 = 1 THEN Holes \cup {h} ELSE Holes \ {h},
                     IF 0 = 1 THEN live \ {h} ELSE live \cup {h}, end_address)
      BY <3>1, <2>2, <1>2, <1>8, Recast
    <3> QED BY <3>2
  <2>4. ix \in Seq(Int) /\ ToSet(ix) = Holes \ {h} /\ Distinct(ix)
    BY <1>2, RemovedFacts DEF h, Holes
  <2>5. NoneTouch(m2, Holes \ {h})
    <3>1. \A s \in Holes \ {h} : m2[s + 2] = mem[s + 2]
      BY <2>2, <1>2, <1>3, SizesKept
    <3> QED BY <3>1, <1>2 DEF NoneTouch
  <2>6. \A b \in live : Same(m2, b)
    BY <2>2, <1>2, <1>3, BlocksSame
  <2>7. m2[h + 2] >= need
    BY <2>1, <1>4, <1>9 DEF Formed
  <2> QED BY <2>1, <2>3, <2>4, <2>5, <2>6, <2>7, <1>1, <1>4, <1>8 DEF need, r
<1>12. CASE rest # 0
  <2>1. len = need /\ rest >= 5 /\ r.mem = m4 /\ r.index = Inserted(m4, ix, next) /\ r.defect = "none"
    BY <1>1, <1>5, <1>12, Constants
  <2>2. /\ m3 \in [Words -> Int]
        /\ \A x \in Words : m3[x] = IF x = next + 2 THEN rest ELSE IF x = next + 1 THEN 1
                                   ELSE IF x = next THEN HEAP_MAGIC ELSE m2[x]
    <3>1. next \in Int /\ 1 \in Int
      BY <1>4, <1>5, <1>6
    <3> QED BY <3>1, <1>5, <1>8, HeaderFacts DEF m3
  <2> HIDE DEF m3
  <2>3. /\ m4 \in [Words -> Int]
        /\ \A x \in Words : m4[x] = IF x = next + rest - 2 + 1 THEN next
                                   ELSE IF x = next + rest - 2 THEN HEAP_MAGIC ELSE m3[x]
    <3>1. next + rest - FOOTER \in Int /\ FOOTER = 2 /\ next \in Int
      BY <1>4, <1>5, <1>6, Constants
    <3>2. next + rest - FOOTER < end_address
      BY <3>1, <1>4, <1>5, <1>6
    <3>3. m4 = Footer(m3, next + rest - FOOTER, next)
      BY <3>2
    <3> QED BY <3>1, <3>3, <2>2, FooterFacts
  <2> HIDE DEF m4
  <2>4. \A x \in Words : x < next => m4[x] = m2[x]
    <3>1. ASSUME NEW x \in Words, x < next PROVE m4[x] = m2[x]
      <4>1. x \in Int /\ next \in Int /\ rest \in Int
        BY <1>4, <1>5, <1>6, <1>13
      <4>2. /\ x # next + rest - 2 + 1 /\ x # next + rest - 2
            /\ x # next + 2 /\ x # next + 1 /\ x # next
        BY <3>1, <4>1, <2>1
      <4> QED BY <4>2, <2>2, <2>3
    <3> QED BY <3>1
  <2>5. \A x \in Words : x >= h + w => m4[x] = mem[x]
    <3>1. ASSUME NEW x \in Words, x >= h + w PROVE m4[x] = mem[x]
      <4>1. m4[x] = m3[x]
        BY <3>1, <2>1, <2>3, <1>4, <1>6, <1>13
      <4>2. m3[x] = m2[x]
        BY <3>1, <2>2, <1>4, <1>6, <1>13, <2>1
      <4>3. m2[x] = mem[x]
        BY <3>1, <2>1, <1>4, <1>6, <1>10, <1>13
      <4> QED BY <4>1, <4>2, <4>3
    <3> QED BY <3>1
  <2>6. Formed(m4, h, 0, need)
    <3>1. \A x \in {h, h + 1, h + 2, h + len - 2, h + len - 2 + 1} : x \in Words /\ x < next
      BY <2>1, <1>4, <1>5, <1>6
    <3> QED BY <3>1, <2>1, <2>4, <1>9 DEF Formed, FOOTER
  <2>7. Formed(m4, next, 1, rest)
    <3>1. \A x \in {next, next + 1, next + 2, next + rest - 2, next + rest - 2 + 1} : x \in Words
      BY <2>1, <1>4, <1>5, <1>6
    <3>2. next + 2 < next + rest - 2 /\ next \in Int /\ rest \in Int
      BY <2>1, <1>4, <1>6
    <3>3. /\ m4[next] = m3[next] /\ m4[next + 1] = m3[next + 1] /\ m4[next + 2] = m3[next + 2]
          /\ m4[next + rest - 2] = HEAP_MAGIC /\ m4[next + rest - 2 + 1] = next
      BY <3>1, <3>2, <2>3
    <3>4. m3[next] = HEAP_MAGIC /\ m3[next + 1] = 1 /\ m3[next + 2] = rest
      BY <3>1, <3>2, <2>2
    <3> QED BY <3>3, <3>4 DEF Formed, FOOTER
  <2>8. SameOutside(mem, m4, h, h + mem[h + 2])
    <3>1. ASSUME NEW x \in Words, x < h PROVE m4[x] = mem[x]
      BY <3>1, <2>1, <2>4, <1>4, <1>6, <1>10, Constants
    <3> QED BY <3>1, <2>5, <1>3 DEF SameOutside
  <2>9. next = h + need /\ rest = mem[h + 2] - need /\ need >= Overhead /\ need + Overhead <= mem[h + 2]
    BY <2>1, <1>3, <1>4, <1>6 DEF Overhead, HEADER, FOOTER
  <2>10. Layout(m4, (Holes \ {h}) \cup {next}, live \cup {h}, end_address)
         /\ NoneTouch(m4, (Holes \ {h}) \cup {next})
    BY <2>3, <2>6, <2>7, <2>8, <2>9, <1>2, <1>3, <1>4, TakeFront
  <2>11. ix \in Seq(Int) /\ ToSet(ix) = Holes \ {h} /\ Distinct(ix)
    BY <1>2, RemovedFacts DEF h, Holes
  <2>12. next \notin ToSet(ix) /\ next \in Int
    <3>1. next \in Int /\ h < next /\ next < h + mem[h + 2]
      BY <2>1, <1>3, <1>4, <1>6
    <3>2. next \notin Holes
      BY <3>1, <1>2, <1>3, InsideHole
    <3> QED BY <3>1, <3>2, <2>11
  <2>13. /\ Inserted(m4, ix, next) \in Seq(Int)
         /\ ToSet(Inserted(m4, ix, next)) = (Holes \ {h}) \cup {next}
         /\ Distinct(Inserted(m4, ix, next))
    <3> HIDE DEF ix
    <3>1. /\ Inserted(m4, ix, next) \in Seq(Int)
          /\ ToSet(Inserted(m4, ix, next)) = ToSet(ix) \cup {next}
          /\ Distinct(ix) /\ next \notin ToSet(ix) => Distinct(Inserted(m4, ix, next))
      BY <2>3, <2>11, <2>12, InsertedFacts
    <3> QED BY <3>1, <2>11, <2>12
  <2>14. \A b \in live : Same(m4, b)
    BY <2>8, <1>2, <1>3, BlocksSame
  <2>15. m4[h + 2] >= need
    BY <2>6, <1>4 DEF Formed
  <2> QED BY <2>1, <2>3, <2>10, <2>13, <2>14, <2>15, <1>1, <1>4 DEF need, r
<1> QED BY <1>11, <1>12

\* The cut of a page-aligned block is where its header ends on a page boundary,
\* and it is what find_smallest_hole took off, unless that is too close to h.
LEMMA CutFacts ==
    ASSUME NEW h \in Int
    PROVE  /\ Cut(h) \in Int /\ (h + Cut(h) + HEADER) % VMM_PAGE_SIZE = 0
           /\ Cut(h) >= 5 => Offset(h) = Cut(h)
<1> DEFINE q == h \div VMM_PAGE_SIZE
           r == h % VMM_PAGE_SIZE
           u == q * VMM_PAGE_SIZE
<1>1. VMM_PAGE_SIZE \in Nat \ {0} /\ HEADER = 3
  BY Constants
<1>2. q \in Int /\ r \in 0 .. VMM_PAGE_SIZE - 1 /\ h = u + r
  BY <1>1, DivMod
<1>3. Cut(h) = VMM_PAGE_SIZE - r - 3
  BY <1>1 DEF Cut
<1> HIDE DEF q, r
<1>4. u \in Int /\ (q + 1) * VMM_PAGE_SIZE = u + VMM_PAGE_SIZE
  BY <1>1, <1>2
<1>5. ((q + 1) * VMM_PAGE_SIZE + 0) % VMM_PAGE_SIZE = 0
  BY <1>1, <1>2, DivModUnique
<1>6. \A x \in 0 .. VMM_PAGE_SIZE - 1 : (u + x) % VMM_PAGE_SIZE = x
  BY <1>1, <1>2, DivModUnique
<1> HIDE DEF u
<1>7. h + Cut(h) + HEADER = u + VMM_PAGE_SIZE + 0
  BY <1>1, <1>2, <1>3, <1>4
<1>8. (h + Cut(h) + HEADER) % VMM_PAGE_SIZE = 0
  <2>1. h + Cut(h) + HEADER = (q + 1) * VMM_PAGE_SIZE + 0
    BY <1>4, <1>7
  <2> QED BY <2>1, <1>5, Zenon
<1>9. ASSUME Cut(h) >= 5 PROVE Offset(h) = Cut(h)
  <2>1. r + 3 \in 0 .. VMM_PAGE_SIZE - 1 /\ h + HEADER = u + (r + 3) /\ r + 3 # 0
    BY <1>1, <1>2, <1>3, <1>4, <1>9
  <2>2. (h + HEADER) % VMM_PAGE_SIZE = r + 3
    BY <2>1, <1>6
  <2> QED BY <2>1, <2>2, <1>1, <1>2, <1>3 DEF Offset
<1> QED BY <1>1, <1>2, <1>3, <1>8, <1>9

\* alloc writes words and puts addresses in the index, whatever it met.
LEMMA PlacedTypes ==
    ASSUME TypeOK, NEW size \in Nat, NEW i \in 1 .. Len(index), NEW align \in BOOLEAN
    PROVE  LET r == Placed(i, size, align)
           IN  /\ r.mem \in [Words -> Int] /\ r.index \in Seq(Int) /\ r.block \in Int
               /\ r.defect \in Defects \cup {"none"}
<1> DEFINE r == Placed(i, size, align)
           h == index[i]
           w == Size(mem, h)
           need == size + Overhead
           len == IF SlackTaken(w - need) THEN w ELSE need
           pos == IF align THEN h + Cut(h) ELSE h
           m0 == Header(mem, h, 1, Cut(h))
           m1 == IF align THEN Footer(m0, pos - FOOTER, h) ELSE mem
           ix == IF align THEN index ELSE Removed(index, i)
           rest == (IF align THEN w - Size(m1, h) ELSE w) - len
           k2 == Header(m1, pos, 0, len)
           m2 == Footer(k2, pos + len - FOOTER, pos)
           next == pos + len
           m3 == Header(m2, next, 1, rest)
           m4 == IF next + rest - FOOTER < end_address
                 THEN Footer(m3, next + rest - FOOTER, next) ELSE m3
<1>1. /\ r.block = pos
      /\ r.mem = IF rest # 0 THEN m4 ELSE m2
      /\ r.index = IF rest # 0 THEN Inserted(m4, ix, next) ELSE ix
      /\ r.defect \in Defects \cup {"none"}
  BY DEF Placed, FooterOf, Defects
<1> HIDE DEF r
<1>2. /\ mem \in [Words -> Int] /\ index \in Seq(Int) /\ DOMAIN index = 1 .. Len(index)
      /\ Len(index) \in Nat /\ i \in Nat \ {0} /\ FOOTER = 2 /\ Overhead = 5
  BY LenProperties, Constants DEF TypeOK
<1>3. h \in Int /\ Cut(h) \in Int
  BY <1>2, ElementOfSeq, CutFacts
<1>4. w \in Int
  BY <1>2, <1>3, ReadType
<1> HIDE DEF h
<1> HIDE DEF w
<1>5. len \in Int /\ pos \in Int
  BY <1>2, <1>3, <1>4
<1> HIDE DEF len
<1>6. m1 \in [Words -> Int]
  <2>1. CASE align
    <3>1. pos - FOOTER \in Int /\ 1 \in Int
      BY <1>2, <1>5
    <3>2. m0 \in [Words -> Int]
      BY <3>1, <1>2, <1>3, HeaderFacts
    <3> HIDE DEF m0, pos
    <3> QED BY <3>1, <3>2, <2>1, <1>3, FooterFacts
  <2> QED BY <2>1, <1>2
<1> HIDE DEF m1, pos
<1>7. rest \in Int
  <2>1. Size(m1, h) \in Int
    BY <1>3, <1>6, ReadType
  <2> QED BY <2>1, <1>4, <1>5
<1> HIDE DEF rest
<1>8. 0 \in Int /\ 1 \in Int /\ pos + len - FOOTER \in Int /\ next \in Int /\ next + rest - FOOTER \in Int
  BY <1>2, <1>5, <1>7
<1>9. k2 \in [Words -> Int]
  BY <1>5, <1>6, <1>8, HeaderFacts
<1> HIDE DEF k2
<1>10. m2 \in [Words -> Int]
  BY <1>5, <1>8, <1>9, FooterFacts
<1> HIDE DEF m2, next
<1>11. m3 \in [Words -> Int]
  BY <1>7, <1>8, <1>10, HeaderFacts
<1> HIDE DEF m3
<1>12. m4 \in [Words -> Int]
  BY <1>8, <1>11, FooterFacts
<1> HIDE DEF m4
<1>13. ix \in Seq(Int)
  BY <1>2, RemovedType
<1> HIDE DEF ix
<1>14. Inserted(m4, ix, next) \in Seq(Int)
  BY <1>8, <1>12, <1>13, InsertedFacts
<1> QED BY <1>1, <1>5, <1>10, <1>12, <1>13, <1>14 DEF r

\* alloc of a page-aligned block, as long as the cut leaves a hole on each side
\* or nothing behind the block.
LEMMA PlacedAligned ==
    ASSUME TypeOK, HeapKept, defect = "none", NEW size \in Nat \ {0},
           NEW i \in 1 .. Len(index), Fits(index[i], size + Overhead, TRUE),
           Placed(i, size, TRUE).defect = "none"
    PROVE  LET r == Placed(i, size, TRUE)
           IN  /\ Layout(r.mem, ToSet(r.index), live \cup {r.block}, end_address)
               /\ Distinct(r.index) /\ NoneTouch(r.mem, ToSet(r.index))
               /\ \A b \in live : Same(r.mem, b)
               /\ r.mem[r.block + 2] >= size + Overhead
               /\ (r.block + HEADER) % VMM_PAGE_SIZE = 0
<1> DEFINE r == Placed(i, size, TRUE)
           h == index[i]
           w == Size(mem, h)
           c == Cut(h)
           need == size + Overhead
           len == IF SlackTaken(w - need) THEN w ELSE need
           pos == h + c
           m0 == Header(mem, h, 1, c)
           m1 == Footer(m0, pos - FOOTER, h)
           rest == w - Size(m1, h) - len
           k2 == Header(m1, pos, 0, len)
           m2 == Footer(k2, pos + len - FOOTER, pos)
           next == pos + len
           m3 == Header(m2, next, 1, rest)
           m4 == IF next + rest - FOOTER < end_address
                 THEN Footer(m3, next + rest - FOOTER, next) ELSE m3
<1>1. /\ r.block = pos
      /\ r.mem = IF rest # 0 THEN m4 ELSE m2
      /\ r.index = IF rest # 0 THEN Inserted(m4, index, next) ELSE index
      /\ r.defect = IF c < Overhead THEN "cut too close"
                    ELSE IF rest \in 1 .. Overhead - 1 THEN "sliver" ELSE "none"
  BY DEF Placed, FooterOf
<1>2. r.defect = "none"
  OBVIOUS
<1> HIDE DEF r
<1>3. /\ mem \in [Words -> Int] /\ index \in Seq(Int) /\ Distinct(index) /\ DOMAIN index = 1 .. Len(index)
      /\ Layout(mem, Holes, live, end_address) /\ NoneTouch(mem, Holes)
      /\ Holes = ToSet(index)
  BY LenProperties DEF TypeOK, HeapKept, Holes
<1>4. h \in Holes /\ w = mem[h + 2]
  <2>1. h \in Holes
    BY <1>3 DEF ToSet
  <2> QED BY <2>1, <1>3, ReadSegment
<1>5. /\ h \in Int /\ w \in Int /\ h + w <= end_address
      /\ end_address \in Int /\ end_address <= LIMIT
      /\ \A a \in h .. h + w - 1 : a \in Words
  <2>1. /\ end_address \in Int /\ end_address <= LIMIT
        /\ Chain(mem, Holes \cup live, end_address) /\ h \in Holes \cup live
    BY <1>3, <1>4 DEF Layout
  <2> QED BY <2>1, <1>4, InWords
<1>6. c \in Int /\ c >= 5 /\ (pos + HEADER) % VMM_PAGE_SIZE = 0 /\ w - c >= need
  <2>1. c \in Int /\ (pos + HEADER) % VMM_PAGE_SIZE = 0 /\ (c >= 5 => Offset(h) = c)
    BY <1>5, CutFacts
  <2>2. ~(c < Overhead) /\ Overhead = 5
    BY <1>1, <1>2, Constants
  <2>3. c >= 5
    BY <2>1, <2>2
  <2> QED BY <2>1, <2>3 DEF Fits
<1>7. need \in Int /\ need >= 6
  BY Constants
<1>8. len = need
  <2>1. Overhead = 5
    BY Constants
  <2> HIDE DEF w, c, need
  <2>2. ~SlackTaken(w - need)
    BY <2>1, <1>5, <1>6, <1>7 DEF SlackTaken
  <2> QED BY <2>2
<1>9. \A x \in Words : x \in Int
  BY Constants
<1>10. pos \in Int /\ pos = h + c
  BY <1>5, <1>6
<1>23. h \in Int /\ w \in Int /\ c \in Int /\ need \in Int /\ pos \in Int
  BY <1>5, <1>6, <1>7, <1>10
<1> HIDE DEF h, w, c, need, len, pos
<1>11. /\ m0 \in [Words -> Int]
       /\ \A x \in Words : m0[x] = IF x = h + 2 THEN c ELSE IF x = h + 1 THEN 1
                                   ELSE IF x = h THEN HEAP_MAGIC ELSE mem[x]
  <2>1. 1 \in Int
    OBVIOUS
  <2> QED BY <2>1, <1>3, <1>5, <1>6, HeaderFacts
<1> HIDE DEF m0
<1>12. /\ m1 \in [Words -> Int]
       /\ \A x \in Words : m1[x] = IF x = pos - 2 + 1 THEN h ELSE IF x = pos - 2 THEN HEAP_MAGIC
                                   ELSE m0[x]
  <2>1. pos - FOOTER \in Int /\ FOOTER = 2
    BY <1>10, Constants
  <2> QED BY <2>1, <1>5, <1>11, FooterFacts
<1> HIDE DEF m1
<1>13. Size(m1, h) = c
  <2>1. h + 2 \in Words /\ h + 2 # pos - 2 + 1 /\ h + 2 # pos - 2
    BY <1>5, <1>6, <1>7, <1>10
  <2>2. m1[h + 2] = c
    BY <2>1, <1>11, <1>12
  <2> QED BY <2>1, <2>2 DEF Size, Read
<1>22. rest = w - c - need /\ next = pos + need
  BY <1>8, <1>13
<1>14. rest \in Int /\ (rest = 0 \/ rest >= 5) /\ next \in Int
  <2>1. rest = w - c - need /\ rest \in Int /\ rest >= 0 /\ next = pos + need /\ next \in Int
    BY <1>5, <1>6, <1>7, <1>8, <1>10, <1>13
  <2>2. ~(rest \in 1 .. Overhead - 1) /\ Overhead = 5
    BY <1>1, <1>2, Constants
  <2> HIDE DEF rest
  <2> QED BY <2>1, <2>2
<1> HIDE DEF rest, next
<1>15. /\ k2 \in [Words -> Int]
       /\ \A x \in Words : k2[x] = IF x = pos + 2 THEN need ELSE IF x = pos + 1 THEN 0
                                   ELSE IF x = pos THEN HEAP_MAGIC ELSE m1[x]
  <2>1. 0 \in Int
    OBVIOUS
  <2> QED BY <2>1, <1>7, <1>8, <1>10, <1>12, HeaderFacts
<1> HIDE DEF k2
<1>16. /\ m2 \in [Words -> Int]
       /\ \A x \in Words : m2[x] = IF x = pos + need - 2 + 1 THEN pos
                                   ELSE IF x = pos + need - 2 THEN HEAP_MAGIC ELSE k2[x]
  <2>1. pos + len - FOOTER = pos + need - 2 /\ pos + need - 2 \in Int
    BY <1>7, <1>8, <1>10, Constants
  <2> QED BY <2>1, <1>10, <1>15, FooterFacts
<1> HIDE DEF m2
<1>17. Formed(m2, h, 1, c)
  <2>1. \A x \in {h, h + 1, h + 2, h + c - 2, h + c - 2 + 1} : x \in Words /\ x < pos
    BY <1>5, <1>6, <1>7, <1>10
  <2>2. \A x \in {h, h + 1, h + 2, h + c - 2, h + c - 2 + 1} : m2[x] = m1[x]
    <3>1. ASSUME NEW x \in Words, x < pos PROVE m2[x] = m1[x]
      <4>1. x # pos + need - 2 + 1 /\ x # pos + need - 2 /\ x # pos + 2 /\ x # pos + 1 /\ x # pos
        BY <3>1, <1>7, <1>9, <1>23
      <4> QED BY <4>1, <1>15, <1>16
    <3> QED BY <3>1, <2>1
  <2>3. \A x \in {h, h + 1, h + 2} : x < h + c - 2
    BY <1>5, <1>6
  <2>4. m1[h] = HEAP_MAGIC /\ m1[h + 1] = 1 /\ m1[h + 2] = c
    <3>1. \A x \in {h, h + 1, h + 2} : x \in Words /\ x # pos - 2 + 1 /\ x # pos - 2
      BY <2>1, <1>6, <1>10, <1>23
    <3>2. \A x \in {h, h + 1, h + 2} : m1[x] = m0[x]
      BY <3>1, <1>12
    <3>3. h + 1 # h + 2 /\ h # h + 2 /\ h # h + 1
      BY <1>23
    <3>4. m0[h] = HEAP_MAGIC /\ m0[h + 1] = 1 /\ m0[h + 2] = c
      BY <3>1, <3>3, <1>11
    <3> QED BY <3>2, <3>4
  <2>5. m1[h + c - 2] = HEAP_MAGIC /\ m1[h + c - 2 + 1] = h
    BY <2>1, <1>5, <1>6, <1>10, <1>12
  <2> QED BY <2>2, <2>4, <2>5 DEF Formed, FOOTER
<1>18. Formed(m2, pos, 0, need)
  <2>1. \A x \in {pos, pos + 1, pos + 2, pos + need - 2, pos + need - 2 + 1} : x \in Words
    BY <1>5, <1>6, <1>7, <1>10
  <2>2. pos + 2 < pos + need - 2
    BY <1>7, <1>10
  <2>3. m2[pos] = HEAP_MAGIC /\ m2[pos + 1] = 0 /\ m2[pos + 2] = need
    <3>1. \A x \in {pos, pos + 1, pos + 2} :
            x \in Words /\ x # pos + need - 2 + 1 /\ x # pos + need - 2
      BY <2>1, <2>2, <1>23
    <3>2. \A x \in {pos, pos + 1, pos + 2} : m2[x] = k2[x]
      BY <3>1, <1>16
    <3>3. pos + 1 # pos + 2 /\ pos # pos + 2 /\ pos # pos + 1
      BY <1>23
    <3>4. k2[pos] = HEAP_MAGIC /\ k2[pos + 1] = 0 /\ k2[pos + 2] = need
      BY <3>1, <3>3, <1>15
    <3> QED BY <3>2, <3>4
  <2>4. m2[pos + need - 2] = HEAP_MAGIC /\ m2[pos + need - 2 + 1] = pos
    BY <2>1, <1>7, <1>10, <1>16
  <2> QED BY <2>3, <2>4 DEF Formed, FOOTER
<1>19. \A x \in Words : x < h \/ x >= pos + need => m2[x] = mem[x]
  <2>1. ASSUME NEW x \in Words, x < h \/ x >= pos + need PROVE m2[x] = mem[x]
    <3>1. m2[x] = k2[x] /\ k2[x] = m1[x]
      <4>1. x \in Int /\ (x < pos \/ x >= pos + need)
        BY <2>1, <1>6, <1>9, <1>10, <1>23
      <4> QED BY <4>1, <1>7, <1>15, <1>16, <1>23
    <3>2. m1[x] = m0[x] /\ m0[x] = mem[x]
      <4>1. x \in Int /\ (x < h \/ x >= pos)
        BY <2>1, <1>7, <1>9, <1>10, <1>23
      <4> QED BY <4>1, <1>6, <1>10, <1>11, <1>12, <1>23
    <3> QED BY <3>1, <3>2
  <2> QED BY <2>1
<1>20. CASE rest = 0
  <2>1. r.mem = m2 /\ r.index = index /\ pos + need = h + w
    <3>1. pos + need = h + w
      BY <1>10, <1>20, <1>22, <1>23
    <3> QED BY <3>1, <1>1, <1>20
  <2>2. SameOutside(mem, m2, h, h + mem[h + 2])
    BY <2>1, <1>4, <1>19 DEF SameOutside
  <2>3. c >= Overhead /\ c + Overhead <= mem[h + 2] /\ need = mem[h + 2] - c
    BY <1>4, <1>6, <1>7, <1>20, <1>22, <1>23 DEF Overhead, HEADER, FOOTER
  <2>4. Layout(m2, Holes, live \cup {pos}, end_address) /\ NoneTouch(m2, Holes)
    <3>1. Formed(m2, h + c, 0, mem[h + 2] - c)
      BY <2>3, <1>10, <1>18
    <3> QED BY <3>1, <2>2, <2>3, <1>3, <1>4, <1>6, <1>10, <1>16, <1>17, TakeBack
  <2>5. \A b \in live : Same(m2, b)
    BY <2>2, <1>3, <1>4, BlocksSame
  <2>6. m2[pos + 2] >= need
    BY <1>7, <1>18 DEF Formed
  <2> QED BY <2>1, <2>4, <2>5, <2>6, <1>1, <1>3, <1>6 DEF need, r
<1>21. CASE rest # 0
  <2>1. rest >= 5 /\ r.mem = m4 /\ r.index = Inserted(m4, index, next) /\ next + rest = h + w
    <3>1. next + rest = h + w
      BY <1>10, <1>22, <1>23
    <3> QED BY <3>1, <1>1, <1>14, <1>21
  <2>2. /\ m3 \in [Words -> Int]
        /\ \A x \in Words : m3[x] = IF x = next + 2 THEN rest ELSE IF x = next + 1 THEN 1
                                   ELSE IF x = next THEN HEAP_MAGIC ELSE m2[x]
    <3>1. 1 \in Int
      OBVIOUS
    <3> QED BY <3>1, <1>14, <1>16, HeaderFacts
  <2> HIDE DEF m3
  <2>3. /\ m4 \in [Words -> Int]
        /\ \A x \in Words : m4[x] = IF x = next + rest - 2 + 1 THEN next
                                   ELSE IF x = next + rest - 2 THEN HEAP_MAGIC ELSE m3[x]
    <3>1. next + rest - FOOTER \in Int /\ FOOTER = 2
      BY <1>14, <1>22, <1>23, Constants
    <3>2. next + rest - FOOTER < end_address
      BY <3>1, <2>1, <1>5, <1>14, <1>22, <1>23
    <3>3. m4 = Footer(m3, next + rest - FOOTER, next)
      BY <3>2
    <3> QED BY <3>1, <3>3, <2>2, <1>14, FooterFacts
  <2> HIDE DEF m4
  <2>4. \A x \in Words : x < next \/ x >= h + w => m4[x] = m2[x]
    <3>1. ASSUME NEW x \in Words, x < next \/ x >= h + w PROVE m4[x] = m2[x]
      <4>1. m4[x] = m3[x]
        BY <3>1, <2>1, <2>3, <1>5, <1>9, <1>14, <1>22, <1>23
      <4>2. m3[x] = m2[x]
        BY <3>1, <2>1, <2>2, <1>5, <1>9, <1>14, <1>22, <1>23
      <4> QED BY <4>1, <4>2
    <3> QED BY <3>1
  <2>5. Formed(m4, h, 1, c)
    <3>1. \A x \in {h, h + 1, h + 2, h + c - 2, h + c - 2 + 1} : x \in Words /\ x < next
      BY <1>5, <1>6, <1>7, <1>10, <1>14, <1>22, <1>23
    <3> QED BY <3>1, <2>4, <1>17 DEF Formed, FOOTER
  <2>6. Formed(m4, pos, 0, need)
    <3>1. \A x \in {pos, pos + 1, pos + 2, pos + need - 2, pos + need - 2 + 1} : x \in Words /\ x < next
      BY <1>5, <1>6, <1>7, <1>10, <1>14, <1>22, <1>23
    <3> QED BY <3>1, <2>4, <1>18 DEF Formed, FOOTER
  <2>7. Formed(m4, next, 1, rest)
    <3>1. \A x \in {next, next + 1, next + 2, next + rest - 2, next + rest - 2 + 1} : x \in Words
      BY <2>1, <1>5, <1>6, <1>7, <1>10, <1>14, <1>22, <1>23
    <3>2. next + 2 < next + rest - 2
      BY <2>1, <1>14, <1>22, <1>23
    <3>3. /\ m4[next] = m3[next] /\ m4[next + 1] = m3[next + 1] /\ m4[next + 2] = m3[next + 2]
          /\ m4[next + rest - 2] = HEAP_MAGIC /\ m4[next + rest - 2 + 1] = next
      BY <3>1, <3>2, <2>3, <1>14
    <3>4. m3[next] = HEAP_MAGIC /\ m3[next + 1] = 1 /\ m3[next + 2] = rest
      BY <3>1, <2>2, <1>14
    <3> QED BY <3>3, <3>4 DEF Formed, FOOTER
  <2>8. SameOutside(mem, m4, h, h + mem[h + 2])
    <3>1. ASSUME NEW x \in Words, x < h \/ x >= h + w PROVE m4[x] = mem[x]
      <4>1. m4[x] = m2[x]
        BY <3>1, <2>4, <1>5, <1>6, <1>7, <1>9, <1>10, <1>14, <1>22, <1>23
      <4>2. x < h \/ x >= pos + need
        BY <3>1, <2>1, <1>5, <1>9, <1>14, <1>22, <1>23
      <4> QED BY <4>1, <4>2, <1>19
    <3> QED BY <3>1, <1>4 DEF SameOutside
  <2>9. /\ c >= Overhead /\ need >= Overhead /\ c + need + Overhead <= mem[h + 2]
        /\ rest = mem[h + 2] - c - need /\ next = h + c + need
    <3>1. rest = w - c - need /\ next = h + c + need /\ rest >= 5 /\ w = mem[h + 2]
      BY <2>1, <1>4, <1>10, <1>22
    <3>2. Overhead = 5 /\ c >= 5 /\ need >= 6
      BY <1>6, <1>7 DEF Overhead, HEADER, FOOTER
    <3>3. c + need + 5 <= w
      BY <3>1, <1>23
    <3> QED BY <3>1, <3>2, <3>3, <1>23
  <2>10. Layout(m4, Holes \cup {next}, live \cup {pos}, end_address) /\ NoneTouch(m4, Holes \cup {next})
    <3>1. Formed(m4, h + c, 0, need) /\ Formed(m4, h + c + need, 1, mem[h + 2] - c - need)
      BY <2>6, <2>7, <2>9, <1>10
    <3>2. /\ Layout(m4, Holes \cup {h + c + need}, live \cup {h + c}, end_address)
          /\ NoneTouch(m4, Holes \cup {h + c + need})
      BY <3>1, <2>3, <2>5, <2>8, <2>9, <1>3, <1>4, <1>6, <1>7, TakeMiddle
    <3> QED BY <3>2, <2>9, <1>10
  <2>11. next \notin ToSet(index)
    <3>1. h < next /\ next < h + mem[h + 2]
      <4>1. next = h + c + need /\ next + rest = h + w /\ rest >= 5 /\ c >= 5 /\ need >= 6
        BY <2>1, <2>9, <1>6, <1>7
      <4>2. h < next /\ next < h + w
        BY <4>1, <1>14, <1>23
      <4> QED BY <4>2, <1>4
    <3> QED BY <3>1, <1>3, <1>4, <1>14, InsideHole
  <2>12. /\ ToSet(Inserted(m4, index, next)) = Holes \cup {next}
         /\ Distinct(Inserted(m4, index, next))
    <3>2. m4 \in [Words -> Int] /\ index \in Seq(Int) /\ next \in Int
      BY <2>3, <1>3, <1>14
    <3>1. /\ Inserted(m4, index, next) \in Seq(Int)
          /\ ToSet(Inserted(m4, index, next)) = ToSet(index) \cup {next}
          /\ Distinct(index) /\ next \notin ToSet(index) => Distinct(Inserted(m4, index, next))
      BY <3>2, InsertedFacts
    <3> QED BY <3>1, <2>11, <1>3
  <2>13. \A b \in live : Same(m4, b)
    BY <2>8, <1>3, <1>4, BlocksSame
  <2>14. m4[pos + 2] >= need
    BY <2>6, <1>7 DEF Formed
  <2> QED BY <2>1, <2>10, <2>12, <2>13, <2>14, <1>1, <1>6 DEF need, r
<1> QED BY <1>20, <1>21

(***************************************************************************)
(* The actions                                                             *)
(***************************************************************************)
\* find_smallest_hole returns a hole that fits.
LEMMA FirstFits ==
    ASSUME NEW need, NEW align, ~(Fitting(need, align) = {}), index \in Seq(Int)
    PROVE  FirstFit(need, align) \in 1 .. Len(index) /\ Fits(index[FirstFit(need, align)], need, align)
<1>1. Len(index) \in Nat /\ DOMAIN index = 1 .. Len(index)
  BY LenProperties
<1>2. Fitting(need, align) \subseteq Nat
  BY <1>1 DEF Fitting
<1>3. FirstFit(need, align) \in Fitting(need, align)
  BY <1>2, LeastPosition DEF FirstFit
<1> QED BY <1>1, <1>3 DEF Fitting

LEMMA PlaceStep ==
    ASSUME HeapInv, NEW size \in Nat \ {0}, NEW align \in BOOLEAN, alloc_place(size, align)
    PROVE  /\ HeapInv'
           /\ defect' = "none" =>
                /\ \A b \in live : Same(mem', b)
                /\ \A b \in live' \ live :
                     /\ mem'[b + 2] >= size + Overhead
                     /\ align => (b + HEADER) % VMM_PAGE_SIZE = 0
<1> DEFINE i == FirstFit(size + Overhead, align)
           r == Placed(i, size, align)
<1>1. /\ TypeOK /\ HeapKept /\ defect = "none"
      /\ index \in Seq(Int) /\ live \subseteq Int
  BY DEF HeapInv, TypeOK, alloc_place, Calls, Sound
<1>2. /\ mem' = r.mem /\ index' = r.index /\ live' = live \cup {r.block} /\ defect' = r.defect
      /\ request' = None
      /\ UNCHANGED <<end_address, mapped_end, halted>>
  BY DEF alloc_place
<1>3. i \in 1 .. Len(index) /\ Fits(index[i], size + Overhead, align)
  BY <1>1, FirstFits DEF alloc_place, NoFit
<1> HIDE DEF i
<1>4. /\ r.mem \in [Words -> Int] /\ r.index \in Seq(Int) /\ r.block \in Int
      /\ r.defect \in Defects \cup {"none"}
  BY <1>1, <1>3, PlacedTypes
<1>5. ASSUME r.defect = "none"
      PROVE  /\ Layout(r.mem, ToSet(r.index), live \cup {r.block}, end_address)
             /\ Distinct(r.index) /\ NoneTouch(r.mem, ToSet(r.index))
             /\ \A b \in live : Same(r.mem, b)
             /\ r.mem[r.block + 2] >= size + Overhead
             /\ align => (r.block + HEADER) % VMM_PAGE_SIZE = 0
  <2>1. CASE align
    <3>1. align = TRUE
      BY <2>1
    <3> QED BY <3>1, <1>1, <1>3, <1>5, PlacedAligned
  <2>2. CASE ~align
    <3>1. align = FALSE
      BY <2>2
    <3> QED BY <3>1, <1>1, <1>3, <1>5, PlacedFront
  <2> QED BY <2>1, <2>2
<1> HIDE DEF r
<1>6. TypeOK'
  <2>1. None.align \in BOOLEAN /\ None.size \in Requests \cup {0}
    BY DEF None
  <2>2. live' \subseteq Int
    BY <1>1, <1>2, <1>4
  <2>3. end_address' \in START + HEAP_MIN_SIZE .. LIMIT /\ mapped_end' \in end_address' .. LIMIT
        /\ halted' \in BOOLEAN
    BY <1>1, <1>2 DEF TypeOK
  <2> QED BY <1>2, <1>4, <2>1, <2>2, <2>3 DEF TypeOK
<1>7. HeapKept'
  <2>1. SUFFICES ASSUME r.defect = "none"
                 PROVE  /\ Layout(mem', Holes', live', end_address')
                        /\ Distinct(index') /\ NoneTouch(mem', Holes')
                        /\ end_address' % VMM_PAGE_SIZE = 0
    BY <1>2 DEF HeapKept
  <2>2. Holes' = ToSet(r.index)
    BY <1>2 DEF Holes
  <2>3. end_address % VMM_PAGE_SIZE = 0
    BY <1>1 DEF HeapKept
  <2> QED BY <2>1, <2>2, <2>3, <1>2, <1>5
<1>8. GrowthSuffices'
  BY <1>2 DEF GrowthSuffices
<1>9. defect' = "none" =>
        /\ \A b \in live : Same(mem', b)
        /\ \A b \in live' \ live : /\ mem'[b + 2] >= size + Overhead
                                   /\ align => (b + HEADER) % VMM_PAGE_SIZE = 0
  BY <1>2, <1>5
<1> QED BY <1>6, <1>7, <1>8, <1>9 DEF HeapInv

\* There is a hole with the highest address.
LEMMA HighestExists ==
    ASSUME NEW S, S # {}, NEW e \in Int, \A s \in S : s \in Int /\ s <= e
    PROVE  \E h \in S : \A g \in S : g <= h
<1> DEFINE T == {n \in Nat : \E s \in S : n = e - s}
<1>1. T \subseteq Nat /\ T # {}
  OBVIOUS
<1>2. PICK x \in T : \A y \in T : x <= y
  BY <1>1, LeastPosition
<1>3. PICK h \in S : x = e - h
  OBVIOUS
<1>4. ASSUME NEW g \in S PROVE g <= h
  <2>1. e - g \in T
    OBVIOUS
  <2>2. e - h <= e - g
    BY <2>1, <1>2, <1>3
  <2> QED BY <2>2
<1> QED BY <1>4

\* expand, where the last hole gets the new pages.
LEMMA GrowStep ==
    ASSUME HeapInv, NEW size \in Requests, NEW align \in BOOLEAN, alloc_grow(size, align)
    PROVE  /\ HeapInv'
           /\ defect' = "none" => \A b \in live : Same(mem', b)
<1> DEFINE top == NewEnd(size)
           more == top - end_address
           hole == IF index = <<>> THEN end_address ELSE HighestHole
           len == IF index = <<>> THEN more ELSE Size(mem, hole) + more
<1>1. /\ TypeOK /\ HeapKept /\ defect = "none" /\ size \in Nat \ {0}
      /\ top <= LIMIT /\ end_address' = top /\ mapped_end' = top
      /\ index' = IF index = <<>> THEN <<hole>> ELSE index
      /\ defect' = IF hole + len # top THEN "growth over a block" ELSE "none"
      /\ request' = [size |-> size, align |-> align]
      /\ live' = live /\ halted' = halted
  BY HeapAssumption DEF HeapInv, alloc_grow, Calls, Sound
<1>17. TypeOK /\ size \in Nat \ {0} /\ top <= LIMIT
  BY <1>1
<1>2. PICK m \in {mem, Fresh(mem, top)} :
        mem' = Footer(Header(m, hole, 1, len), hole + len - FOOTER, hole)
  BY DEF alloc_grow
<1>3. /\ mem \in [Words -> Int] /\ index \in Seq(Int) /\ live \subseteq Int
      /\ end_address \in Int /\ end_address >= START + HEAP_MIN_SIZE /\ end_address <= LIMIT
      /\ halted \in BOOLEAN /\ START \in Nat /\ HEAP_MIN_SIZE \in Nat /\ LIMIT \in Int
  <2>1. START \in Nat /\ HEAP_MIN_SIZE \in Nat /\ LIMIT \in Int
    BY Constants
  <2>2. end_address \in START + HEAP_MIN_SIZE .. LIMIT
    BY <1>17 DEF TypeOK
  <2>3. mem \in [Words -> Int] /\ index \in Seq(Int) /\ live \subseteq Int /\ halted \in BOOLEAN
    BY <1>17 DEF TypeOK
  <2> QED BY <2>1, <2>2, <2>3
<1>4. /\ top \in Int /\ top >= end_address + size + 5 /\ top % VMM_PAGE_SIZE = 0
      /\ more \in Int /\ more >= size + 5
  <2>1. end_address \in Int /\ end_address >= START /\ size \in Nat /\ Overhead = 5
    <3>1. Overhead = 5
      BY Constants
    <3> HIDE DEF top
    <3> QED BY <3>1, <1>17, <1>3
  <2>2. /\ top \in Int /\ top >= end_address + size + 5 /\ top % VMM_PAGE_SIZE = 0
    BY <2>1, GrowsEnough
  <2> HIDE DEF top
  <2> QED BY <2>1, <2>2
<1>5. /\ Layout(mem, Holes, live, end_address) /\ Distinct(index) /\ NoneTouch(mem, Holes)
      /\ Holes = ToSet(index)
  BY <1>1 DEF HeapKept, Holes
<1>6. m \in [Words -> Int] /\ \A a \in Words : a < end_address => m[a] = mem[a]
  <2>1. \A a \in Words : a \in Int
    BY Constants
  <2>2. ASSUME m = Fresh(mem, top), NEW a \in Words, a < end_address PROVE m[a] = mem[a]
    <3>1. a \notin end_address .. top - 1
      BY <2>1, <2>2, <1>3
    <3> HIDE DEF top
    <3> QED BY <2>2, <3>1 DEF Fresh
  <2>3. Fresh(mem, top) \in [Words -> Int]
    BY <1>3 DEF Fresh
  <2> HIDE DEF top
  <2> QED BY <2>2, <2>3, <1>3
<1>7. index # <<>> => /\ HighestHole \in Holes /\ HighestHole \in Int /\ HighestHole <= end_address
                      /\ START <= HighestHole
                      /\ Size(mem, HighestHole) = mem[HighestHole + 2] /\ mem[HighestHole + 2] \in Int
                      /\ mem[HighestHole + 2] >= 5
  <2> SUFFICES ASSUME index # <<>> PROVE
                      /\ HighestHole \in Holes /\ HighestHole \in Int /\ HighestHole <= end_address
                      /\ START <= HighestHole
                      /\ Size(mem, HighestHole) = mem[HighestHole + 2] /\ mem[HighestHole + 2] \in Int
                      /\ mem[HighestHole + 2] >= 5
    OBVIOUS
  <2>1. Chain(mem, Holes \cup live, end_address)
    BY <1>5 DEF Layout
  <2>2. \A s \in Holes \cup live : s \in Int /\ START <= s /\ s <= end_address
    <3>1. ASSUME NEW s \in Holes \cup live PROVE s \in Int /\ START <= s /\ s <= end_address
      <4>1. end_address \in Int /\ end_address <= LIMIT
        BY <1>3
      <4>2. s \in Int /\ START <= s /\ s + mem[s + 2] <= end_address /\ mem[s + 2] \in Int /\ mem[s + 2] >= 5
        BY <2>1, <4>1, InWords
      <4> QED BY <4>1, <4>2
    <3> QED BY <3>1
  <2>3. Holes # {}
    <3>1. Len(index) \in Nat /\ Len(index) # 0 /\ DOMAIN index = 1 .. Len(index)
      BY <1>3, LenProperties, EmptySeq
    <3>2. 1 \in DOMAIN index
      BY <3>1
    <3> QED BY <3>2, <1>5 DEF ToSet
  <2>4. \E h \in Holes : \A g \in Holes : g <= h
    BY <2>2, <2>3, <1>3, HighestExists
  <2>5. HighestHole \in Holes
    BY <2>4, <1>5 DEF HighestHole
  <2> QED BY <2>1, <2>2, <2>5, <1>3, <1>5, InWords, ReadSegment
<1>8. hole \in Int /\ len \in Int /\ START <= hole /\ hole <= end_address /\ len >= size + 5
  <2>1. CASE index = <<>>
    BY <2>1, <1>3, <1>4
  <2>2. CASE index # <<>>
    <3>1. len = mem[HighestHole + 2] + more /\ hole = HighestHole
      BY <2>2, <1>7
    <3> HIDE DEF more, hole, len, top
    <3>2. more \in Int /\ more >= size + 5 /\ size \in Nat /\ START \in Nat /\ end_address \in Int
      BY <1>1, <1>3, <1>4
    <3> QED BY <2>2, <3>1, <3>2, <1>7
  <2> QED BY <2>1, <2>2
<1> DEFINE m1 == Header(m, hole, 1, len)
<1> HIDE DEF hole, len, top, more
<1>9. m1 \in [Words -> Int] /\ \A x \in Words : m1[x] =
                IF x = hole + 2 THEN len ELSE IF x = hole + 1 THEN 1
                ELSE IF x = hole THEN HEAP_MAGIC ELSE m[x]
  <2>1. 1 \in Int
    OBVIOUS
  <2> QED BY <2>1, <1>6, <1>8, HeaderFacts
<1>10. mem' \in [Words -> Int] /\ \A x \in Words : mem'[x] =
                IF x = hole + len - 2 + 1 THEN hole ELSE IF x = hole + len - 2 THEN HEAP_MAGIC
                ELSE m1[x]
  <2>1. hole + len - FOOTER = hole + len - 2 /\ hole + len - 2 \in Int
    BY <1>8, Constants
  <2> HIDE DEF m1
  <2>2. mem' = Footer(m1, hole + len - 2, hole)
    BY <2>1, <1>2 DEF m1
  <2> QED BY <2>1, <2>2, <1>8, <1>9, FooterFacts
<1> HIDE DEF m1
<1>11. \A x \in Words : x \in Int
  BY Constants
<1>12. \A x \in Words : x < hole => mem'[x] = mem[x]
  <2>1. ASSUME NEW x \in Words, x < hole PROVE mem'[x] = mem[x]
    <3>2. x \in Int /\ size \in Nat /\ end_address \in Int
      BY <1>17, <1>3, <1>11
    <3>1. x \in Int /\ x < end_address /\ x < hole + len - 2
      BY <2>1, <3>2, <1>8
    <3> QED BY <3>1, <2>1, <1>6, <1>8, <1>9, <1>10
  <2> QED BY <2>1
<1>13. TypeOK'
  <2>1. index' \in Seq(Int)
    <3>1. <<hole>> \in Seq(Int)
      BY <1>8
    <3>2. index' = <<hole>> \/ index' = index
      BY <1>1
    <3> QED BY <3>1, <3>2, <1>3
  <2>2. end_address' \in START + HEAP_MIN_SIZE .. LIMIT /\ mapped_end' \in end_address' .. LIMIT
    <3>1. top \in START + HEAP_MIN_SIZE .. LIMIT
      BY <1>17, <1>3, <1>4
    <3>2. top \in top .. LIMIT
      BY <3>1, <1>3
    <3> QED BY <3>1, <3>2, <1>1
  <2>3. request'.align \in BOOLEAN /\ request'.size \in Requests \cup {0}
    BY <1>1
  <2>4. defect' \in Defects \cup {"none"}
    BY <1>1 DEF Defects
  <2> QED BY <2>1, <2>2, <2>3, <2>4, <1>1, <1>3, <1>10 DEF TypeOK
<1>14. ASSUME defect' = "none"
       PROVE  /\ HeapKept' /\ hole \in Holes' /\ mem'[hole + 2] >= size + 5
              /\ \A b \in live : Same(mem', b)
  <2>1. hole + len = top
    BY <1>1, <1>14
  <2>2. Formed(mem', hole, 1, len)
    <3>1. \A x \in {hole, hole + 1, hole + 2, hole + len - 2, hole + len - 2 + 1} : x \in Words
      BY <2>1, <1>1, <1>3, <1>8, Constants
    <3>2. hole + 2 < hole + len - 2
      BY <1>17, <1>8
    <3>3. mem'[hole] = HEAP_MAGIC /\ mem'[hole + 1] = 1 /\ mem'[hole + 2] = len
      BY <3>1, <3>2, <1>8, <1>9, <1>10
    <3>4. mem'[hole + len - 2] = HEAP_MAGIC /\ mem'[hole + len - 2 + 1] = hole
      BY <3>1, <1>8, <1>10
    <3> QED BY <3>3, <3>4 DEF Formed, FOOTER
  <2>3. top - hole = len /\ len >= Overhead
    BY <2>1, <1>1, <1>8 DEF Overhead, HEADER, FOOTER
  <2>4. ASSUME NEW b \in live PROVE b \in Int /\ mem[b + 2] \in Int /\ b + mem[b + 2] <= end_address
                                    /\ \A a \in b .. b + mem[b + 2] - 1 : a \in Words
    <3>1. Chain(mem, Holes \cup live, end_address) /\ b \in Holes \cup live
      BY <1>5 DEF Layout
    <3>2. end_address \in Int /\ end_address <= LIMIT
      BY <1>3
    <3> QED BY <3>1, <3>2, InWords
  <2>5. CASE index = <<>>
    <3>1. hole = end_address /\ len = top - end_address /\ index' = <<hole>>
      BY <2>5, <1>1 DEF hole, len, more
    <3>2. Holes = {} /\ Holes' = {end_address} /\ Distinct(index')
      BY <2>5, <3>1, <1>5 DEF Holes, ToSet, Distinct
    <3>3. Layout(mem', {end_address}, live, top)
      BY <3>1, <3>2, <2>2, <2>3, <1>1, <1>3, <1>4, <1>5, <1>10, <1>12, NewHole
    <3>4. NoneTouch(mem', {end_address})
      BY <3>1, <2>2, <2>3, <1>3, <1>4, <1>8 DEF NoneTouch, Formed, Overhead, HEADER, FOOTER
    <3>5. ASSUME NEW b \in live PROVE Same(mem', b)
      BY <2>4, <3>1, <1>3, <1>11, <1>12 DEF Same
    <3> QED BY <3>1, <3>2, <3>3, <3>4, <3>5, <2>2, <1>1, <1>4, <1>8 DEF HeapKept, Formed
  <2>6. CASE index # <<>>
    <3>1. hole = HighestHole /\ len = mem[hole + 2] + (top - end_address) /\ index' = index
          /\ hole \in Holes /\ mem[hole + 2] \in Int
      BY <2>6, <1>1, <1>7 DEF hole, len, more
    <3>2. hole + mem[hole + 2] = end_address
      <4>1. len = mem[hole + 2] + (top - end_address) /\ mem[hole + 2] \in Int
        BY <3>1
      <4>3. hole + len = top
        BY <2>1
      <4>2. end_address \in Int /\ top \in Int /\ hole \in Int
        BY <1>3, <1>4, <1>8
      <4> DEFINE k == mem[hole + 2]
      <4>4. len = k + (top - end_address) /\ k \in Int
        BY <4>1
      <4> HIDE DEF k
      <4>5. hole + k = end_address
        BY <4>2, <4>3, <4>4
      <4> QED BY <4>5 DEF k
    <3>3. Holes' = Holes
      BY <3>1 DEF Holes
    <3>4. Layout(mem', Holes, live, top)
      <4>1. top \in Int /\ top <= LIMIT /\ mem' \in [Words -> Int]
            /\ Layout(mem, Holes, live, end_address)
            /\ hole \in Holes /\ hole + mem[hole + 2] = end_address
        BY <3>1, <3>2, <1>1, <1>4, <1>5, <1>10
      <4>2. top - hole >= Overhead /\ Formed(mem', hole, 1, top - hole)
            /\ \A a \in Words : a < hole => mem'[a] = mem[a]
        BY <3>1, <3>2, <2>2, <2>3, <1>4, <1>10, <1>12
      <4> HIDE DEF top, hole
      <4> QED BY <4>1, <4>2, MoveEnd
    <3>5. ASSUME NEW s \in Holes \cup live, s # hole
          PROVE  s \in Int /\ mem[s + 2] \in Int /\ mem[s + 2] >= 5 /\ s + mem[s + 2] <= hole
                 /\ \A a \in s .. s + mem[s + 2] - 1 : a \in Words
      <4>1. /\ end_address \in Int /\ end_address <= LIMIT
            /\ Chain(mem, Holes \cup live, end_address) /\ hole \in Holes \cup live
        BY <3>1, <1>5 DEF Layout
      <4>2. s \in Int /\ s + mem[s + 2] <= hole
        BY <4>1, <3>2, <3>5, LastSegment
      <4>3. mem[s + 2] \in Int /\ mem[s + 2] >= 5 /\ \A a \in s .. s + mem[s + 2] - 1 : a \in Words
        BY <4>1, InWords
      <4> QED BY <4>2, <4>3
    <3>6. NoneTouch(mem', Holes)
      <4>1. ASSUME NEW s \in Holes PROVE s + mem'[s + 2] \notin Holes
        <5>1. CASE s = hole
          <6>1. s + mem'[s + 2] = top
            BY <5>1, <2>1, <2>2 DEF Formed
          <6>2. \A g \in Holes : g \in Int /\ g < top
            <7>1. ASSUME NEW g \in Holes PROVE g \in Int /\ g < top
              <8>1. Chain(mem, Holes \cup live, end_address) /\ g \in Holes \cup live
                BY <1>5 DEF Layout
              <8>2. g \in Int /\ mem[g + 2] \in Int /\ mem[g + 2] >= 5 /\ g + mem[g + 2] <= end_address
                BY <8>1, <1>3, InWords
              <8>3. size \in Nat
                BY <1>1
              <8> QED BY <8>2, <8>3, <1>3, <1>4
            <7> QED BY <7>1
          <6> QED BY <6>1, <6>2, <1>4
        <5>2. CASE s # hole
          <6>1. mem'[s + 2] = mem[s + 2]
            BY <5>2, <3>5, <1>8, <1>12
          <6> QED BY <6>1, <1>5 DEF NoneTouch
        <5> QED BY <5>1, <5>2
      <4> QED BY <4>1 DEF NoneTouch
    <3>7. ASSUME NEW b \in live PROVE Same(mem', b)
      <4>1. b # hole
        BY <3>1, <1>5 DEF Layout
      <4> QED BY <4>1, <3>5, <1>8, <1>11, <1>12 DEF Same
    <3> QED BY <3>1, <3>3, <3>4, <3>6, <3>7, <2>2, <1>1, <1>4, <1>5, <1>8 DEF HeapKept, Formed
  <2> QED BY <2>5, <2>6
<1>15. HeapKept'
  BY <1>14 DEF HeapKept
<1>16. GrowthSuffices'
  <2>1. SUFFICES ASSUME defect' = "none", align = FALSE PROVE ~NoFit(size, FALSE)'
    <3>1. request'.size = size /\ request'.align = align
      BY <1>1
    <3> QED BY <3>1 DEF GrowthSuffices, Sound
  <2>2. hole \in Holes' /\ mem'[hole + 2] >= size + 5 /\ Layout(mem', Holes', live', end_address')
    BY <2>1, <1>14 DEF HeapKept
  <2>3. PICK j \in DOMAIN index' : index'[j] = hole
    BY <2>2 DEF Holes, ToSet
  <2>4. Size(mem', hole) = mem'[hole + 2]
    BY <2>2, ReadSegment
  <2>5. mem'[hole + 2] \in Int
    <3>1. hole \in Holes' \cup live' /\ Chain(mem', Holes' \cup live', end_address')
      BY <2>2 DEF Layout
    <3>2. end_address' \in Int /\ end_address' <= LIMIT
      BY <1>1, <1>4
    <3> QED BY <3>1, <3>2, InWords
  <2>6. j \in Fitting(size + Overhead, FALSE)'
    <3>1. Size(mem, index[j])' >= size + Overhead
      BY <2>2, <2>3, <2>4 DEF Overhead, HEADER, FOOTER
    <3>2. Size(mem, index[j])' \in Int
      BY <2>3, <2>4, <2>5
    <3> QED BY <2>3, <3>1, <3>2 DEF Fitting, Fits
  <2> QED BY <2>6 DEF NoFit
<1> QED BY <1>13, <1>14, <1>15, <1>16 DEF HeapInv

(***************************************************************************)
(* free, stage by stage: the block is marked as a hole, merged with a hole *)
(* before it, with a hole behind it, and given another end if it is last   *)
(***************************************************************************)
Marked(b) == [mem EXCEPT ![b + 1] = 1]

LEMMA MarkedLayout ==
    ASSUME Layout(mem, Holes, live, end_address), NEW b \in live
    PROVE  /\ Layout(Marked(b), Holes \cup {b}, live \ {b}, end_address)
           /\ Marked(b)[b + 1] = 1 /\ \A x \in Words : x # b + 1 => Marked(b)[x] = mem[x]
           /\ Marked(b) \in [Words -> Int]
           /\ b \in Int /\ START <= b /\ mem[b + 2] \in Int /\ mem[b + 2] >= 5
           /\ b + mem[b + 2] <= end_address
           /\ \A a \in b .. b + mem[b + 2] - 1 : a \in Words
<1> DEFINE m1 == Marked(b)
<1>1. /\ end_address \in Int /\ end_address <= LIMIT /\ Chain(mem, Holes \cup live, end_address)
      /\ b \in Holes \cup live /\ b \notin Holes /\ mem \in [Words -> Int]
  BY DEF Layout
<1>2. /\ b \in Int /\ START <= b /\ mem[b + 2] \in Int /\ mem[b + 2] >= 5
      /\ b + mem[b + 2] <= end_address
      /\ \A a \in b .. b + mem[b + 2] - 1 : a \in Words
  BY <1>1, InWords
<1>3. m1 \in [Words -> Int] /\ m1[b + 1] = 1 /\ \A x \in Words : x # b + 1 => m1[x] = mem[x]
  <2>1. b + 1 \in Words /\ 1 \in Int
    BY <1>2
  <2> QED BY <2>1, <1>1 DEF Marked
<1> HIDE DEF m1
<1>4. Formed(m1, b, 1, mem[b + 2])
  <2>1. /\ mem[b] = HEAP_MAGIC /\ mem[b + mem[b + 2] - FOOTER] = HEAP_MAGIC
        /\ mem[b + mem[b + 2] - FOOTER + 1] = b
    BY <1>1 DEF Layout, Chain
  <2>2. \A x \in {b, b + 2, b + mem[b + 2] - 2, b + mem[b + 2] - 2 + 1} : x \in Words /\ x # b + 1
    BY <1>2
  <2> QED BY <2>1, <2>2, <1>3 DEF Formed, FOOTER
<1>5. SameOutside(mem, m1, b, b + mem[b + 2])
  BY <1>2, <1>3 DEF SameOutside
<1>6. Layout(m1, Holes \cup {b}, live \ {b}, end_address)
  <2>1. 1 \in {0, 1}
    OBVIOUS
  <2>2. Layout(m1, IF 1 = 1 THEN Holes \cup {b} ELSE Holes \ {b},
                   IF 1 = 1 THEN live \ {b} ELSE live \cup {b}, end_address)
    BY <2>1, <1>1, <1>3, <1>4, <1>5, Recast
  <2> QED BY <2>2
<1> QED BY <1>2, <1>3, <1>6 DEF m1

\* The words before a block are the footer of a hole exactly if there is a hole,
\* and what that names is in the hole.
LEMMA LeftFacts ==
    ASSUME Layout(mem, Holes, live, end_address), NEW b \in live
    PROVE  LET q == Read(Marked(b), b - FOOTER + 1)
           IN  /\ LeftHole(Marked(b), b) =>
                    \E p \in Holes : p + mem[p + 2] = b /\ q \in p .. b - 5 /\ (q \in Segments => q = p)
               /\ ~LeftHole(Marked(b), b) => \A p \in Holes : p + mem[p + 2] # b
<1> DEFINE m1 == Marked(b)
           q == Read(m1, b - FOOTER + 1)
<1>1. /\ end_address \in Int /\ end_address <= LIMIT /\ Chain(mem, Holes \cup live, end_address)
      /\ b \in Holes \cup live /\ b \notin Holes
  BY DEF Layout
<1>2. /\ m1[b + 1] = 1 /\ \A x \in Words : x # b + 1 => m1[x] = mem[x]
      /\ b \in Int /\ START <= b /\ mem[b + 2] \in Int /\ mem[b + 2] >= 5 /\ b + mem[b + 2] <= end_address
  BY MarkedLayout
<1> HIDE DEF m1
<1>3. /\ b - 2 \in Words /\ b - 1 \in Words
      /\ Read(m1, b - FOOTER) = mem[b - 2] /\ q = mem[b - 1] /\ START - 2 \in Words
  <2>1. /\ Words = START - 2 .. LIMIT - 1 /\ FOOTER = 2 /\ START \in Nat /\ LIMIT \in Int
    BY Constants
  <2>2. b - 2 \in Words /\ b - 1 \in Words /\ START - 2 \in Words
    BY <2>1, <1>1, <1>2
  <2>3. b - FOOTER = b - 2 /\ b - FOOTER + 1 = b - 1 /\ b - 1 # b + 1 /\ b - 2 # b + 1
    BY <2>1, <1>2
  <2> QED BY <2>2, <2>3, <1>2 DEF Read
<1>4. ASSUME NEW p \in Holes, p + mem[p + 2] = b
      PROVE  LeftHole(m1, b) /\ q \in p .. b - 5 /\ (q \in Segments => q = p)
  <2>1. /\ p \in Int /\ mem[p + 2] \in Int /\ mem[p + 2] >= 5
        /\ \A a \in p .. p + mem[p + 2] - 1 : a \in Words
    BY <1>1, InWords
  <2>2. FooterNames(mem, p, b - 2, end_address)
    <3>1. FooterNames(mem, p, p + mem[p + 2] - FOOTER, end_address)
      BY DEF Layout
    <3>2. p + mem[p + 2] - FOOTER = b - 2
      BY <1>2, <1>4, <2>1 DEF FOOTER
    <3> QED BY <3>1, <3>2
  <2>3. b # end_address
    BY <1>1, <1>2
  <2>4. mem[b - 2] = HEAP_MAGIC /\ mem[b - 1] \in p .. b - 5 /\ mem[mem[b - 1] + 1] = 1
    BY <2>2, <2>3, <1>2 DEF FooterNames, FOOTER, HEADER
  <2>5. q \in p .. b - 5 /\ mem[q + 1] = 1
    BY <2>4, <1>3
  <2> HIDE DEF q
  <2>6. m1[q + 1] = 1 /\ q + 1 \in Words
    BY <2>1, <2>5, <1>2, <1>4
  <2>7. LeftHole(m1, b)
    BY <2>4, <2>6, <1>3 DEF LeftHole, IsHole, Read, q
  <2>8. ASSUME q # p PROVE q \notin Segments
    <3>1. q \in Int /\ p < q /\ q < p + mem[p + 2]
      BY <2>1, <2>5, <2>8, <1>2, <1>4
    <3> QED BY <3>1, InsideHole DEF Segments
  <2> QED BY <2>5, <2>7, <2>8
<1>5. ASSUME LeftHole(m1, b) PROVE \E p \in Holes : p + mem[p + 2] = b
  <2>1. mem[b - 2] = HEAP_MAGIC /\ IsHole(m1, q) = 1
    BY <1>3, <1>5 DEF LeftHole
  <2>2. b # START
    BY <2>1, <1>2, <1>3, Constants DEF Layout
  <2>3. PICK p \in Holes \cup live : p + mem[p + 2] = b
    BY <2>2, <1>1 DEF Chain
  <2>4. ASSUME p \in live PROVE FALSE
    <3>1. mem[b - 1] = p /\ mem[p + 1] = 0
      <4>3. p \in Int /\ mem[p + 2] \in Int
        BY <1>1, InWords
      <4>1. b - 2 + 1 = b - 1 /\ p + mem[p + 2] - FOOTER = b - 2
        BY <4>3, <1>2, <2>3 DEF FOOTER
      <4>2. mem[p + 1] = 0 /\ mem[p + mem[p + 2] - FOOTER + 1] = p
        BY <2>4 DEF Layout
      <4> QED BY <4>1, <4>2
    <3>2. /\ p \in Int /\ mem[p + 2] \in Int /\ mem[p + 2] >= 5
          /\ \A a \in p .. p + mem[p + 2] - 1 : a \in Words
      BY <1>1, InWords
    <3>3. p + 1 \in Words /\ p + 1 # b + 1
      BY <3>2, <2>3, <1>2
    <3>4. IsHole(m1, p) = 0
      BY <3>1, <3>3, <1>2 DEF IsHole, Read
    <3> QED BY <3>1, <3>4, <2>1, <1>3
  <2> QED BY <2>3, <2>4
<1> QED BY <1>4, <1>5 DEF m1

\* After it: what is the header, the memory and the holes.
LeftHeader(b) == IF LeftHole(Marked(b), b) THEN Read(Marked(b), b - FOOTER + 1) ELSE b
LeftHoles(b) == IF LeftHole(Marked(b), b) THEN Holes ELSE Holes \cup {b}
WithLeft(b) ==
    IF LeftHole(Marked(b), b)
    THEN [Marked(b) EXCEPT ![b + mem[b + 2] - FOOTER + 1] = LeftHeader(b),
                           ![LeftHeader(b) + 2] = @ + mem[b + 2]]
    ELSE Marked(b)
WithRight(m, header, after) ==
    IF RightHole(m, after) THEN [m EXCEPT ![header + 2] = @ + Size(m, after)] ELSE m
WithoutRight(m, H, after) == IF RightHole(m, after) THEN H \ {after} ELSE H
Resized(m, header, keep) == Footer([m EXCEPT ![header + 2] = keep], header + keep - FOOTER, header)

LEMMA TwoUpdates ==
    ASSUME NEW m \in [Words -> Int], NEW i \in Words, NEW j \in Words, i # j,
           NEW a \in Int, NEW v \in Int
    PROVE  LET n == [m EXCEPT ![i] = a, ![j] = @ + v]
           IN  /\ n \in [Words -> Int] /\ n[j] = m[j] + v /\ n[i] = a
               /\ \A x \in Words : x # j /\ x # i => n[x] = m[x]
OBVIOUS

\* The block is a hole of its own, or part of the one before it.
LEMMA MergedLeft ==
    ASSUME Layout(mem, Holes, live, end_address), NoneTouch(mem, Holes), NEW b \in live,
           LeftHole(Marked(b), b) => LeftHeader(b) \in Segments
    PROVE  LET header == LeftHeader(b)
               n == WithLeft(b)
               H == LeftHoles(b)
           IN  /\ n \in [Words -> Int] /\ Layout(n, H, live \ {b}, end_address)
               /\ header \in H /\ header \in Int /\ START <= header /\ header <= b
               /\ header + n[header + 2] = b + mem[b + 2]
               /\ \A x \in Words : x < header \/ x >= b + mem[b + 2] => n[x] = mem[x]
               /\ \A s \in H : s # header => s + n[s + 2] \notin H
<1> DEFINE header == LeftHeader(b)
           n == WithLeft(b)
           H == LeftHoles(b)
           m1 == Marked(b)
           left == LeftHole(m1, b)
           after == b + mem[b + 2]
<1>1. /\ end_address \in Int /\ end_address <= LIMIT /\ Chain(mem, Holes \cup live, end_address)
      /\ b \in Holes \cup live /\ b \notin Holes
  BY DEF Layout
<1>7. /\ header = IF left THEN Read(m1, b - FOOTER + 1) ELSE b
      /\ H = IF left THEN Holes ELSE Holes \cup {b}
      /\ left => header \in Segments
  BY DEF LeftHeader, LeftHoles
<1>8. n = IF left THEN [m1 EXCEPT ![b + mem[b + 2] - FOOTER + 1] = header,
                                  ![header + 2] = @ + mem[b + 2]]
                  ELSE m1
  BY DEF WithLeft
<1> HIDE DEF header, n, H
<1> SUFFICES /\ n \in [Words -> Int] /\ Layout(n, H, live \ {b}, end_address)
             /\ header \in H /\ header \in Int /\ START <= header /\ header <= b
             /\ header + n[header + 2] = b + mem[b + 2]
             /\ \A x \in Words : x < header \/ x >= b + mem[b + 2] => n[x] = mem[x]
             /\ \A s \in H : s # header => s + n[s + 2] \notin H
  BY DEF header, n, H
<1>2. /\ Layout(m1, Holes \cup {b}, live \ {b}, end_address)
      /\ m1[b + 1] = 1 /\ \A x \in Words : x # b + 1 => m1[x] = mem[x]
      /\ m1 \in [Words -> Int]
      /\ b \in Int /\ START <= b /\ mem[b + 2] \in Int /\ mem[b + 2] >= 5
      /\ after <= end_address
      /\ \A a \in b .. after - 1 : a \in Words
  <2>1. /\ Layout(Marked(b), Holes \cup {b}, live \ {b}, end_address)
        /\ Marked(b)[b + 1] = 1 /\ \A x \in Words : x # b + 1 => Marked(b)[x] = mem[x]
        /\ Marked(b) \in [Words -> Int]
        /\ b \in Int /\ START <= b /\ mem[b + 2] \in Int /\ mem[b + 2] >= 5
        /\ b + mem[b + 2] <= end_address
        /\ \A a \in b .. b + mem[b + 2] - 1 : a \in Words
    BY MarkedLayout
  <2> QED BY <2>1
<1>3. m1[b + 2] = mem[b + 2]
  BY <1>2
<1>4. \A x \in Words : x \in Int
  BY Constants
<1>5. CASE left
  <2>1. header = Read(m1, b - FOOTER + 1) /\ header \in Segments /\ H = Holes
    BY <1>5, <1>7
  <2>2. header \in Holes /\ header + mem[header + 2] = b
    BY <2>1, <1>5, LeftFacts
  <2>3. /\ header \in Int /\ START <= header /\ mem[header + 2] \in Int /\ mem[header + 2] >= 5
        /\ \A a \in header .. header + mem[header + 2] - 1 : a \in Words
    BY <2>2, <1>1, InWords
  <2>4. /\ after - 1 \in Words /\ header + 2 \in Words /\ header + 2 # after - 1 /\ header + 2 # b + 1
        /\ header + 2 < after - 1 /\ after \in Int
    BY <2>2, <2>3, <1>2
  <2>6. n = [m1 EXCEPT ![after - 1] = header, ![header + 2] = @ + mem[b + 2]]
    <3>1. b + mem[b + 2] - FOOTER + 1 = after - 1
      BY <1>2 DEF FOOTER
    <3>2. n = [Marked(b) EXCEPT ![b + mem[b + 2] - FOOTER + 1] = header,
                                ![header + 2] = @ + mem[b + 2]]
      BY <1>5, <1>8
    <3> QED BY <3>1, <3>2, Zenon
  <2> HIDE DEF m1
  <2>7. m1[header + 2] = mem[header + 2]
    BY <2>4, <1>2
  <2>8. /\ n \in [Words -> Int] /\ n[header + 2] = mem[header + 2] + mem[b + 2] /\ n[after - 1] = header
        /\ \A x \in Words : x # header + 2 /\ x # after - 1 => n[x] = m1[x]
    <3> DEFINE i == after - 1
               j == header + 2
               v == mem[b + 2]
               k == [m1 EXCEPT ![i] = header, ![j] = @ + v]
    <3>1. i \in Words /\ j \in Words /\ i # j /\ v \in Int /\ m1 \in [Words -> Int] /\ header \in Int
      BY <2>3, <2>4, <1>2
    <3>2. n = k
      BY <2>6, Zenon
    <3>4. m1[j] = mem[header + 2]
      BY <2>7
    <3> HIDE DEF i, j, v
    <3>3. /\ k \in [Words -> Int] /\ k[j] = m1[j] + v /\ k[i] = header
          /\ \A x \in Words : x # j /\ x # i => k[x] = m1[x]
      BY <3>1, TwoUpdates
    <3> HIDE DEF k
    <3>5. /\ n \in [Words -> Int] /\ n[j] = mem[header + 2] + v /\ n[i] = header
          /\ \A x \in Words : x # j /\ x # i => n[x] = m1[x]
      BY <3>2, <3>3, <3>4
    <3> QED BY <3>5 DEF i, j, v
  <2>9. n[header + 2] = m1[header + 2] + m1[b + 2] /\ header + m1[header + 2] = b
    BY <2>2, <2>4, <2>8, <1>2, <1>3
  <2>10. Layout(n, (Holes \cup {b}) \ {b}, live \ {b}, end_address)
    <3>1. header \in Holes \cup {b} /\ b \in Holes \cup {b}
      BY <2>2
    <3>2. n[b + m1[b + 2] - 1] \in {m1[b + m1[b + 2] - 1], header}
      <4>1. n[after - 1] = header
        BY <2>8
      <4>2. b + m1[b + 2] - 1 = after - 1
        BY <1>2, <1>3
      <4> QED BY <4>1, <4>2
    <3>3. ASSUME NEW a \in Words,
                 a < header + 2 \/ (a > header + 2 /\ a < after - 1) \/ a >= after
          PROVE  n[a] = m1[a]
      <4>2. a \in Int /\ header \in Int /\ after \in Int /\ header + 2 < after - 1
        BY <2>3, <2>4, <1>2, <1>4
      <4> HIDE DEF after
      <4>1. a # header + 2 /\ a # after - 1
        BY <3>3, <4>2
      <4> QED BY <4>1, <2>8
    <3>4. b + m1[b + 2] = after
      BY <1>3
    <3>5. \A a \in Words : a < header + 2 \/ (a > header + 2 /\ a < b + m1[b + 2] - 1) \/ a >= b + m1[b + 2]
                           => n[a] = m1[a]
      <4>1. ASSUME NEW a \in Words,
                   a < header + 2 \/ (a > header + 2 /\ a < b + m1[b + 2] - 1) \/ a >= b + m1[b + 2]
            PROVE  n[a] = m1[a]
        <5> DEFINE u == b + m1[b + 2]
        <5>2. a \in Int /\ b \in Int /\ m1[b + 2] \in Int /\ header \in Int
          BY <2>3, <1>2, <1>3, <1>4
        <5>1. u = after /\ (a < header + 2 \/ (a > header + 2 /\ a < u - 1) \/ a >= u)
          BY <5>2, <4>1, <3>4
        <5> HIDE DEF u, after
        <5> QED BY <5>1, <3>3
      <4> QED BY <4>1
    <3> QED BY <3>1, <3>2, <3>5, <2>8, <2>9, <1>2, MergeHoles
  <2>11. (Holes \cup {b}) \ {b} = Holes
    BY <1>1
  <2>12. \A x \in Words : x < header \/ x >= after => n[x] = mem[x]
    <3>1. ASSUME NEW x \in Words, x < header \/ x >= after PROVE n[x] = mem[x]
      <4>1. x # header + 2 /\ x # after - 1 /\ x # b + 1
        BY <3>1, <2>2, <2>3, <1>2, <1>4
      <4> QED BY <4>1, <2>8, <1>2
    <3> QED BY <3>1
  <2>13. ASSUME NEW s \in Holes, s # header PROVE s + n[s + 2] \notin Holes
    <3>1. /\ s \in Int /\ mem[s + 2] \in Int /\ mem[s + 2] >= 5 /\ s + 2 \in Words
      <4>1. /\ s \in Int /\ mem[s + 2] \in Int /\ mem[s + 2] >= 5
            /\ \A a \in s .. s + mem[s + 2] - 1 : a \in Words
        BY <1>1, InWords
      <4> QED BY <4>1
    <3>2. s + mem[s + 2] <= header \/ b <= s
      BY <3>1, <2>2, <2>3, <2>13, <1>1 DEF Chain
    <3>3. s # b /\ (s > b => after <= s)
      BY <3>1, <1>1, <1>2 DEF Chain
    <3>4. s + 2 < header \/ s + 2 >= after
      BY <3>1, <3>2, <3>3, <1>2, <2>3
    <3>5. n[s + 2] = mem[s + 2]
      BY <3>1, <3>4, <2>12
    <3> QED BY <3>5 DEF NoneTouch
  <2>14. header + n[header + 2] = after /\ header <= b
    BY <2>2, <2>3, <2>8, <1>2
  <2>15. Layout(n, H, live \ {b}, end_address)
    BY <2>1, <2>10, <2>11
  <2>16. \A s \in H : s # header => s + n[s + 2] \notin H
    BY <2>1, <2>13
  <2> QED BY <2>1, <2>2, <2>3, <2>8, <2>12, <2>14, <2>15, <2>16
<1>6. CASE ~left
  <2>1. header = b /\ n = m1 /\ H = Holes \cup {b}
    BY <1>6, <1>7, <1>8
  <2>2. \A p \in Holes : p + mem[p + 2] # b
    BY <1>6, LeftFacts
  <2>3. \A x \in Words : x < header \/ x >= after => n[x] = mem[x]
    BY <2>1, <1>2, <1>4
  <2>4. ASSUME NEW s \in H, s # header PROVE s + n[s + 2] \notin H
    <3>1. s \in Holes /\ s # b
      BY <2>1, <2>4
    <3>2. /\ s \in Int /\ mem[s + 2] \in Int /\ mem[s + 2] >= 5
          /\ \A a \in s .. s + mem[s + 2] - 1 : a \in Words
      BY <3>1, <1>1, InWords
    <3>3. s + 2 \in Words /\ s + 2 # b + 1
      <4>1. s + mem[s + 2] <= b \/ after <= s
        BY <3>1, <3>2, <1>1, <1>2 DEF Chain
      <4> QED BY <4>1, <3>2, <1>2
    <3>4. n[s + 2] = mem[s + 2]
      BY <3>3, <2>1, <1>2
    <3> QED BY <3>1, <3>4, <2>1, <2>2 DEF NoneTouch
  <2>5. n \in [Words -> Int] /\ Layout(n, H, live \ {b}, end_address)
    BY <2>1, <1>2
  <2>6. header + n[header + 2] = b + mem[b + 2]
    BY <2>1, <1>3
  <2>7. header \in H /\ header \in Int /\ START <= header /\ header <= b
    BY <2>1, <1>2
  <2> QED BY <2>3, <2>4, <2>5, <2>6, <2>7
<1> QED BY <1>5, <1>6

\* A hole takes in the one behind it, if what is behind it is a hole.
LEMMA MergedRight ==
    ASSUME NEW m, NEW H, NEW L, NEW e, m \in [Words -> Int], Layout(m, H, L, e),
           NEW header \in H, NEW after, after = header + m[header + 2],
           \A s \in H : s # header => s + m[s + 2] \notin H,
           RightHole(m, after) => after < e
    PROVE  LET n == WithRight(m, header, after)
               K == WithoutRight(m, H, after)
           IN  /\ n \in [Words -> Int] /\ Layout(n, K, L, e) /\ NoneTouch(n, K)
               /\ header \in K
               /\ header + n[header + 2] = IF RightHole(m, after) THEN after + Size(m, after) ELSE after
               /\ RightHole(m, after) => after \in H /\ after # header
               /\ \A x \in Words : x # header + 2 => n[x] = m[x]
<1> DEFINE n == WithRight(m, header, after)
           K == WithoutRight(m, H, after)
<1>8. n = IF RightHole(m, after) THEN [m EXCEPT ![header + 2] = @ + Size(m, after)] ELSE m
  BY DEF WithRight
<1>9. K = IF RightHole(m, after) THEN H \ {after} ELSE H
  BY DEF WithoutRight
<1> HIDE DEF n, K
<1> SUFFICES /\ n \in [Words -> Int] /\ Layout(n, K, L, e) /\ NoneTouch(n, K)
             /\ header \in K
             /\ header + n[header + 2] = IF RightHole(m, after) THEN after + Size(m, after) ELSE after
             /\ RightHole(m, after) => after \in H /\ after # header
             /\ \A x \in Words : x # header + 2 => n[x] = m[x]
  BY DEF n, K
<1>1. e \in Int /\ e <= LIMIT /\ Chain(m, H \cup L, e) /\ header \in H \cup L /\ H \cap L = {}
  BY DEF Layout
<1>2. /\ header \in Int /\ m[header + 2] \in Int /\ m[header + 2] >= 5 /\ START <= header
      /\ \A a \in header .. header + m[header + 2] - 1 : a \in Words
      /\ START \in Int
  BY <1>1, InWords
<1>3. after \in Int /\ header + 5 <= after /\ after \in H \cup L \cup {e} /\ header + 2 \in Words
  BY <1>1, <1>2 DEF Chain
<1>4. \A x \in Words : x \in Int
  BY Constants
<1>5. after \in H \cup L => Read(m, after) = m[after] /\ IsHole(m, after) = m[after + 1]
                            /\ Size(m, after) = m[after + 2]
  BY ReadSegment
<1>6. CASE RightHole(m, after)
  <2>1. after \in H
    <3>1. after \in H \cup L
      BY <1>3, <1>6
    <3>2. after \in L => m[after + 1] = 0
      BY DEF Layout
    <3> QED BY <3>1, <3>2, <1>5, <1>6 DEF RightHole
  <2>2. /\ m[after + 2] \in Int /\ m[after + 2] >= 5 /\ Size(m, after) = m[after + 2]
        /\ \A a \in after .. after + m[after + 2] - 1 : a \in Words
    BY <2>1, <1>1, <1>5, InWords
  <2>3. n = [m EXCEPT ![header + 2] = m[header + 2] + m[after + 2]]
    BY <2>2, <1>6, <1>8
  <2>4. /\ n \in [Words -> Int] /\ n[header + 2] = m[header + 2] + m[after + 2]
        /\ \A x \in Words : x # header + 2 => n[x] = m[x]
    <3>1. m[header + 2] + m[after + 2] \in Int
      BY <2>2, <1>2
    <3> QED BY <3>1, <2>3, <1>3
  <2>5. Layout(n, H \ {after}, L, e)
    <3>1. header + m[header + 2] = after
      OBVIOUS
    <3>2. after + m[after + 2] - 1 \in Words /\ after + m[after + 2] - 1 # header + 2
      BY <2>2, <1>2, <1>3
    <3>3. n[after + m[after + 2] - 1] \in {m[after + m[after + 2] - 1], header}
      BY <3>2, <2>4
    <3>4. ASSUME NEW a \in Words, a < header + 2 \/ (a > header + 2 /\ a < after + m[after + 2] - 1)
                                  \/ a >= after + m[after + 2]
          PROVE  n[a] = m[a]
      <4>1. a # header + 2
        BY <3>4, <2>2, <1>2, <1>3, <1>4
      <4> QED BY <4>1, <2>4
    <3> QED BY <3>1, <3>3, <3>4, <2>1, <2>4, MergeHoles
  <2>6. header + n[header + 2] = after + m[after + 2]
    BY <2>2, <2>4, <1>2
  <2>7. ASSUME NEW s \in H \ {after} PROVE s + n[s + 2] \notin H \ {after}
    <3>1. CASE s = header
      <4>1. after + m[after + 2] \notin H
        BY <2>1, <1>2, <1>3
      <4> QED BY <4>1, <3>1, <2>6
    <3>2. CASE s # header
      <4>1. s \in Int /\ m[s + 2] \in Int /\ \A a \in s .. s + m[s + 2] - 1 : a \in Words
        BY <1>1, InWords
      <4>2. s + 2 \in Words /\ s + 2 # header + 2
        <5>1. m[s + 2] >= 5
          BY <1>1, InWords
        <5> QED BY <4>1, <5>1, <3>2, <1>2
      <4>3. n[s + 2] = m[s + 2]
        BY <4>2, <2>4
      <4> QED BY <4>3, <3>2
    <3> QED BY <3>1, <3>2
  <2>8. K = H \ {after} /\ header \in K /\ after # header
    BY <1>2, <1>3, <1>6, <1>9
  <2>9. NoneTouch(n, K)
    BY <2>7, <2>8 DEF NoneTouch
  <2> QED BY <2>1, <2>2, <2>4, <2>5, <2>6, <2>8, <2>9, <1>6
<1>7. CASE ~RightHole(m, after)
  <2>1. n = m /\ K = H
    BY <1>7, <1>8, <1>9
  <2>2. after \notin H
    <3>1. after \in H => m[after] = HEAP_MAGIC /\ m[after + 1] = 1
      BY <1>1 DEF Layout, Chain
    <3> QED BY <3>1, <1>5, <1>7 DEF RightHole
  <2>3. \A s \in H : s + m[s + 2] \notin H
    BY <2>2
  <2> QED BY <2>1, <2>3, <1>7 DEF NoneTouch
<1> QED BY <1>6, <1>7

\* What ends the heap gets another end, and the words above header + 2 are its own.
LEMMA MovedEnd ==
    ASSUME NEW m, NEW H, NEW L, NEW e, m \in [Words -> Int], Layout(m, H, L, e), NoneTouch(m, H),
           NEW header \in H, header + m[header + 2] = e,
           NEW top \in Int, top <= LIMIT, NEW keep \in Int, keep = top - header, keep >= Overhead
    PROVE  LET n == Resized(m, header, keep)
           IN  /\ n \in [Words -> Int] /\ Layout(n, H, L, top) /\ NoneTouch(n, H)
               /\ \A x \in Words : x < header => n[x] = m[x]
               /\ \A s \in L : s \in Int /\ m[s + 2] \in Int /\ s + m[s + 2] <= header
<1> DEFINE k == [m EXCEPT ![header + 2] = keep]
           n == Resized(m, header, keep)
<1>1. e \in Int /\ e <= LIMIT /\ Chain(m, H \cup L, e) /\ header \in H \cup L /\ H \cap L = {}
  BY DEF Layout
<1>2. /\ header \in Int /\ m[header + 2] \in Int /\ m[header + 2] >= 5 /\ START <= header
      /\ \A a \in header .. header + m[header + 2] - 1 : a \in Words
      /\ START \in Int /\ m[header] = HEAP_MAGIC /\ m[header + 1] = 1
  <2>1. /\ header \in Int /\ m[header + 2] \in Int /\ m[header + 2] >= 5 /\ START <= header
        /\ \A a \in header .. header + m[header + 2] - 1 : a \in Words
        /\ START \in Int
    BY <1>1, InWords
  <2>2. m[header] = HEAP_MAGIC /\ m[header + 1] = 1
    BY <1>1 DEF Chain, Layout
  <2> QED BY <2>1, <2>2
<1>3. \A x \in Words : x \in Int
  BY Constants
<1>4. keep \in Int /\ keep >= 5 /\ header + keep = top /\ header + keep - 2 + 1 = top - 1
  BY <1>2 DEF Overhead, HEADER, FOOTER
<1>5. /\ k \in [Words -> Int] /\ k[header + 2] = keep
      /\ \A x \in Words : x # header + 2 => k[x] = m[x]
  <2>1. header + 2 \in Words
    BY <1>2
  <2> QED BY <2>1, <1>4
<1>6. n = Footer(k, top - 2, header)
  <2>1. header + keep - FOOTER = top - 2
    BY <1>2, <1>4 DEF FOOTER
  <2> QED BY <2>1 DEF Resized
<1> HIDE DEF k, n
<1>7. /\ n \in [Words -> Int]
      /\ \A x \in Words : n[x] = IF x = top - 2 + 1 THEN header ELSE IF x = top - 2 THEN HEAP_MAGIC ELSE k[x]
  <2>1. top - 2 \in Int
    OBVIOUS
  <2>2. /\ Footer(k, top - 2, header) \in [Words -> Int]
        /\ \A x \in Words : Footer(k, top - 2, header)[x] =
             IF x = top - 2 + 1 THEN header ELSE IF x = top - 2 THEN HEAP_MAGIC ELSE k[x]
    BY <2>1, <1>2, <1>5, FooterFacts
  <2> QED BY <2>2, <1>6
<1>8. Formed(n, header, 1, top - header)
  <2>1. \A x \in {header, header + 1, header + 2, top - 2, top - 2 + 1} : x \in Words
    <3>1. Words = START - 2 .. LIMIT - 1 /\ LIMIT \in Int
      BY Constants
    <3> QED BY <3>1, <1>2, <1>4
  <2>2. header + 2 < top - 2 /\ top - header = keep /\ header + (top - header) - FOOTER = top - 2
    BY <1>2, <1>4 DEF FOOTER
  <2>3. n[header] = HEAP_MAGIC /\ n[header + 1] = 1 /\ n[header + 2] = keep
    BY <2>1, <2>2, <1>2, <1>5, <1>7
  <2>4. n[top - 2] = HEAP_MAGIC /\ n[top - 2 + 1] = header
    BY <2>1, <1>7
  <2> QED BY <2>2, <2>3, <2>4 DEF Formed
<1>9. \A x \in Words : x < header => n[x] = m[x]
  <2>1. ASSUME NEW x \in Words, x < header PROVE n[x] = m[x]
    <3>1. x # top - 2 + 1 /\ x # top - 2 /\ x # header + 2
      BY <2>1, <1>2, <1>3, <1>4
    <3> QED BY <3>1, <1>5, <1>7
  <2> QED BY <2>1
<1>10. Layout(n, H, L, top)
  <2>1. top - header >= Overhead
    OBVIOUS
  <2> QED BY <2>1, <1>7, <1>8, <1>9, MoveEnd
<1>11. ASSUME NEW s \in H \cup L, s # header
       PROVE  s \in Int /\ m[s + 2] \in Int /\ m[s + 2] >= 5 /\ s + m[s + 2] <= header
              /\ s + 2 \in Words
  <2>1. s \in Int /\ m[s + 2] \in Int /\ m[s + 2] >= 5 /\ \A a \in s .. s + m[s + 2] - 1 : a \in Words
    BY <1>1, InWords
  <2>2. s + m[s + 2] <= header
    BY <1>1, <1>11, LastSegment
  <2> QED BY <2>1, <2>2
<1>12. ASSUME NEW s \in H PROVE s + n[s + 2] \notin H
  <2>1. CASE s = header
    <3>1. s + n[s + 2] = top
      BY <2>1, <1>2, <1>8 DEF Formed
    <3>2. \A g \in H : g \in Int /\ g <= header
      <4>1. ASSUME NEW g \in H PROVE g \in Int /\ g <= header
        BY <1>2, <1>11
      <4> QED BY <4>1
    <3> QED BY <3>1, <3>2, <1>2, <1>4
  <2>2. CASE s # header
    <3>1. n[s + 2] = m[s + 2]
      BY <2>2, <1>2, <1>9, <1>11
    <3> QED BY <3>1 DEF NoneTouch
  <2> QED BY <2>1, <2>2
<1>13. \A s \in L : s # header
  BY <1>1
<1>14. /\ n \in [Words -> Int] /\ Layout(n, H, L, top) /\ NoneTouch(n, H)
       /\ \A x \in Words : x < header => n[x] = m[x]
       /\ \A s \in L : s \in Int /\ m[s + 2] \in Int /\ s + m[s + 2] <= header
  BY <1>7, <1>9, <1>10, <1>11, <1>12, <1>13 DEF NoneTouch
<1> QED BY <1>14 DEF n

LEMMA ResizedType ==
    ASSUME NEW m \in [Words -> Int], NEW header \in Int, NEW keep \in Int
    PROVE  Resized(m, header, keep) \in [Words -> Int]
<1>1. [m EXCEPT ![header + 2] = keep] \in [Words -> Int]
  OBVIOUS
<1>2. header + keep - FOOTER \in Int
  BY Constants
<1> QED BY <1>1, <1>2, FooterFacts DEF Resized

LEMMA MergedLeavesType ==
    ASSUME NEW ix \in Seq(Int), NEW h
    PROVE  Removed(ix, PositionOf(ix, h)) \in Seq(Int)
  BY PositionFacts, RemovedType

\* free of a block: what it writes has its type, whatever it met, and the layout
\* is kept unless it met one of the named situations.
LEMMA FreedSound ==
    ASSUME TypeOK, HeapKept, defect = "none", NEW b \in live
    PROVE  LET r == Freed(b)
           IN  /\ r.mem \in [Words -> Int] /\ r.index \in Seq(Int)
               /\ r.end \in START + HEAP_MIN_SIZE .. LIMIT /\ r.mapped \in r.end .. LIMIT
               /\ r.defect \in Defects \cup {"none"}
               /\ r.defect = "none" =>
                    /\ Layout(r.mem, ToSet(r.index), live \ {b}, r.end)
                    /\ Distinct(r.index) /\ NoneTouch(r.mem, ToSet(r.index))
                    /\ r.end % VMM_PAGE_SIZE = 0
                    /\ \A c \in live \ {b} : Same(r.mem, c)
<1> DEFINE r == Freed(b)
           m1 == Marked(b)
           foot == b + Size(m1, b) - FOOTER
           left == LeftHole(m1, b)
           header == IF left THEN Read(m1, b - FOOTER + 1) ELSE b
           m2 == IF left THEN [m1 EXCEPT ![foot + 1] = header,
                                         ![header + 2] = @ + Size(m1, b)] ELSE m1
           after == foot + FOOTER
           right == RightHole(m2, after)
           m3 == IF right THEN [m2 EXCEPT ![header + 2] = @ + Size(m2, after)] ELSE m2
           last == IF right THEN after + Size(m2, after) - FOOTER ELSE foot
           ix1 == IF right THEN Removed(index, PositionOf(index, after)) ELSE index
           atEnd == last + FOOTER = end_address
           old == end_address - START
           new == IF atEnd THEN Contracted(header - START) ELSE old
           keep == Size(m3, header) - (old - new)
           m4 == IF atEnd /\ keep # 0 THEN Resized(m3, header, keep) ELSE m3
           ix2 == IF atEnd /\ keep = 0 /\ after \in ToSet(ix1)
                  THEN Removed(ix1, PositionOf(ix1, after)) ELSE ix1
<1>1. /\ r.mem = m4 /\ r.index = IF left THEN ix2 ELSE Inserted(m4, ix2, header)
      /\ r.end = START + new /\ r.mapped = IF atEnd THEN Unmapped(new) ELSE mapped_end
      /\ r.defect = IF left /\ header \notin Segments THEN "stale footer"
                    ELSE IF right /\ after >= end_address THEN "hole beyond the end"
                    ELSE IF atEnd /\ keep <= 0 THEN "shrink below a block"
                    ELSE IF atEnd /\ keep < Overhead THEN "sliver"
                    ELSE "none"
  BY DEF Freed, Marked, MergedLeaves, Resized
<1> HIDE DEF r
<1>2. /\ mem \in [Words -> Int] /\ index \in Seq(Int)
      /\ end_address \in Int /\ START + HEAP_MIN_SIZE <= end_address
      /\ end_address <= mapped_end /\ mapped_end \in Int /\ mapped_end <= LIMIT
  <2>1. START \in Nat /\ HEAP_MIN_SIZE \in Nat /\ LIMIT \in Int
    BY Constants
  <2>2. end_address \in START + HEAP_MIN_SIZE .. LIMIT
    BY DEF TypeOK
  <2>3. mapped_end \in end_address .. LIMIT
    BY DEF TypeOK
  <2> QED BY <2>1, <2>2, <2>3 DEF TypeOK
<1>3. /\ Layout(mem, Holes, live, end_address) /\ NoneTouch(mem, Holes) /\ Distinct(index)
      /\ end_address % VMM_PAGE_SIZE = 0 /\ Holes = ToSet(index)
  BY DEF HeapKept, Holes
<1>4. /\ START \in Nat /\ HEAP_MIN_SIZE \in Nat /\ LIMIT \in Int /\ FOOTER = 2 /\ Overhead = 5
  BY Constants
<1>5. /\ Layout(m1, Holes \cup {b}, live \ {b}, end_address)
      /\ m1 \in [Words -> Int]
      /\ \A x \in Words : x # b + 1 => m1[x] = mem[x]
      /\ b \in Int /\ START <= b /\ mem[b + 2] \in Int /\ mem[b + 2] >= 5
      /\ b + mem[b + 2] <= end_address
      /\ \A a \in b .. b + mem[b + 2] - 1 : a \in Words
  BY <1>3, MarkedLayout
<1>6. Size(m1, b) = mem[b + 2]
  <2>1. b + 2 \in Words /\ b + 2 # b + 1
    BY <1>5
  <2> QED BY <2>1, <1>5 DEF Size, Read
<1>7. /\ foot + 1 = b + mem[b + 2] - 1 /\ after = b + mem[b + 2] /\ foot = after - 2
      /\ foot + 1 \in Words /\ after \in Int /\ b + 5 <= after /\ after <= end_address
  BY <1>4, <1>5, <1>6
<1>8. left => \E p \in Holes : p + mem[p + 2] = b /\ header \in p .. b - 5
  BY <1>3, LeftFacts
<1>9. /\ header \in Int /\ START <= header /\ header <= b /\ header + 2 \in Words
      /\ (left => header + 5 <= b)
  <2>1. CASE left
    <3>1. PICK p \in Holes : p + mem[p + 2] = b /\ header \in p .. b - 5
      BY <2>1, <1>8
    <3>2. p \in Int /\ START <= p
      <4>1. p \in Holes \cup live /\ Chain(mem, Holes \cup live, end_address) /\ end_address <= LIMIT
        BY <1>3 DEF Layout
      <4> QED BY <4>1, <1>2, InWords
    <3> HIDE DEF header
    <3>5. b \in Int
      BY <1>5
    <3>3. header \in Int /\ START <= header /\ header + 5 <= b
      BY <3>1, <3>2, <3>5, <1>4
    <3>4. header + 2 \in Words
      BY <3>3, <1>2, <1>4, <1>5, <1>7 DEF Words
    <3> QED BY <3>3, <3>4, <1>5
  <2>2. CASE ~left
    <3>1. header = b /\ b + 2 \in Words
      BY <2>2, <1>5
    <3> QED BY <3>1, <2>2, <1>5
  <2> QED BY <2>1, <2>2
<1>10. /\ left => header = Read(m1, b - FOOTER + 1)
       /\ ~left => header = b
  OBVIOUS
<1> HIDE DEF header
<1>11. m2 = IF left THEN [m1 EXCEPT ![b + mem[b + 2] - FOOTER + 1] = header,
                                    ![header + 2] = @ + mem[b + 2]] ELSE m1
  BY <1>6
<1>12. m2 \in [Words -> Int]
  <2>1. CASE left
    <3>1. foot + 1 # header + 2 /\ Size(m1, b) \in Int
      BY <2>1, <1>5, <1>6, <1>7, <1>9
    <3> HIDE DEF foot, m1
    <3>2. [m1 EXCEPT ![foot + 1] = header, ![header + 2] = @ + Size(m1, b)] \in [Words -> Int]
      BY <3>1, <1>5, <1>7, <1>9, TwoUpdates
    <3> QED BY <2>1, <3>2
  <2>2. CASE ~left
    BY <2>2, <1>5
  <2> QED BY <2>1, <2>2
<1>26. /\ last + FOOTER = IF right THEN after + Size(m2, after) ELSE after
  <2>1. last = IF right THEN after + Size(m2, after) - FOOTER ELSE after - 2
    BY <1>7
  <2>2. Size(m2, after) \in Int /\ after \in Int
    BY <1>7, <1>12, ReadType
  <2> HIDE DEF last, right, foot, m2, after
  <2> QED BY <2>1, <2>2, <1>4
<1> HIDE DEF foot, m2, after
<1>13. Size(m2, after) \in Int
  BY <1>7, <1>12, ReadType
<1>14. m3 \in [Words -> Int]
  <2>1. m2[header + 2] + Size(m2, after) \in Int
    BY <1>9, <1>12, <1>13
  <2> QED BY <2>1, <1>9, <1>12
<1>15. ix1 \in Seq(Int)
  BY <1>2, MergedLeavesType
<1>27. /\ right = RightHole(m2, after)
       /\ m3 = IF RightHole(m2, after) THEN [m2 EXCEPT ![header + 2] = @ + Size(m2, after)] ELSE m2
       /\ ix1 = IF RightHole(m2, after) THEN Removed(index, PositionOf(index, after)) ELSE index
  OBVIOUS
<1> HIDE DEF ix1, m3, last, right
<1>16. /\ old \in Int /\ HEAP_MIN_SIZE <= old /\ header - START < old /\ header - START \in Int
       /\ START + old = end_address
  BY <1>2, <1>4, <1>5, <1>7, <1>9
<1> HIDE DEF old
<1>17. /\ new \in HEAP_MIN_SIZE .. old
       /\ atEnd /\ header - START < new => new = HEAP_MIN_SIZE
       /\ ~atEnd => new = old
  BY <1>4, <1>16, ContractBounds
<1>28. atEnd = (last + FOOTER = end_address)
  OBVIOUS
<1> HIDE DEF new, atEnd
<1>18. new \in Int /\ new \in Nat /\ HEAP_MIN_SIZE <= new /\ new <= old /\ START + new <= end_address
  BY <1>4, <1>16, <1>17
<1>19. r.end \in START + HEAP_MIN_SIZE .. LIMIT /\ r.mapped \in r.end .. LIMIT
  <2>1. START + new \in START + HEAP_MIN_SIZE .. LIMIT
    BY <1>2, <1>4, <1>18
  <2>2. Unmapped(new) \in START + new .. LIMIT
    BY <1>2, <1>18, UnmapBounds
  <2>3. mapped_end \in START + new .. LIMIT
    BY <1>2, <1>4, <1>18
  <2> QED BY <2>1, <2>2, <2>3, <1>1
<1>20. keep \in Int
  <2>1. Size(m3, header) \in Int
    BY <1>9, <1>14, ReadType
  <2> QED BY <2>1, <1>16, <1>18
<1>21. m4 \in [Words -> Int]
  <2>1. Resized(m3, header, keep) \in [Words -> Int]
    <3> HIDE DEF keep
    <3> QED BY <1>9, <1>14, <1>20, ResizedType
  <2> QED BY <2>1, <1>14
<1>22. r.mem \in [Words -> Int]
  BY <1>1, <1>21
<1>23. r.index \in Seq(Int)
  <2>1. ix2 \in Seq(Int)
    BY <1>15, MergedLeavesType
  <2> HIDE DEF ix2, m4
  <2>2. Inserted(m4, ix2, header) \in Seq(Int)
    BY <2>1, <1>9, <1>21, InsertedFacts
  <2> QED BY <2>1, <2>2, <1>1
<1>24. r.defect \in Defects \cup {"none"}
  BY <1>1 DEF Defects
<1>25. ASSUME r.defect = "none"
       PROVE  /\ Layout(r.mem, ToSet(r.index), live \ {b}, r.end)
              /\ Distinct(r.index) /\ NoneTouch(r.mem, ToSet(r.index))
              /\ r.end % VMM_PAGE_SIZE = 0
              /\ \A c \in live \ {b} : Same(r.mem, c)
  <2> DEFINE H2 == IF left THEN Holes ELSE Holes \cup {b}
             H3 == IF RightHole(m2, after) THEN H2 \ {after} ELSE H2
             L == live \ {b}
             e == end_address
  <2>1. (left => header \in Segments) /\ (right => after < e) /\ (atEnd => keep >= Overhead)
    <3> HIDE DEF keep, left
    <3>1. /\ ~(left /\ header \notin Segments) /\ ~(right /\ after >= end_address)
          /\ ~(atEnd /\ keep <= 0) /\ ~(atEnd /\ keep < Overhead)
      BY <1>1, <1>25
    <3> QED BY <3>1, <1>2, <1>4, <1>7, <1>20
  <2>2. /\ Layout(m2, H2, L, e)
        /\ header \in H2 /\ header + m2[header + 2] = after
        /\ \A x \in Words : x < header \/ x >= after => m2[x] = mem[x]
        /\ \A s \in H2 : s # header => s + m2[s + 2] \notin H2
    <3>1. header = LeftHeader(b)
      BY <1>10 DEF LeftHeader
    <3>2. m2 = WithLeft(b)
      <4>1. WithLeft(b) = IF left THEN [m1 EXCEPT ![b + mem[b + 2] - FOOTER + 1] = header,
                                                  ![header + 2] = @ + mem[b + 2]] ELSE m1
        BY <3>1 DEF WithLeft
      <4> QED BY <4>1, <1>11, Zenon
    <3>3. LeftHole(Marked(b), b) => LeftHeader(b) \in Segments
      BY <2>1, <3>1
    <3>4. H2 = LeftHoles(b)
      BY DEF LeftHoles
    <3> HIDE DEF H2, m1
    <3>5. LET k == LeftHeader(b)
              n == WithLeft(b)
              H == LeftHoles(b)
          IN  /\ n \in [Words -> Int] /\ Layout(n, H, live \ {b}, end_address)
              /\ k \in H /\ k \in Int /\ START <= k /\ k <= b
              /\ k + n[k + 2] = b + mem[b + 2]
              /\ \A x \in Words : x < k \/ x >= b + mem[b + 2] => n[x] = mem[x]
              /\ \A s \in H : s # k => s + n[s + 2] \notin H
      BY <3>3, <1>3, MergedLeft
    <3>6. /\ Layout(m2, H2, live \ {b}, end_address)
          /\ header \in H2
          /\ header + m2[header + 2] = b + mem[b + 2]
          /\ \A x \in Words : x < header \/ x >= b + mem[b + 2] => m2[x] = mem[x]
          /\ \A s \in H2 : s # header => s + m2[s + 2] \notin H2
      BY <3>1, <3>2, <3>4, <3>5
    <3> QED BY <3>6, <1>7
  <2> HIDE DEF H2
  <2>3. /\ Layout(m3, H3, L, e) /\ NoneTouch(m3, H3) /\ header \in H3
        /\ header + m3[header + 2] = last + FOOTER
        /\ RightHole(m2, after) => after \in H2 /\ after # header
        /\ \A x \in Words : x # header + 2 => m3[x] = m2[x]
    <3>1. RightHole(m2, after) => after < e
      BY <2>1, <1>27
    <3>2. H3 = WithoutRight(m2, H2, after) /\ m3 = WithRight(m2, header, after)
      BY <1>27 DEF WithoutRight, WithRight
    <3>3. after = header + m2[header + 2]
      BY <2>2
    <3> HIDE DEF H3, L, e
    <3>4. LET n == WithRight(m2, header, after)
              K == WithoutRight(m2, H2, after)
          IN  /\ n \in [Words -> Int] /\ Layout(n, K, L, e) /\ NoneTouch(n, K)
              /\ header \in K
              /\ header + n[header + 2] = IF RightHole(m2, after) THEN after + Size(m2, after) ELSE after
              /\ RightHole(m2, after) => after \in H2 /\ after # header
              /\ \A x \in Words : x # header + 2 => n[x] = m2[x]
      BY <3>1, <3>3, <2>2, <1>12, MergedRight
    <3> QED BY <3>2, <3>4, <1>26, <1>27
  <2>4. ASSUME NEW c \in L
        PROVE  /\ c \in Int /\ mem[c + 2] \in Int /\ mem[c + 2] >= 5
               /\ \A a \in c .. c + mem[c + 2] - 1 : a \in Words /\ a # header + 2 /\ (a < header \/ a >= after)
    <3>1. /\ Chain(mem, Holes \cup live, end_address) /\ b \in Holes \cup live /\ c \in Holes \cup live
          /\ b # c /\ end_address <= LIMIT
      BY <1>3 DEF Layout
    <3>2. /\ c \in Int /\ mem[c + 2] \in Int /\ mem[c + 2] >= 5
          /\ \A a \in c .. c + mem[c + 2] - 1 : a \in Words
      BY <3>1, <1>2, InWords
    <3>3. c + mem[c + 2] <= b \/ after <= c
      BY <3>1, <3>2, <1>5, <1>7 DEF Chain
    <3>4. c + mem[c + 2] <= header \/ after <= c
      <4>1. CASE left
        <5>1. header \in Holes /\ header + mem[header + 2] = b
          BY <4>1, <2>1, <1>3, <1>10, LeftFacts
        <5>2. header # c
          BY <5>1, <1>3 DEF Layout
        <5>3. c + mem[c + 2] <= header \/ b <= c
          BY <5>1, <5>2, <3>1, <3>2, <1>9 DEF Chain
        <5> QED BY <5>3, <3>2, <3>3, <1>5
      <4>2. CASE ~left
        BY <4>2, <3>3, <1>10
      <4> QED BY <4>1, <4>2
    <3> QED BY <3>2, <3>4, <1>7, <1>9, <1>5
  <2>5. ASSUME NEW c \in L PROVE Same(m3, c) /\ m3[c + 2] = mem[c + 2]
    <3>1. \A a \in c .. c + mem[c + 2] - 1 : m3[a] = mem[a]
      BY <2>2, <2>3, <2>4
    <3>2. c + 2 \in c .. c + mem[c + 2] - 1
      BY <2>4
    <3> QED BY <3>1, <3>2 DEF Same
  <2>6. /\ Layout(m4, H3, L, r.end) /\ NoneTouch(m4, H3) /\ r.end % VMM_PAGE_SIZE = 0
        /\ \A c \in L : Same(m4, c)
    <3>1. CASE atEnd
      <4>1. header + m3[header + 2] = e /\ keep >= Overhead
        BY <3>1, <2>1, <2>3, <1>28
      <4>2. Size(m3, header) = m3[header + 2]
        BY <2>3, ReadSegment
      <4>3. m3[header + 2] \in Int
        BY <1>9, <1>14
      <4>4. START + new \in Int /\ START + new <= LIMIT
        BY <1>2, <1>4, <1>18
      <4>5. keep = START + new - header
        <5> DEFINE k == m3[header + 2]
        <5>1. keep = k - (old - new) /\ header + k = end_address /\ k \in Int
          BY <4>1, <4>2, <4>3
        <5> HIDE DEF k, keep
        <5> QED BY <5>1, <1>4, <1>9, <1>16, <1>18
      <4> HIDE DEF keep
      <4>6. m4 = Resized(m3, header, keep)
        <5>1. keep # 0
          BY <4>1, <1>4
        <5> QED BY <5>1, <3>1
      <4> HIDE DEF m4, H3, L, e
      <4>11. LET n == Resized(m3, header, keep)
             IN  /\ n \in [Words -> Int] /\ Layout(n, H3, L, START + new) /\ NoneTouch(n, H3)
                 /\ \A x \in Words : x < header => n[x] = m3[x]
                 /\ \A s \in L : s \in Int /\ m3[s + 2] \in Int /\ s + m3[s + 2] <= header
        <5> DEFINE top == START + new
        <5>1. top \in Int /\ top <= LIMIT /\ keep = top - header /\ keep \in Int /\ keep >= Overhead
          <6>1. keep \in Int /\ keep >= Overhead
            BY <4>1, <1>20
          <6>2. top \in Int /\ top <= LIMIT /\ keep = top - header
            BY <4>4, <4>5, <1>4, <1>9, <1>18
          <6> QED BY <6>1, <6>2
        <5>2. /\ m3 \in [Words -> Int] /\ Layout(m3, H3, L, e) /\ NoneTouch(m3, H3)
              /\ header \in H3 /\ header + m3[header + 2] = e
          BY <4>1, <2>3, <1>14
        <5> HIDE DEF top
        <5>3. LET n == Resized(m3, header, keep)
              IN  /\ n \in [Words -> Int] /\ Layout(n, H3, L, top) /\ NoneTouch(n, H3)
                  /\ \A x \in Words : x < header => n[x] = m3[x]
                  /\ \A s \in L : s \in Int /\ m3[s + 2] \in Int /\ s + m3[s + 2] <= header
          BY <5>1, <5>2, MovedEnd
        <5> QED BY <5>3 DEF top
      <4>7. /\ Layout(m4, H3, L, START + new) /\ NoneTouch(m4, H3)
            /\ \A x \in Words : x < header => m4[x] = m3[x]
            /\ \A s \in L : s \in Int /\ m3[s + 2] \in Int /\ s + m3[s + 2] <= header
        BY <4>6, <4>11
      <4>8. new = HEAP_MIN_SIZE
        BY <4>1, <4>5, <3>1, <1>4, <1>9, <1>16, <1>17, <1>18, <1>20
      <4>9. (START + new) % VMM_PAGE_SIZE = 0
        <5>1. START \in Int /\ START % VMM_PAGE_SIZE = 0 /\ HEAP_MIN_SIZE % VMM_PAGE_SIZE = 0
              /\ VMM_PAGE_SIZE \in Nat \ {0}
          BY Constants
        <5>2. (START + new) % VMM_PAGE_SIZE = new % VMM_PAGE_SIZE
          BY <5>1, <1>18, DivModShift
        <5> QED BY <5>1, <5>2, <4>8
      <4>10. ASSUME NEW c \in L PROVE Same(m4, c)
        <5>1. c + mem[c + 2] <= header
          BY <4>7, <2>5
        <5>2. \A a \in c .. c + mem[c + 2] - 1 : a \in Words /\ a < header
          BY <5>1, <2>4, <1>9
        <5> QED BY <5>2, <4>7, <2>5 DEF Same
      <4> QED BY <4>7, <4>9, <4>10, <1>1
    <3>2. CASE ~atEnd
      <4>1. m4 = m3 /\ r.end = end_address
        BY <3>2, <1>1, <1>16, <1>17
      <4> QED BY <4>1, <2>3, <2>5, <1>3
    <3> QED BY <3>1, <3>2
  <2>7. ix2 = ix1
    <3>1. ~(atEnd /\ keep = 0)
      BY <2>1, <1>4, <1>20
    <3> HIDE DEF keep
    <3> QED BY <3>1
  <2>8. /\ ix1 \in Seq(Int) /\ Distinct(ix1)
        /\ ToSet(ix1) = IF RightHole(m2, after) THEN Holes \ {after} ELSE Holes
        /\ RightHole(m2, after) => after \in Holes
    <3>1. CASE RightHole(m2, after)
      <4>1. after \in Holes
        <5>1. after # b
          BY <1>5, <1>7
        <5> QED BY <5>1, <3>1, <2>3 DEF H2
      <4>2. PositionOf(index, after) \in 1 .. Len(index) /\ index[PositionOf(index, after)] = after
        BY <4>1, <1>2, <1>3, PositionFacts
      <4>3. ix1 = Removed(index, PositionOf(index, after))
        BY <3>1, <1>27
      <4> QED BY <4>1, <4>2, <4>3, <3>1, <1>2, <1>3, RemovedFacts
    <3>2. CASE ~RightHole(m2, after)
      BY <3>2, <1>2, <1>3, <1>27
    <3> QED BY <3>1, <3>2
  <2>9. ToSet(r.index) = H3 /\ Distinct(r.index)
    <3>1. CASE left
      BY <3>1, <2>7, <2>8, <1>1 DEF H2
    <3>2. CASE ~left
      <4>1. r.index = Inserted(m4, ix1, b)
        BY <3>2, <2>7, <1>1, <1>10
      <4>2. b \notin Holes /\ b # after
        BY <1>3, <1>5, <1>7 DEF Layout
      <4> HIDE DEF m4
      <4>3. /\ Inserted(m4, ix1, b) \in Seq(Int)
            /\ ToSet(Inserted(m4, ix1, b)) = ToSet(ix1) \cup {b}
            /\ Distinct(ix1) /\ b \notin ToSet(ix1) => Distinct(Inserted(m4, ix1, b))
        BY <2>8, <1>5, <1>21, InsertedFacts
      <4>4. ToSet(ix1) \cup {b} = H3 /\ b \notin ToSet(ix1)
        BY <3>2, <4>2, <2>8 DEF H2
      <4> QED BY <4>1, <4>3, <4>4, <2>8
    <3> QED BY <3>1, <3>2
  <2> QED BY <2>6, <2>9, <1>1
<1> QED BY <1>19, <1>22, <1>23, <1>24, <1>25 DEF r

LEMMA FreeStep ==
    ASSUME HeapInv, NEW b \in live, free(b)
    PROVE  /\ HeapInv'
           /\ defect' = "none" => \A c \in live \cap live' : Same(mem', c)
<1> DEFINE r == Freed(b)
<1>1. TypeOK /\ HeapKept /\ defect = "none"
  BY DEF HeapInv, free, Sound
<1>2. /\ mem' = r.mem /\ index' = r.index /\ end_address' = r.end /\ mapped_end' = r.mapped
      /\ defect' = r.defect /\ live' = live \ {b} /\ request' = request /\ halted' = halted
      /\ request = None
  BY DEF free
<1>3. /\ r.mem \in [Words -> Int] /\ r.index \in Seq(Int)
      /\ r.end \in START + HEAP_MIN_SIZE .. LIMIT /\ r.mapped \in r.end .. LIMIT
      /\ r.defect \in Defects \cup {"none"}
      /\ r.defect = "none" =>
           /\ Layout(r.mem, ToSet(r.index), live \ {b}, r.end)
           /\ Distinct(r.index) /\ NoneTouch(r.mem, ToSet(r.index))
           /\ r.end % VMM_PAGE_SIZE = 0
           /\ \A c \in live \ {b} : Same(r.mem, c)
  BY <1>1, FreedSound
<1> HIDE DEF r
<1>4. TypeOK'
  BY <1>1, <1>2, <1>3 DEF TypeOK
<1>5. HeapKept'
  BY <1>2, <1>3 DEF HeapKept, Holes
<1>6. GrowthSuffices'
  BY <1>2 DEF GrowthSuffices
<1> QED BY <1>2, <1>3, <1>4, <1>5, <1>6 DEF HeapInv

LEMMA HeapInit ==
    ASSUME Init
    PROVE  HeapInv
<1> DEFINE e == START + INITIAL_PAGES * VMM_PAGE_SIZE
           len == INITIAL_PAGES * VMM_PAGE_SIZE
           zero == [a \in Words |-> 0]
<1>1. /\ end_address = e /\ mapped_end = e /\ mem = Header(zero, START, 1, len)
      /\ index = <<START>> /\ request = None /\ live = {} /\ halted = FALSE /\ defect = "none"
  BY DEF Init
<1>2. /\ START \in Nat /\ HEAP_MIN_SIZE \in Nat /\ LIMIT \in Int /\ VMM_PAGE_SIZE \in Nat \ {0}
      /\ VMM_PAGE_SIZE >= 5 /\ 2 * VMM_PAGE_SIZE <= HEAP_MIN_SIZE
      /\ Words = START - 2 .. LIMIT - 1 /\ HEAP_MAGIC = -1
      /\ HEADER = 3 /\ FOOTER = 2 /\ Overhead = 5
      /\ e \in START + HEAP_MIN_SIZE .. LIMIT /\ e % VMM_PAGE_SIZE = 0
  BY Constants
<1>3. len \in Int
  BY HeapAssumption
<1>4. e = START + len /\ e \in Int /\ e <= LIMIT /\ len >= 10
  <2> DEFINE n == INITIAL_PAGES * VMM_PAGE_SIZE
  <2>1. n \in Int /\ START + n \in START + HEAP_MIN_SIZE .. LIMIT
    BY <1>2, <1>3
  <2> HIDE DEF n
  <2>2. START + n \in Int /\ START + n <= LIMIT /\ n >= 10
    BY <2>1, <1>2
  <2> QED BY <2>2 DEF n
<1> HIDE DEF len, e
<1>5. /\ mem \in [Words -> Int]
      /\ \A x \in Words : mem[x] = IF x = START + 2 THEN len ELSE IF x = START + 1 THEN 1
                                   ELSE IF x = START THEN HEAP_MAGIC ELSE 0
  <2>1. zero \in [Words -> Int] /\ \A x \in Words : zero[x] = 0
    OBVIOUS
  <2> HIDE DEF zero
  <2>2. 1 \in Int /\ START \in Int
    BY <1>2
  <2> QED BY <2>1, <2>2, <1>1, <1>3, HeaderFacts
<1> HIDE DEF zero
<1>6. TypeOK
  <2>1. None.align \in BOOLEAN /\ None.size \in Requests \cup {0}
    BY DEF None
  <2>2. e \in e .. LIMIT
    BY <1>2, <1>4
  <2>3. <<START>> \in Seq(Int)
    BY <1>2
  <2> QED BY <2>1, <2>2, <2>3, <1>1, <1>2, <1>5 DEF TypeOK
<1>7. HeapKept
  <2>1. Holes = {START} /\ Distinct(index)
    BY <1>1 DEF Holes, ToSet, Distinct
  <2>2. \A x \in {START - 2, START, START + 1, START + 2, e - 2} : x \in Words
    BY <1>2, <1>4
  <2>3. mem[START] = HEAP_MAGIC /\ mem[START + 1] = 1 /\ mem[START + 2] = len
    BY <2>2, <1>2, <1>5
  <2>4. mem[START - 2] = 0 /\ mem[e - 2] = 0
    <3>1. /\ e - 2 # START /\ e - 2 # START + 1 /\ e - 2 # START + 2
          /\ START - 2 # START /\ START - 2 # START + 1 /\ START - 2 # START + 2
      BY <1>2, <1>3, <1>4
    <3> QED BY <3>1, <2>2, <1>5
  <2>5. Chain(mem, {START}, e)
    BY <2>3, <1>2, <1>3, <1>4 DEF Chain
  <2>6. FooterNames(mem, START, START + mem[START + 2] - FOOTER, e)
    <3>1. START + mem[START + 2] - FOOTER = e - 2 /\ e - 2 + FOOTER = e
      BY <2>3, <1>2, <1>3, <1>4
    <3> QED BY <3>1, <2>4, <1>2 DEF FooterNames
  <2>7. START - FOOTER = START - 2
    BY <1>2
  <2>8. Layout(mem, {START}, {}, e)
    <3>1. {START} \cup {} = {START}
      OBVIOUS
    <3> QED BY <3>1, <2>3, <2>4, <2>5, <2>6, <2>7, <1>4, <1>5 DEF Layout
  <2>9. NoneTouch(mem, {START})
    BY <2>3, <1>2, <1>3, <1>4 DEF NoneTouch
  <2> QED BY <2>1, <2>8, <2>9, <1>1, <1>2 DEF HeapKept
<1>8. GrowthSuffices
  BY <1>1 DEF GrowthSuffices
<1> QED BY <1>6, <1>7, <1>8 DEF HeapInv

\* A step that changes none of what the invariant is about.
LEMMA HeapSame ==
    ASSUME HeapInv, UNCHANGED <<mem, index, end_address, mapped_end, request, live, defect>>,
           halted' \in BOOLEAN, halted => halted'
    PROVE  HeapInv'
<1>1. TypeOK'
  BY DEF HeapInv, TypeOK
<1>2. HeapKept'
  BY DEF HeapInv, HeapKept, Holes
<1>3. GrowthSuffices'
  BY DEF HeapInv, GrowthSuffices, Sound, NoFit, Fitting, Fits
<1> QED BY <1>1, <1>2, <1>3 DEF HeapInv

LEMMA HeapNext ==
    ASSUME HeapInv, [Next]_vars
    PROVE  /\ HeapInv'
           /\ defect = "none" /\ defect' = "none" => \A b \in live \cap live' : Same(mem', b)
<1>1. ASSUME NEW size \in Requests, NEW align \in Aligned, alloc_place(size, align)
      PROVE  HeapInv' /\ (defect' = "none" => \A b \in live \cap live' : Same(mem', b))
  <2>1. size \in Nat \ {0} /\ align \in BOOLEAN
    BY HeapAssumption
  <2> QED BY <2>1, <1>1, PlaceStep
<1>2. ASSUME NEW size \in Requests, NEW align \in Aligned, alloc_grow(size, align)
      PROVE  HeapInv' /\ (defect' = "none" => \A b \in live \cap live' : Same(mem', b))
  <2>1. align \in BOOLEAN
    BY HeapAssumption
  <2> QED BY <2>1, <1>2, GrowStep
<1>3. ASSUME NEW b \in live, free(b)
      PROVE  HeapInv' /\ (defect' = "none" => \A c \in live \cap live' : Same(mem', c))
  BY <1>3, FreeStep
<1>4. ASSUME UNCHANGED <<mem, index, end_address, mapped_end, request, live, defect>>,
             halted' \in BOOLEAN, halted => halted'
      PROVE  HeapInv' /\ \A b \in live \cap live' : Same(mem', b)
  <2>1. HeapInv'
    BY <1>4, HeapSame
  <2>2. \A b \in live : Same(mem', b)
    BY <1>4 DEF Same
  <2> QED BY <2>1, <2>2
<1>5. ASSUME NEW size \in Requests, NEW align \in Aligned, alloc_panic(size, align)
      PROVE  HeapInv' /\ \A b \in live \cap live' : Same(mem', b)
  BY <1>4, <1>5 DEF alloc_panic
<1>6. ASSUME NEW b \in live, free_fault(b)
      PROVE  HeapInv' /\ \A c \in live \cap live' : Same(mem', c)
  BY <1>4, <1>6 DEF free_fault
<1>7. ASSUME UNCHANGED vars
      PROVE  HeapInv' /\ \A b \in live \cap live' : Same(mem', b)
  <2>1. halted \in BOOLEAN
    BY DEF HeapInv, TypeOK
  <2> QED BY <2>1, <1>4, <1>7 DEF vars
<1> QED BY <1>1, <1>2, <1>3, <1>5, <1>6, <1>7 DEF Next, Stopped


(***************************************************************************)
(* The theorems                                                            *)
(***************************************************************************)
\* alloc and free keep what heap.c relies on.
THEOREM HeapInvariant == Spec => []HeapInv
<1>1. Init => HeapInv
  BY HeapInit
<1>2. HeapInv /\ [Next]_vars => HeapInv'
  BY HeapNext
<1> QED BY <1>1, <1>2, PTL DEF Spec

\* The addresses that alloc and free compute stay addresses, and the heap never
\* shrinks below HEAP_MIN_SIZE or grows past the frames there are.
THEOREM HeapTypes == Spec => []TypeOK
<1>1. HeapInv => TypeOK
  BY DEF HeapInv
<1> QED BY <1>1, HeapInvariant, PTL

\* Holes and blocks tile the heap of heap.c.
LEMMA KeptTiled ==
    ASSUME HeapInv
    PROVE  Tiled
<1> SUFFICES ASSUME defect = "none"
             PROVE  /\ end_address % VMM_PAGE_SIZE = 0
                    /\ \A i, j \in DOMAIN index : index[i] = index[j] => i = j
                    /\ Holes \cap live = {}
                    /\ START \in Segments
                    /\ \A s \in Segments : /\ Read(mem, s) = HEAP_MAGIC
                                           /\ Size(mem, s) >= Overhead
                                           /\ After(s) \in Segments \cup {end_address}
                                           /\ \A t \in Segments : After(s) = After(t) => s = t
                    /\ \A h \in Holes : IsHole(mem, h) = 1
                    /\ \A b \in live : IsHole(mem, b) = 0
  BY DEF Tiled
<1>1. /\ Layout(mem, Holes, live, end_address) /\ Distinct(index)
      /\ end_address % VMM_PAGE_SIZE = 0
  BY DEF HeapInv, HeapKept
<1>2. /\ end_address \in Int /\ end_address <= LIMIT /\ Holes \cap live = {}
      /\ Chain(mem, Segments, end_address)
      /\ \A h \in Holes : mem[h + 1] = 1
      /\ \A b \in live : mem[b + 1] = 0
  BY <1>1 DEF Layout, Segments
<1>3. ASSUME NEW s \in Segments
      PROVE  /\ Read(mem, s) = mem[s] /\ IsHole(mem, s) = mem[s + 1]
             /\ Size(mem, s) = mem[s + 2] /\ After(s) = s + mem[s + 2]
             /\ s \in Int /\ mem[s + 2] \in Int /\ mem[s + 2] >= 5
  <2>1. Read(mem, s) = mem[s] /\ IsHole(mem, s) = mem[s + 1] /\ Size(mem, s) = mem[s + 2]
    BY <1>1, ReadSegment DEF Segments
  <2>2. s \in Int /\ mem[s + 2] \in Int /\ mem[s + 2] >= 5
    BY <1>2, InWords
  <2> QED BY <2>1, <2>2 DEF After
<1>4. ASSUME NEW s \in Segments, NEW t \in Segments, After(s) = After(t)
      PROVE  s = t
  <2>1. s + mem[s + 2] = t + mem[t + 2]
    BY <1>3, <1>4
  <2>2. s < t => s + mem[s + 2] <= t
    BY <1>2 DEF Chain
  <2>3. t < s => t + mem[t + 2] <= s
    BY <1>2 DEF Chain
  <2> QED BY <2>1, <2>2, <2>3, <1>3
<1>5. ASSUME NEW s \in Segments
      PROVE  /\ Read(mem, s) = HEAP_MAGIC /\ Size(mem, s) >= Overhead
             /\ After(s) \in Segments \cup {end_address}
  BY <1>2, <1>3 DEF Chain
<1>6. START \in Segments
  BY <1>2 DEF Chain
<1>7. (\A h \in Holes : IsHole(mem, h) = 1) /\ (\A b \in live : IsHole(mem, b) = 0)
  BY <1>2, <1>3 DEF Segments
<1>8. \A i, j \in DOMAIN index : index[i] = index[j] => i = j
  BY <1>1 DEF Distinct
<1> QED BY <1>1, <1>2, <1>4, <1>5, <1>6, <1>7, <1>8

THEOREM HeapTiled == Spec => []Tiled
<1>1. HeapInv => Tiled
  BY KeptTiled
<1> QED BY <1>1, HeapInvariant, PTL

\* The footer from which free finds the header in front of it is the block's own.
THEOREM HeapFooters == Spec => []BlockFooters
<1>1. ASSUME HeapInv PROVE BlockFooters
  <2>1. ASSUME defect = "none", NEW b \in live
        PROVE  mem[b + Size(mem, b) - FOOTER] = HEAP_MAGIC /\ mem[b + Size(mem, b) - FOOTER + 1] = b
    <3>1. Layout(mem, Holes, live, end_address)
      BY <1>1, <2>1 DEF HeapInv, HeapKept
    <3>2. Size(mem, b) = mem[b + 2]
      BY <3>1, ReadSegment
    <3> QED BY <3>1, <3>2 DEF Layout
  <2> QED BY <2>1 DEF BlockFooters
<1> QED BY <1>1, HeapInvariant, PTL

\* free leaves no two holes side by side.
THEOREM HeapCoalesced == Spec => []Coalesced
<1>1. ASSUME HeapInv PROVE Coalesced
  <2>1. ASSUME defect = "none", NEW h \in Holes
        PROVE  After(h) \notin Holes
    <3>1. Layout(mem, Holes, live, end_address) /\ NoneTouch(mem, Holes)
      BY <1>1, <2>1 DEF HeapInv, HeapKept
    <3>2. Size(mem, h) = mem[h + 2]
      BY <3>1, ReadSegment
    <3> QED BY <3>1, <3>2 DEF After, NoneTouch
  <2> QED BY <2>1 DEF Coalesced
<1> QED BY <1>1, HeapInvariant, PTL

\* The call that alloc makes of itself after it grew the heap finds a hole when
\* no alignment is asked for.
THEOREM HeapGrowthSuffices == Spec => []GrowthSuffices
<1>1. HeapInv => GrowthSuffices
  BY DEF HeapInv
<1> QED BY <1>1, HeapInvariant, PTL

\* After the first defect no call touches the heap.
LEMMA DefectStays ==
    ASSUME Next, defect # "none"
    PROVE  UNCHANGED vars
  BY DEF Next, alloc_place, alloc_grow, alloc_panic, free, free_fault, Calls, Stopped, Sound

\* No call of alloc or free writes to a block that another caller holds.
THEOREM HeapBlocksKept == Spec => BlocksKept
<1>1. ASSUME HeapInv, [Next]_vars PROVE [OthersKept]_vars
  <2>1. SUFFICES ASSUME vars' # vars PROVE OthersKept
    OBVIOUS
  <2>2. defect = "none"
    BY <1>1, <2>1, DefectStays DEF vars
  <2>3. ASSUME defect' = "none", NEW b \in live \cap live'
        PROVE  \A a \in b .. After(b) - 1 : mem'[a] = mem[a]
    <3>1. Layout(mem, Holes, live, end_address)
      BY <1>1, <2>2 DEF HeapInv, HeapKept
    <3>2. Size(mem, b) = mem[b + 2]
      BY <3>1, ReadSegment
    <3>3. Same(mem', b)
      BY <1>1, <2>2, <2>3, HeapNext
    <3>4. \A a \in b .. b + mem[b + 2] - 1 : mem'[a] = mem[a]
      BY <3>3 DEF Same
    <3>5. b \in Int /\ mem[b + 2] \in Int
      <4>1. b \in live /\ end_address \in Int /\ end_address <= LIMIT
            /\ Chain(mem, Holes \cup live, end_address)
        BY <3>1 DEF Layout
      <4> QED BY <4>1, InWords
    <3>6. After(b) = b + mem[b + 2]
      BY <3>2 DEF After
    <3> QED BY <3>4, <3>5, <3>6
  <2> QED BY <2>3 DEF OthersKept
<1> QED BY <1>1, HeapInvariant, PTL DEF Spec, BlocksKept

\* alloc gives a block of at least the size that was asked for, on a page
\* boundary when that was asked for too.
THEOREM HeapGrants == Spec => GrantsRequest
<1>1. ASSUME HeapInv, [Next]_vars PROVE [Granted]_vars
  <2>1. ASSUME NEW b \in live' \ live, NEW size \in Requests, NEW align \in Aligned,
               alloc_place(size, align), defect' = "none"
        PROVE  Size(mem', b) >= size + Overhead /\ (align => (b + HEADER) % VMM_PAGE_SIZE = 0)
    <3>1. size \in Nat \ {0} /\ align \in BOOLEAN
      BY HeapAssumption
    <3>2. /\ HeapInv'
          /\ defect' = "none" =>
               /\ \A c \in live : Same(mem', c)
               /\ \A c \in live' \ live :
                    /\ mem'[c + 2] >= size + Overhead
                    /\ align => (c + HEADER) % VMM_PAGE_SIZE = 0
      BY <1>1, <2>1, <3>1, PlaceStep
    <3>3. Layout(mem', Holes', live', end_address')
      BY <2>1, <3>2 DEF HeapInv, HeapKept
    <3>4. Size(mem', b) = mem'[b + 2]
      BY <3>3, ReadSegment
    <3> QED BY <2>1, <3>2, <3>4
  <2> QED BY <2>1 DEF Granted
<1> QED BY <1>1, HeapInvariant, PTL DEF Spec, GrantsRequest

(***************************************************************************)
(* Refinement                                                              *)
(***************************************************************************)
\* alloc hands out an address that no caller holds.
LEMMA PlacedNew ==
    ASSUME TypeOK, HeapKept, defect = "none", NEW size \in Nat \ {0}, NEW align \in BOOLEAN,
           NEW i \in 1 .. Len(index), Fits(index[i], size + Overhead, align),
           Placed(i, size, align).defect = "none"
    PROVE  Placed(i, size, align).block \notin live
<1> DEFINE h == index[i]
           w == Size(mem, h)
<1>1. /\ Placed(i, size, align).block = IF align THEN h + Cut(h) ELSE h
      /\ align => ~(Cut(h) < Overhead)
  BY DEF Placed
<1>2. Layout(mem, Holes, live, end_address) /\ h \in Holes /\ w = mem[h + 2]
  <2>1. Layout(mem, Holes, live, end_address) /\ h \in Holes
    BY LenProperties DEF TypeOK, HeapKept, Holes, ToSet
  <2> QED BY <2>1, ReadSegment
<1>3. CASE ~align
  BY <1>1, <1>2, <1>3 DEF Layout
<1>4. CASE align
  <2>1. h \in Int /\ mem[h + 2] \in Int
    <3>1. end_address \in Int /\ end_address <= LIMIT /\ Chain(mem, Holes \cup live, end_address)
      BY <1>2 DEF Layout
    <3> QED BY <1>2, <3>1, InWords
  <2>2. Cut(h) \in Int /\ Cut(h) >= 5 /\ Offset(h) = Cut(h)
    <3>1. /\ Cut(h) \in Int /\ (h + Cut(h) + HEADER) % VMM_PAGE_SIZE = 0
          /\ Cut(h) >= 5 => Offset(h) = Cut(h)
      BY <2>1, CutFacts
    <3> HIDE DEF h
    <3>2. Cut(h) >= 5
      BY <1>1, <1>4, <3>1, Constants
    <3> QED BY <3>1, <3>2
  <2>3. w - Cut(h) >= size + 5
    BY <1>4, <2>2, Constants DEF Fits
  <2> HIDE DEF h, w
  <2>4. h < h + Cut(h) /\ h + Cut(h) < h + mem[h + 2] /\ h + Cut(h) \in Int
    BY <1>2, <2>1, <2>2, <2>3
  <2>5. h + Cut(h) \notin Holes \cup live
    BY <1>2, <2>4, InsideHole
  <2> QED BY <1>1, <1>4, <2>5 DEF h
<1> QED BY <1>3, <1>4

\* What the callers see of the blocks L in memory m.
Shown(m, L) == [p \in {b + HEADER : b \in L} |->
                   [a \in p .. ((p - HEADER) + Size(m, p - HEADER)) - FOOTER - 1 |-> Read(m, a)]]
Payload(m, b) == b + HEADER .. b + m[b + 2] - FOOTER - 1

LEMMA ShownHeld == Held = Shown(mem, live) /\ Held' = Shown(mem', live')
<1>1. Held = Shown(mem, live)
  BY DEF Held, Shown, After
<1>2. Held' = Shown(mem', live')
  BY DEF Held, Shown, After, Size, Read
<1> QED BY <1>1, <1>2

LEMMA ShownFacts ==
    ASSUME NEW m, NEW H, NEW L, NEW e, Layout(m, H, L, e)
    PROVE  /\ L \subseteq Int
           /\ DOMAIN Shown(m, L) = {b + 3 : b \in L}
           /\ \A b \in L : /\ Shown(m, L)[b + 3] = [a \in Payload(m, b) |-> m[a]]
                           /\ m[b + 2] \in Int
                           /\ Payload(m, b) = b + 3 .. b + m[b + 2] - 3
                           /\ Payload(m, b) \subseteq b .. b + m[b + 2] - 1
                           /\ Payload(m, b) \subseteq START .. LIMIT - 1
<1>1. e \in Int /\ e <= LIMIT /\ Chain(m, H \cup L, e)
  BY DEF Layout
<1>2. ASSUME NEW b \in L
      PROVE  /\ b \in Int /\ START <= b /\ m[b + 2] \in Int /\ m[b + 2] >= 5
             /\ b + m[b + 2] <= e
             /\ \A a \in b .. b + m[b + 2] - 1 : a \in Words
  BY <1>1, InWords
<1>3. DOMAIN Shown(m, L) = {b + 3 : b \in L}
  BY Constants DEF Shown
<1>4. ASSUME NEW b \in L
      PROVE  /\ Shown(m, L)[b + 3] = [a \in Payload(m, b) |-> m[a]]
             /\ m[b + 2] \in Int
             /\ Payload(m, b) = b + 3 .. b + m[b + 2] - 3
             /\ Payload(m, b) \subseteq b .. b + m[b + 2] - 1
             /\ Payload(m, b) \subseteq START .. LIMIT - 1
  <2>1. /\ b \in Int /\ START <= b /\ m[b + 2] \in Int /\ m[b + 2] >= 5
        /\ b + m[b + 2] <= e /\ e \in Int /\ e <= LIMIT /\ LIMIT \in Int /\ START \in Int
    BY <1>1, <1>2, Constants
  <2>2. Payload(m, b) = b + 3 .. b + m[b + 2] - 3
    BY <2>1, Constants DEF Payload
  <2>3. /\ Payload(m, b) \subseteq b .. b + m[b + 2] - 1
        /\ Payload(m, b) \subseteq START .. LIMIT - 1
    <3> DEFINE k == m[b + 2]
    <3>1. b + 3 .. b + k - 3 \subseteq b .. b + k - 1
      BY <2>1
    <3>2. b + 3 .. b + k - 3 \subseteq START .. LIMIT - 1
      BY <2>1
    <3> QED BY <2>2, <3>1, <3>2
  <2>4. \A a \in Payload(m, b) : Read(m, a) = m[a]
    BY <1>2, <2>3 DEF Read
  <2>5. Size(m, b) = m[b + 2]
    BY ReadSegment
  <2>6. Shown(m, L)[b + 3] = [a \in b + 3 .. (((b + 3) - 3) + Size(m, (b + 3) - 3)) - 2 - 1 |-> Read(m, a)]
    BY Constants DEF Shown
  <2>7. (b + 3) - 3 = b /\ (b + m[b + 2]) - 2 - 1 = b + m[b + 2] - 3
    BY <2>1
  <2>8. Shown(m, L)[b + 3] = [a \in Payload(m, b) |-> Read(m, a)]
    BY <2>2, <2>5, <2>6, <2>7
  <2> QED BY <2>1, <2>2, <2>3, <2>4, <2>8
<1>5. L \subseteq Int
  BY <1>2
<1> QED BY <1>3, <1>4, <1>5

\* A block that keeps its words is seen as before.
LEMMA ShownSame ==
    ASSUME NEW m, NEW H, NEW L, NEW e, Layout(m, H, L, e),
           NEW n, NEW I, NEW M, NEW f, Layout(n, I, M, f),
           NEW b \in L \cap M, \A a \in b .. b + m[b + 2] - 1 : n[a] = m[a]
    PROVE  Shown(n, M)[b + 3] = Shown(m, L)[b + 3]
<1>4. /\ L \subseteq Int
      /\ DOMAIN Shown(m, L) = {c + 3 : c \in L}
      /\ \A c \in L : /\ Shown(m, L)[c + 3] = [a \in Payload(m, c) |-> m[a]]
                      /\ m[c + 2] \in Int
                      /\ Payload(m, c) = c + 3 .. c + m[c + 2] - 3
                      /\ Payload(m, c) \subseteq c .. c + m[c + 2] - 1
                      /\ Payload(m, c) \subseteq START .. LIMIT - 1
  BY ShownFacts
<1>5. /\ M \subseteq Int
      /\ DOMAIN Shown(n, M) = {c + 3 : c \in M}
      /\ \A c \in M : /\ Shown(n, M)[c + 3] = [a \in Payload(n, c) |-> n[a]]
                      /\ n[c + 2] \in Int
                      /\ Payload(n, c) = c + 3 .. c + n[c + 2] - 3
                      /\ Payload(n, c) \subseteq c .. c + n[c + 2] - 1
                      /\ Payload(n, c) \subseteq START .. LIMIT - 1
  BY ShownFacts
<1>1. /\ Shown(m, L)[b + 3] = [a \in Payload(m, b) |-> m[a]]
      /\ Payload(m, b) \subseteq b .. b + m[b + 2] - 1
      /\ Payload(m, b) = b + 3 .. b + m[b + 2] - 3
  BY <1>4
<1>2. /\ Shown(n, M)[b + 3] = [a \in Payload(n, b) |-> n[a]]
      /\ Payload(n, b) = b + 3 .. b + n[b + 2] - 3
  BY <1>5
<1>3. n[b + 2] = m[b + 2]
  <2>1. e \in Int /\ e <= LIMIT /\ Chain(m, H \cup L, e) /\ b \in H \cup L
    BY DEF Layout
  <2>2. b \in Int /\ m[b + 2] \in Int /\ m[b + 2] >= 5
    BY <2>1, InWords
  <2> QED BY <2>2
<1> QED BY <1>1, <1>2, <1>3

\* Two blocks have no word in common.
LEMMA ShownApart ==
    ASSUME NEW m, NEW H, NEW L, NEW e, Layout(m, H, L, e),
           NEW b \in L, NEW c \in L, b # c
    PROVE  DOMAIN Shown(m, L)[b + 3] \cap DOMAIN Shown(m, L)[c + 3] = {}
<1>1. Chain(m, H \cup L, e) /\ b \in H \cup L /\ c \in H \cup L
  BY DEF Layout
<1>2. /\ b \in Int /\ c \in Int /\ m[b + 2] \in Int /\ m[c + 2] \in Int
      /\ DOMAIN Shown(m, L)[b + 3] \subseteq b .. b + m[b + 2] - 1
      /\ DOMAIN Shown(m, L)[c + 3] \subseteq c .. c + m[c + 2] - 1
  <2>1. /\ L \subseteq Int
        /\ DOMAIN Shown(m, L) = {d + 3 : d \in L}
        /\ \A d \in L : /\ Shown(m, L)[d + 3] = [a \in Payload(m, d) |-> m[a]]
                        /\ m[d + 2] \in Int
                        /\ Payload(m, d) = d + 3 .. d + m[d + 2] - 3
                        /\ Payload(m, d) \subseteq d .. d + m[d + 2] - 1
                        /\ Payload(m, d) \subseteq START .. LIMIT - 1
    BY ShownFacts
  <2>2. /\ Shown(m, L)[b + 3] = [a \in Payload(m, b) |-> m[a]]
        /\ Shown(m, L)[c + 3] = [a \in Payload(m, c) |-> m[a]]
    BY <2>1
  <2> QED BY <2>1, <2>2
<1>3. b + m[b + 2] <= c \/ c + m[c + 2] <= b
  BY <1>1, <1>2 DEF Chain
<1> QED BY <1>2, <1>3

LEMMA PromisedInit == Init => Promise!Init
<1> SUFFICES ASSUME Init
             PROVE  Promise!Init
  OBVIOUS
<1>1. live = {} /\ defect = "none"
  BY DEF Init
<1>2. {b + HEADER : b \in live} = {}
  BY <1>1
<1>3. Held = [p \in {} |-> 0]
  BY <1>2 DEF Held
<1> QED BY <1>1, <1>3 DEF Promise!Init

\* A call of alloc that finds a hole hands out a block as promised.
LEMMA PromisedMalloc ==
    ASSUME HeapInv, NEW size \in Requests, NEW align \in Aligned,
           alloc_place(size, align), defect' = "none"
    PROVE  Promise!Malloc(size, align)
<1> DEFINE i == FirstFit(size + Overhead, align)
           b == Placed(i, size, align).block
<1>1. /\ TypeOK /\ HeapKept /\ defect = "none" /\ size \in Nat \ {0} /\ align \in BOOLEAN
      /\ index \in Seq(Int)
  BY HeapAssumption DEF HeapInv, TypeOK, alloc_place, Calls, Sound
<1>2. live' = live \cup {b} /\ Placed(i, size, align).defect = "none"
  BY DEF alloc_place
<1>3. i \in 1 .. Len(index) /\ Fits(index[i], size + Overhead, align)
  BY <1>1, FirstFits DEF alloc_place, NoFit
<1>4. b \notin live
  <2> HIDE DEF i
  <2> QED BY <1>1, <1>2, <1>3, PlacedNew
<1> HIDE DEF b, i
<1>5. /\ HeapInv'
      /\ \A c \in live : Same(mem', c)
      /\ mem'[b + 2] >= size + Overhead
      /\ align => (b + HEADER) % VMM_PAGE_SIZE = 0
  <2>1. /\ HeapInv'
        /\ defect' = "none" =>
             /\ \A c \in live : Same(mem', c)
             /\ \A c \in live' \ live : /\ mem'[c + 2] >= size + Overhead
                                        /\ align => (c + HEADER) % VMM_PAGE_SIZE = 0
    BY <1>1, PlaceStep
  <2> QED BY <2>1, <1>2, <1>4
<1>6. Layout(mem, Holes, live, end_address) /\ Layout(mem', Holes', live', end_address')
  BY <1>1, <1>5 DEF HeapInv, HeapKept
<1> DEFINE old == Shown(mem, live)
           new == Shown(mem', live')
           p == b + 3
<1>7. /\ live \subseteq Int /\ live' \subseteq Int /\ b \in Int
      /\ DOMAIN old = {c + 3 : c \in live} /\ DOMAIN new = {c + 3 : c \in live'}
      /\ mem'[b + 2] \in Int
      /\ DOMAIN new[p] = b + 3 .. b + mem'[b + 2] - 3
      /\ DOMAIN new[p] \subseteq START .. LIMIT - 1
  <2>1. /\ live \subseteq Int /\ DOMAIN old = {c + 3 : c \in live}
    BY <1>6, ShownFacts
  <2>2. /\ live' \subseteq Int /\ DOMAIN new = {c + 3 : c \in live'}
        /\ \A c \in live' : /\ new[c + 3] = [a \in Payload(mem', c) |-> mem'[a]]
                            /\ mem'[c + 2] \in Int
                            /\ Payload(mem', c) = c + 3 .. c + mem'[c + 2] - 3
                            /\ Payload(mem', c) \subseteq c .. c + mem'[c + 2] - 1
                            /\ Payload(mem', c) \subseteq START .. LIMIT - 1
    BY <1>6, ShownFacts
  <2> HIDE DEF old, new
  <2>3. b \in live'
    BY <1>2
  <2>4. DOMAIN new[p] = Payload(mem', b)
    BY <2>2, <2>3
  <2> QED BY <2>1, <2>2, <2>3, <2>4
<1>8. ASSUME NEW c \in live
      PROVE  new[c + 3] = old[c + 3] /\ DOMAIN old[c + 3] \cap DOMAIN new[p] = {}
  <2>1. c \in live \cap live' /\ c # b /\ b \in live'
    BY <1>2, <1>4
  <2>2. \A a \in c .. c + mem[c + 2] - 1 : mem'[a] = mem[a]
    BY <1>5 DEF Same
  <2>3. new[c + 3] = old[c + 3]
    BY <1>6, <2>1, <2>2, ShownSame
  <2>4. DOMAIN new[c + 3] \cap DOMAIN new[b + 3] = {}
    BY <1>6, <2>1, ShownApart
  <2> QED BY <2>3, <2>4
<1>9. old = [q \in DOMAIN old |-> old[q]]
  BY DEF Shown
<1> HIDE DEF old, new
<1>10. p \in DOMAIN new /\ p \notin DOMAIN old /\ DOMAIN new \ {p} = DOMAIN old
  BY <1>2, <1>4, <1>7
<1>11. \A q \in DOMAIN old : new[q] = old[q] /\ DOMAIN old[q] \cap DOMAIN new[p] = {}
  BY <1>7, <1>8
<1>12. old = [q \in DOMAIN new \ {p} |-> new[q]]
  BY <1>9, <1>10, <1>11
<1>13. p .. p + size - 1 \subseteq DOMAIN new[p]
  <2>1. size \in Int /\ mem'[b + 2] >= size + 5
    BY <1>1, <1>5, Constants
  <2> QED BY <2>1, <1>7
<1>14. align => p % VMM_PAGE_SIZE = 0
  BY <1>5, Constants
<1>15. Held = old /\ Held' = new
  BY ShownHeld DEF old, new
<1> QED BY <1>7, <1>10, <1>11, <1>12, <1>13, <1>14, <1>15 DEF Promise!Malloc

LEMMA PromisedFree ==
    ASSUME HeapInv, NEW b \in live, free(b), defect' = "none"
    PROVE  b + HEADER \in DOMAIN Held /\ Promise!Free(b + HEADER)
<1>1. defect = "none" /\ live' = live \ {b}
  BY DEF free, Sound
<1>2. HeapInv' /\ \A c \in live \cap live' : Same(mem', c)
  BY FreeStep
<1>3. Layout(mem, Holes, live, end_address) /\ Layout(mem', Holes', live', end_address')
  BY <1>1, <1>2 DEF HeapInv, HeapKept
<1> DEFINE old == Shown(mem, live)
           new == Shown(mem', live')
<1>4. live \subseteq Int /\ DOMAIN old = {c + 3 : c \in live}
  BY <1>3, ShownFacts
<1>5. DOMAIN new = {c + 3 : c \in live'}
  BY <1>3, ShownFacts
<1>6. ASSUME NEW c \in live'
      PROVE  new[c + 3] = old[c + 3]
  <2>1. c \in live \cap live'
    BY <1>1
  <2>2. \A a \in c .. c + mem[c + 2] - 1 : mem'[a] = mem[a]
    BY <1>2, <2>1 DEF Same
  <2> QED BY <1>3, <2>1, <2>2, ShownSame
<1>7. new = [q \in DOMAIN new |-> new[q]]
  BY DEF Shown
<1> HIDE DEF old, new
<1>8. DOMAIN new = DOMAIN old \ {b + 3} /\ b + 3 \in DOMAIN old
  BY <1>1, <1>4, <1>5
<1>9. \A q \in DOMAIN new : new[q] = old[q]
  BY <1>5, <1>6
<1>10. new = [q \in DOMAIN old \ {b + 3} |-> old[q]]
  BY <1>7, <1>8, <1>9
<1>11. Held = old /\ Held' = new /\ HEADER = 3
  BY ShownHeld, Constants DEF old, new
<1> QED BY <1>8, <1>10, <1>11 DEF Promise!Free

\* What grows the heap, or stops the kernel, is not seen by the callers.
LEMMA PromisedSame ==
    ASSUME HeapInv, HeapInv', defect = "none", defect' = "none", live' = live,
           \A b \in live : Same(mem', b)
    PROVE  Held' = Held
<1>1. Layout(mem, Holes, live, end_address) /\ Layout(mem', Holes', live, end_address')
  BY DEF HeapInv, HeapKept
<1> DEFINE old == Shown(mem, live)
           new == Shown(mem', live)
<1>2. DOMAIN old = {c + 3 : c \in live}
  BY <1>1, ShownFacts
<1>3. DOMAIN new = {c + 3 : c \in live}
  BY <1>1, ShownFacts
<1>4. ASSUME NEW c \in live
      PROVE  new[c + 3] = old[c + 3]
  <2>1. \A a \in c .. c + mem[c + 2] - 1 : mem'[a] = mem[a]
    BY DEF Same
  <2> QED BY <1>1, <2>1, ShownSame
<1>5. new = [q \in DOMAIN new |-> new[q]] /\ old = [q \in DOMAIN old |-> old[q]]
  BY DEF Shown
<1> HIDE DEF old, new
<1>6. new = old
  BY <1>2, <1>3, <1>4, <1>5
<1> QED BY <1>6, ShownHeld DEF old, new

LEMMA PromisedStep ==
    HeapInv /\ HeapInv' /\ [Next]_vars => [Promise!Next]_<<Held, defect = "none">>
<1> SUFFICES ASSUME HeapInv, HeapInv', [Next]_vars
             PROVE  [Promise!Next]_<<Held, defect = "none">>
  OBVIOUS
<1>1. CASE UNCHANGED vars
  BY <1>1 DEF vars, Held, After, Size, Read
<1>2. CASE ~UNCHANGED vars /\ defect' # "none"
  <2>1. defect = "none"
    BY <1>2, DefectStays
  <2> QED BY <1>2, <2>1 DEF Promise!Next, Promise!Misled
<1>3. CASE ~UNCHANGED vars /\ defect' = "none"
  <2>1. defect = "none"
    BY <1>3, DefectStays
  <2>2. ASSUME NEW size \in Requests, NEW align \in Aligned, alloc_place(size, align)
        PROVE  Promise!Next
    BY <1>3, <2>1, <2>2, PromisedMalloc DEF Promise!Next
  <2>3. ASSUME NEW b \in live, free(b)
        PROVE  Promise!Next
    BY <1>3, <2>1, <2>3, PromisedFree DEF Promise!Next
  <2>4. ASSUME NEW size \in Requests, NEW align \in Aligned, alloc_grow(size, align)
        PROVE  UNCHANGED Held
    <3>1. align \in BOOLEAN
      BY HeapAssumption
    <3>2. \A b \in live : Same(mem', b)
      BY <1>3, <2>4, <3>1, GrowStep
    <3>3. live' = live
      BY <2>4 DEF alloc_grow
    <3> QED BY <1>3, <2>1, <3>2, <3>3, PromisedSame
  <2>5. ASSUME UNCHANGED <<mem, live>>
        PROVE  UNCHANGED Held
    BY <2>5 DEF Held, After, Size, Read
  <2>6. ASSUME NEW size \in Requests, NEW align \in Aligned, alloc_panic(size, align)
        PROVE  UNCHANGED Held
    BY <2>5, <2>6 DEF alloc_panic
  <2>7. ASSUME NEW b \in live, free_fault(b)
        PROVE  UNCHANGED Held
    BY <2>5, <2>7 DEF free_fault
  <2>8. Promise!Next \/ UNCHANGED Held
    BY <1>3, <2>2, <2>3, <2>4, <2>6, <2>7 DEF Next, Stopped
  <2> QED BY <1>3, <2>1, <2>8
<1> QED BY <1>1, <1>2, <1>3

\* heap.c keeps its promise to the callers of kmalloc and kfree, for any page
\* size, any requests and any number of blocks, up to the first defect.
THEOREM HeapImplements == Spec => HeapSpec
<1> QED BY HeapInvariant, PromisedInit, PromisedStep, PTL DEF Spec, HeapSpec, Promise!Spec
==============================================================================
