--------------------------- MODULE ExtractorProofs ----------------------------
(***************************************************************************)
(* Proofs about Extractor, for every page that can be put together of any  *)
(* fragments and for texts of any lengths: nothing stands twice in the     *)
(* markdown that is not twice on the page, and a heading brought back      *)
(* stays over text of its own section. Pages are trees; what a pass takes  *)
(* is not inside of something else it takes; and each pass only puts lines *)
(* between those there are.                                                *)
(***************************************************************************)
EXTENDS Extractor, CollectionProofs

-----------------------------------------------------------------------------
(* One step after the other: where each leads from what the one before has *)
(* led to, all of them lead.                                               *)
LEMMA ThroughReaches ==
  ASSUME NEW steps, Len(steps) \in Nat, NEW reached, NEW start, start \in reached[0],
         \A k \in 1..Len(steps) : \A x \in reached[k - 1] : steps[k][x] \in reached[k]
  PROVE  Through(steps, start) \in reached[Len(steps)]
<1>. DEFINE N == Len(steps)
            V == UNION {reached[k] : k \in 0..N}
            F == [c \in Nat \X V |->
                    IF c[1] + 1 \in 1..N /\ c[2] \in reached[c[1]] THEN steps[c[1] + 1][c[2]] ELSE start]
            after == CHOOSE after : after = [k \in 0..N |->
                       IF k = 0 THEN start ELSE steps[k][after[k - 1]]]
<1>0. N \in Nat /\ start \in V
  OBVIOUS
<1>1. F \in [Nat \X V -> V]
  <2>1. ASSUME NEW c \in Nat \X V, c[1] + 1 \in 1..N, c[2] \in reached[c[1]]
        PROVE  steps[c[1] + 1][c[2]] \in V
    <3>1. c[1] + 1 \in 0..N /\ c[1] + 1 - 1 = c[1]
      BY <2>1
    <3>2. steps[c[1] + 1][c[2]] \in reached[c[1] + 1]
      BY <2>1, <3>1
    <3>. QED BY <3>1, <3>2
  <2>. HIDE DEF N, V
  <2>. QED BY <1>0, <2>1
<1>2. \A n \in 1..N : \A x \in reached[n - 1] : F[<<n - 1, x>>] = steps[n][x]
  <2>. SUFFICES ASSUME NEW n \in 1..N, NEW x \in reached[n - 1]
                PROVE  F[<<n - 1, x>>] = steps[n][x]
    OBVIOUS
  <2>1. n - 1 \in Nat /\ n - 1 + 1 = n /\ n - 1 \in 0..N
    BY <1>0
  <2>2. x \in V
    BY <2>1
  <2>. HIDE DEF V, N
  <2>3. F[<<n - 1, x>>] = IF n - 1 + 1 \in 1..N /\ x \in reached[n - 1] THEN steps[n - 1 + 1][x] ELSE start
    BY <2>1, <2>2
  <2>. HIDE DEF F
  <2>. QED BY <2>1, <2>3
<1>3. PICK g : IsTable(g, start, F, V, N)
  <2>1. start \in V /\ IsStep(F, V)
    BY <1>0, <1>1 DEF IsStep
  <2>. HIDE DEF F, N, V
  <2>. QED BY <1>0, <2>1, Table
<1>4. g[0] = start /\ DOMAIN g = 0..N /\ \A n \in 1..N : g[n] = F[<<n - 1, g[n - 1]>>]
  BY <1>3 DEF IsTable
<1>. HIDE DEF F, V
<1>5. \A n \in 0..N : g[n] \in reached[n]
  <2>. DEFINE T == {n \in Nat : n \in 0..N => g[n] \in reached[n]}
  <2>1. 0 \in T
    BY <1>4
  <2>2. ASSUME NEW n \in Nat, n \in T PROVE n + 1 \in T
    <3>. SUFFICES ASSUME n + 1 \in 0..N PROVE g[n + 1] \in reached[n + 1]
      OBVIOUS
    <3>1. n \in 0..N /\ n + 1 \in 1..N /\ n + 1 - 1 = n
      BY <1>0
    <3>2. g[n] \in reached[n]
      BY <2>2, <3>1
    <3>3. g[n + 1] = steps[n + 1][g[n]]
      <4>. HIDE DEF N
      <4>1. g[n + 1] = F[<<n + 1 - 1, g[n + 1 - 1]>>]
        BY <1>4, <3>1
      <4>2. g[n] \in reached[n + 1 - 1]
        BY <3>1, <3>2
      <4>3. F[<<n + 1 - 1, g[n]>>] = steps[n + 1][g[n]]
        BY <1>2, <3>1, <4>2
      <4>4. g[n + 1 - 1] = g[n]
        BY <3>1
      <4>. QED BY <4>1, <4>3, <4>4
    <3>. QED BY <3>1, <3>2, <3>3
  <2>. HIDE DEF T
  <2>3. Nat \subseteq T
    BY <2>1, <2>2, SetInduction
  <2>. QED BY <2>3 DEF T
<1>. DEFINE entry(h, k) == IF k = 0 THEN start ELSE steps[k][h[k - 1]]
<1>6. g = [k \in 0..N |-> entry(g, k)]
  <2>1. ASSUME NEW k \in 0..N PROVE g[k] = entry(g, k)
    <3>1. CASE k = 0
      BY <1>4, <3>1
    <3>2. CASE k # 0
      <4>1. k \in 1..N /\ k - 1 \in 0..N
        BY <1>0, <3>2
      <4>. HIDE DEF N
      <4>. QED BY <1>2, <1>4, <1>5, <3>2, <4>1
    <3>. QED BY <3>1, <3>2
  <2>. HIDE DEF entry, N
  <2>2. g = [k \in 0..N |-> g[k]]
    BY <1>3 DEF IsTable
  <2>. QED BY <2>1, <2>2
<1>7. after = [k \in 0..N |-> entry(after, k)]
  <2>1. after = CHOOSE h : h = [k \in 0..N |-> entry(h, k)]
    OBVIOUS
  <2>. HIDE DEF entry, after, N
  <2>. QED BY <1>6, <2>1
<1>8. Through(steps, start) = after[N]
  BY DEF Through
<1>. HIDE DEF after
<1>9. \A k \in 0..N : after[k] = entry(after, k)
  <2>. HIDE DEF entry, N
  <2>. QED BY <1>7
<1>. DEFINE T == {k \in Nat : k \in 0..N => after[k] = g[k]}
<1>10. 0 \in T
  <2>1. 0 \in 0..N
    BY <1>0
  <2>. QED BY <1>4, <1>9, <2>1
<1>11. ASSUME NEW n \in Nat, n \in T PROVE n + 1 \in T
  <2>. SUFFICES ASSUME n + 1 \in 0..N PROVE after[n + 1] = g[n + 1]
    OBVIOUS
  <2>1. n \in 0..N /\ n + 1 \in 1..N /\ n + 1 # 0 /\ n + 1 - 1 = n
    BY <1>0
  <2>2. after[n + 1] = entry(after, n + 1) /\ g[n + 1] = entry(g, n + 1)
    <3>. HIDE DEF entry, N
    <3>. QED BY <1>6, <1>9
  <2>3. after[n] = g[n]
    BY <1>11, <2>1
  <2>. QED BY <2>1, <2>2, <2>3
<1>12. N \in T
  <2>. HIDE DEF T, N
  <2>. QED BY <1>0, <1>10, <1>11, SetInduction
<1>13. N \in 0..N /\ N = Len(steps)
  BY <1>0
<1>14. after[N] = g[N]
  BY <1>12, <1>13
<1>. HIDE DEF N
<1>. QED BY <1>5, <1>8, <1>13, <1>14

(* What each of the steps keeps, all of them keep.                         *)
LEMMA ThroughKeeps ==
  ASSUME NEW kept, NEW steps, Len(steps) \in Nat, NEW start \in kept,
         \A k \in 1..Len(steps) : \A x \in kept : steps[k][x] \in kept
  PROVE  Through(steps, start) \in kept
<1>. DEFINE reached == [k \in 0..Len(steps) |-> kept]
<1>1. start \in reached[0] /\ reached[Len(steps)] = kept
  OBVIOUS
<1>2. \A k \in 1..Len(steps) : k - 1 \in 0..Len(steps) /\ k \in 0..Len(steps)
  OBVIOUS
<1>3. \A k \in 1..Len(steps) : \A x \in reached[k - 1] : steps[k][x] \in reached[k]
  BY <1>2
<1>. HIDE DEF reached
<1>. QED BY <1>1, <1>3, ThroughReaches

(* The numbers of a set in order.                                          *)
LEMMA InOrderFacts ==
  ASSUME NEW S \in SUBSET Nat, IsFiniteSet(S)
  PROVE  /\ InOrder(S) \in Seq(S) /\ Len(InOrder(S)) = Cardinality(S) /\ Cardinality(S) \in Nat
         /\ Range(InOrder(S)) = S /\ IsInjective(InOrder(S))
         /\ \A j, k \in 1..Cardinality(S) : j < k => InOrder(S)[j] < InOrder(S)[k]
<1>. DEFINE N == Cardinality(S)
            below(n) == {m \in S : m < n}
            place == [n \in S |-> Cardinality(below(n)) + 1]
            list == [k \in 1..N |-> CHOOSE n \in S : Cardinality(below(n)) = k - 1]
<1>0. N \in Nat
  BY FS_CardinalityType
<1>1. ASSUME NEW n \in S
      PROVE  /\ IsFiniteSet(below(n)) /\ Cardinality(below(n)) \in Nat
             /\ Cardinality(below(n)) + 1 <= N
  <2>. DEFINE B == below(n)
  <2>1. n \notin B /\ B \cup {n} \subseteq S /\ B \subseteq S
    OBVIOUS
  <2>. HIDE DEF B
  <2>2. IsFiniteSet(B) /\ Cardinality(B) \in Nat
    BY <2>1, FS_Subset, FS_CardinalityType
  <2>3. Cardinality(B \cup {n}) = Cardinality(B) + 1
    BY <2>1, <2>2, FS_AddElement
  <2>4. Cardinality(B \cup {n}) <= N
    BY <2>1, FS_Subset
  <2>. QED BY <2>2, <2>3, <2>4 DEF B
<1>2. ASSUME NEW m \in S, NEW n \in S, m < n PROVE place[m] < place[n]
  <2>. DEFINE A == below(m)
              B == below(n)
  <2>1. m \notin A /\ A \cup {m} \subseteq B
    <3>0. m \in Nat /\ n \in Nat /\ \A x \in S : x \in Nat
      OBVIOUS
    <3>1. \A x \in S : x < m => x < n
      BY <1>2, <3>0
    <3>2. ~(m < m)
      BY <3>0
    <3>. QED BY <1>2, <3>1, <3>2
  <2>2. IsFiniteSet(A) /\ Cardinality(A) \in Nat /\ IsFiniteSet(B) /\ Cardinality(B) \in Nat
    BY <1>1
  <2>3. place[m] = Cardinality(A) + 1 /\ place[n] = Cardinality(B) + 1
    OBVIOUS
  <2>. HIDE DEF A, B, place
  <2>4. Cardinality(A \cup {m}) = Cardinality(A) + 1
    BY <2>1, <2>2, FS_AddElement
  <2>5. Cardinality(A \cup {m}) <= Cardinality(B)
    BY <2>1, <2>2, FS_Subset
  <2>. QED BY <2>2, <2>3, <2>4, <2>5
<1>3. place \in [S -> 1..N] /\ \A n \in S : place[n] = Cardinality(below(n)) + 1
  <2>1. \A n \in S : Cardinality(below(n)) + 1 \in 1..N
    BY <1>0, <1>1
  <2>. QED BY <2>1
<1>4. ASSUME NEW k \in 1..N PROVE \E n \in S : place[n] = k
  <2>. HIDE DEF place
  <2>0. \A m, n \in S : m < n \/ n < m \/ m = n
    OBVIOUS
  <2>1. \A m, n \in S : place[m] = place[n] => m = n
    <3>. SUFFICES ASSUME NEW m \in S, NEW n \in S, place[m] = place[n], m # n PROVE FALSE
      OBVIOUS
    <3>1. place[m] \in Nat /\ place[n] \in Nat
      BY <1>3
    <3>. QED BY <1>2, <2>0, <3>1
  <2>2. place \in Injection(S, 1..N)
    BY <1>3, <2>1 DEF Injection, IsInjective
  <2>3. IsFiniteSet(1..N) /\ Cardinality(1..N) = N
    BY <1>0, FS_Interval
  <2>4. place \in Surjection(S, 1..N)
    BY <2>2, <2>3, FS_Injection
  <2>. QED BY <2>4 DEF Surjection
<1>5. InOrder(S) = list
  BY DEF InOrder
<1>6. ASSUME NEW k \in 1..N PROVE list[k] \in S /\ place[list[k]] = k
  <2>1. PICK n \in S : place[n] = k
    BY <1>4
  <2>2. Cardinality(below(n)) = k - 1
    BY <1>1, <1>3, <2>1
  <2>3. list[k] \in S /\ Cardinality(below(list[k])) = k - 1
    <3>. HIDE DEF below
    <3>. QED BY <2>2
  <2>. HIDE DEF list
  <2>4. place[list[k]] = k - 1 + 1
    BY <1>3, <2>3
  <2>. QED BY <2>3, <2>4
<1>. HIDE DEF place
<1>7. list \in Seq(S) /\ Len(list) = N /\ DOMAIN list = 1..N
  <2>1. DOMAIN list = 1..N /\ \A k \in 1..N : list[k] \in S
    BY <1>6
  <2>2. list = [k \in 1..N |-> list[k]]
    <3>. DEFINE at(k) == CHOOSE n \in S : Cardinality(below(n)) = k - 1
    <3>1. list = [k \in 1..N |-> at(k)]
      OBVIOUS
    <3>. HIDE DEF at, list, N
    <3>. QED BY <3>1
  <2>. HIDE DEF N
  <2>. HIDE DEF list
  <2>. QED BY <1>0, <2>1, <2>2
<1>. HIDE DEF list
<1>8. Range(list) = S
  <2>1. ASSUME NEW n \in S PROVE n \in Range(list)
    <3>1. place[n] \in 1..N
      BY <1>3
    <3>2. list[place[n]] \in S /\ place[list[place[n]]] = place[n]
      BY <1>6, <3>1
    <3>3. list[place[n]] = n
      <4>1. \A m \in S : place[m] \in Nat
        BY <1>3
      <4>2. \A m, k \in S : place[m] = place[k] => m = k
        <5>. SUFFICES ASSUME NEW m \in S, NEW k \in S, place[m] = place[k], m # k PROVE FALSE
          OBVIOUS
        <5>1. m < k \/ k < m
          OBVIOUS
        <5>2. place[m] < place[k] \/ place[k] < place[m]
          BY <1>2, <5>1
        <5>. QED BY <4>1, <5>2
      <4>. QED BY <3>2, <4>2
    <3>. QED BY <1>7, <3>1, <3>3 DEF Range
  <2>. QED BY <1>6, <1>7, <2>1 DEF Range
<1>9. IsInjective(list)
  BY <1>6, <1>7 DEF IsInjective
<1>10. ASSUME NEW j \in 1..N, NEW k \in 1..N, j < k PROVE list[j] < list[k]
  <2>1. /\ list[j] \in S /\ list[k] \in S
        /\ place[list[j]] = j /\ place[list[k]] = k
    BY <1>6
  <2>2. ~(list[k] < list[j]) /\ list[j] # list[k]
    <3>1. list[k] < list[j] => place[list[k]] < place[list[j]]
      BY <1>2, <2>1
    <3>2. j \in Nat /\ k \in Nat /\ j # k /\ ~(k < j)
      BY <1>0, <1>10
    <3>. QED BY <2>1, <3>1, <3>2
  <2>3. list[j] \in Nat /\ list[k] \in Nat
    BY <2>1
  <2>. QED BY <2>2, <2>3
<1>. QED BY <1>0, <1>5, <1>7, <1>8, <1>9, <1>10

-----------------------------------------------------------------------------
(* Pages: trees whose root is the body.                                    *)
IsPage(doc) ==
  /\ doc \in Seq(Element) /\ Len(doc) >= 1 /\ doc[1].tag = "body"
  /\ \A n \in 2..Len(doc) : doc[n].up \in 1..(n - 1)

LEMMA AboveEquations ==
  ASSUME NEW doc, IsPage(doc)
  PROVE  /\ Above(doc, 1) = {}
         /\ \A n \in 2..Len(doc) : Above(doc, n) = {doc[n].up} \cup Above(doc, doc[n].up)
<1>. DEFINE L == Len(doc)
            V == [1..L -> SUBSET Nat]
            entry(h, m) == IF m = 1 THEN {} ELSE {doc[m].up} \cup h[doc[m].up]
            F == [c \in Nat \X V |-> IF c[1] + 1 \in 1..L
                                     THEN [c[2] EXCEPT ![c[1] + 1] = entry(c[2], c[1] + 1)] ELSE c[2]]
            base == [m \in 1..L |-> {}]
            above == CHOOSE above : above = [m \in DOMAIN doc |->
                       IF m = 1 THEN {} ELSE {doc[m].up} \cup above[doc[m].up]]
<1>0. L \in Nat /\ L >= 1 /\ DOMAIN doc = 1..L /\ \A n \in 2..L : doc[n].up \in 1..(n - 1)
  BY DEF IsPage
<1>1. \A n \in 1..L : n # 1 => n \in 2..L
  BY <1>0
<1>2. \A n \in 1..L : n # 1 => /\ doc[n].up \in 1..L /\ doc[n].up \in Nat
                               /\ doc[n].up < n /\ doc[n].up # n
  <2>. SUFFICES ASSUME NEW n \in 1..L, n # 1
                PROVE  doc[n].up \in 1..L /\ doc[n].up \in Nat /\ doc[n].up < n /\ doc[n].up # n
    OBVIOUS
  <2>1. doc[n].up \in 1..(n - 1)
    BY <1>0, <1>1
  <2>. HIDE DEF L
  <2>. QED BY <1>0, <2>1
<1>3. F \in [Nat \X V -> V]
  <2>1. ASSUME NEW c \in Nat \X V, c[1] + 1 \in 1..L
        PROVE  [c[2] EXCEPT ![c[1] + 1] = entry(c[2], c[1] + 1)] \in V
    <3>. DEFINE m == c[1] + 1
                h == c[2]
    <3>1. h \in V /\ m \in 1..L
      BY <2>1
    <3>2. m # 1 => doc[m].up \in 1..L /\ doc[m].up \in Nat
      BY <1>2, <3>1
    <3>. HIDE DEF m, h, L
    <3>3. entry(h, m) \in SUBSET Nat
      BY <3>1, <3>2
    <3>. HIDE DEF entry
    <3>4. [h EXCEPT ![m] = entry(h, m)] \in V
      BY <3>1, <3>3
    <3>. QED BY <3>4 DEF m, h
  <2>2. ASSUME NEW c \in Nat \X V PROVE c[2] \in V
    OBVIOUS
  <2>. HIDE DEF V, entry, L
  <2>. QED BY <2>1, <2>2
<1>4. ASSUME NEW n \in Nat, NEW h \in V, n + 1 \in 1..L
      PROVE  F[<<n, h>>] = [h EXCEPT ![n + 1] = entry(h, n + 1)]
  <2>. HIDE DEF V, entry, L
  <2>. QED BY <1>4
<1>5. base \in V
  OBVIOUS
<1>6. PICK g : IsTable(g, base, F, V, L)
  <2>1. base \in V /\ IsStep(F, V)
    BY <1>3, <1>5 DEF IsStep
  <2>. HIDE DEF F, L, V, base
  <2>. QED BY <1>0, <2>1, Table
<1>7. g \in [0..L -> V] /\ \A n \in 1..L : g[n] = F[<<n - 1, g[n - 1]>>]
  BY <1>6 DEF IsTable
<1>. HIDE DEF F, base
<1>8. \A n \in 0..L : \A m \in 1..n : g[n][m] = entry(g[n], m)
  <2>. DEFINE T == {n \in Nat : n \in 0..L => \A m \in 1..n : g[n][m] = entry(g[n], m)}
  <2>1. 0 \in T
    OBVIOUS
  <2>2. ASSUME NEW n \in Nat, n \in T PROVE n + 1 \in T
    <3>0. n + 1 \in Nat
      OBVIOUS
    <3>. SUFFICES ASSUME n + 1 \in 0..L PROVE \A m \in 1..(n + 1) : g[n + 1][m] = entry(g[n + 1], m)
      <4>. HIDE DEF entry, L
      <4>. QED BY <3>0
    <3>. SUFFICES ASSUME NEW m \in 1..(n + 1) PROVE g[n + 1][m] = entry(g[n + 1], m)
      OBVIOUS
    <3>1. n \in 0..L /\ n + 1 \in 1..L /\ n + 1 - 1 = n
      BY <1>0
    <3>2. g[n] \in V
      BY <1>7, <3>1
    <3>3. g[n + 1] = [g[n] EXCEPT ![n + 1] = entry(g[n], n + 1)]
      <4>. HIDE DEF V, entry, L
      <4>1. g[n + 1] = F[<<n, g[n]>>]
        BY <1>7, <3>1
      <4>. QED BY <1>4, <3>1, <3>2, <4>1
    <3>4. \A k \in 1..L : g[n + 1][k] = IF k = n + 1 THEN entry(g[n], n + 1) ELSE g[n][k]
      <4>. HIDE DEF entry, L
      <4>. QED BY <3>1, <3>2, <3>3
    <3>5. m \in 1..L
      BY <1>0, <3>1
    <3>6. entry(g[n + 1], m) = entry(g[n], m)
      <4>1. CASE m = 1
        BY <4>1
      <4>2. CASE m # 1
        <5>1. doc[m].up \in 1..L /\ doc[m].up # n + 1
          <6>1. doc[m].up \in 1..L /\ doc[m].up \in Nat /\ doc[m].up < m
            BY <1>2, <3>5, <4>2
          <6>. QED BY <6>1
        <5>2. g[n + 1][doc[m].up] = g[n][doc[m].up]
          <6>. HIDE DEF entry, L
          <6>. QED BY <3>4, <5>1
        <5>. QED BY <5>2
      <4>. QED BY <4>1, <4>2
    <3>7. CASE m = n + 1
      <4>. HIDE DEF entry, L
      <4>. QED BY <3>4, <3>5, <3>6, <3>7
    <3>8. CASE m # n + 1
      <4>1. m \in 1..n
        BY <3>8
      <4>2. g[n][m] = entry(g[n], m)
        BY <2>2, <3>1, <4>1
      <4>. HIDE DEF entry, L
      <4>. QED BY <3>4, <3>5, <3>6, <3>8, <4>2
    <3>. QED BY <3>7, <3>8
  <2>. HIDE DEF T
  <2>3. Nat \subseteq T
    BY <2>1, <2>2, SetInduction
  <2>4. \A n \in 0..L : n \in Nat
    BY <1>0
  <2>. HIDE DEF entry, L
  <2>. QED BY <2>3, <2>4 DEF T
<1>9. g[L] = [m \in 1..L |-> entry(g[L], m)]
  <2>1. L \in 0..L /\ g[L] \in V
    BY <1>0, <1>7
  <2>2. \A m \in 1..L : g[L][m] = entry(g[L], m)
    BY <1>8, <2>1
  <2>3. g[L] = [m \in 1..L |-> g[L][m]]
    BY <2>1
  <2>. HIDE DEF entry, L
  <2>. QED BY <2>2, <2>3
<1>10. above = [m \in 1..L |-> entry(above, m)]
  <2>1. above = CHOOSE h : h = [m \in 1..L |-> entry(h, m)]
    BY <1>0
  <2>. HIDE DEF entry, above, L
  <2>. QED BY <1>9, <2>1
<1>11. \A n : Above(doc, n) = above[n]
  BY DEF Above
<1>. HIDE DEF above
<1>12. \A m \in 1..L : above[m] = entry(above, m)
  <2>. HIDE DEF entry, L
  <2>. QED BY <1>10
<1>13. 1 \in 1..L /\ \A n \in 2..L : n \in 1..L /\ n # 1
  BY <1>0
<1>14. Above(doc, 1) = {}
  BY <1>11, <1>12, <1>13
<1>15. ASSUME NEW n \in 2..L PROVE Above(doc, n) = {doc[n].up} \cup Above(doc, doc[n].up)
  <2>. HIDE DEF L
  <2>. QED BY <1>11, <1>12, <1>13
<1>. QED BY <1>14, <1>15

(* Elements above another come before it, and the body is above all.       *)
LEMMA AboveFacts ==
  ASSUME NEW doc, IsPage(doc)
  PROVE  /\ \A n \in 1..Len(doc) : Above(doc, n) \subseteq 1..(n - 1)
         /\ \A n \in 2..Len(doc) : 1 \in Above(doc, n)
<1>. DEFINE L == Len(doc)
            T == {n \in Nat : \A m \in 1..L : m <= n =>
                    Above(doc, m) \subseteq 1..(m - 1) /\ (m # 1 => 1 \in Above(doc, m))}
<1>0. L \in Nat /\ L >= 1 /\ \A n \in 2..L : doc[n].up \in 1..(n - 1)
  BY DEF IsPage
<1>1. 0 \in T
  OBVIOUS
<1>2. ASSUME NEW n \in Nat, n \in T PROVE n + 1 \in T
  <2>. SUFFICES ASSUME NEW m \in 1..L, m <= n + 1
                PROVE  Above(doc, m) \subseteq 1..(m - 1) /\ (m # 1 => 1 \in Above(doc, m))
    OBVIOUS
  <2>1. CASE m = 1
    BY <2>1, AboveEquations
  <2>2. CASE m # 1
    <3>1. m \in 2..L
      BY <1>0, <2>2
    <3>2. doc[m].up \in 1..(m - 1)
      BY <1>0, <3>1
    <3>3. doc[m].up \in 1..L /\ doc[m].up <= n
      BY <1>0, <3>2
    <3>4. /\ Above(doc, doc[m].up) \subseteq 1..(doc[m].up - 1)
          /\ doc[m].up # 1 => 1 \in Above(doc, doc[m].up)
      BY <1>2, <3>3
    <3>5. Above(doc, m) = {doc[m].up} \cup Above(doc, doc[m].up)
      BY <3>1, AboveEquations
    <3>6. 1..(doc[m].up - 1) \subseteq 1..(m - 1)
      BY <3>2
    <3>. QED BY <3>2, <3>4, <3>5, <3>6
  <2>. QED BY <2>1, <2>2
<1>3. Nat \subseteq T
  <2>. HIDE DEF T
  <2>. QED BY <1>1, <1>2, SetInduction
<1>4. ASSUME NEW n \in 1..L
      PROVE  Above(doc, n) \subseteq 1..(n - 1) /\ (n # 1 => 1 \in Above(doc, n))
  <2>1. n \in Nat /\ n <= n
    BY <1>0
  <2>. QED BY <1>3, <2>1
<1>5. \A n \in 2..L : n \in 1..L /\ n # 1
  BY <1>0
<1>. QED BY <1>4, <1>5

-----------------------------------------------------------------------------
(* Lines of markdown, and lines put between them.                          *)
MdLines == [kind : Kinds, text : Texts \cup {NoText}]

LEMMA MarkdownIs == Markdown = Seq(MdLines)
BY DEF Markdown, MdLines

LEMMA LineTypes ==
  ASSUME NEW doc, IsPage(doc), NEW n \in DOMAIN doc
  PROVE  /\ doc[n].text \in Texts \cup {NoText} /\ doc[n].tag \in Kinds
         /\ \A kind \in Kinds : MdLine(kind, doc[n].text) \in MdLines
         /\ MdLine(doc[n].tag, doc[n].text) \in MdLines
         /\ \A kind : MdLine(kind, doc[n].text).kind = kind
         /\ \A kind : MdLine(kind, doc[n].text).text = doc[n].text
<1>1. doc[n] \in Element
  BY DEF IsPage
<1>2. doc[n].text \in Texts \cup {NoText} /\ doc[n].tag \in Kinds
  BY <1>1 DEF Element, Kinds
<1>. QED BY <1>2 DEF MdLine, MdLines

LEMMA ConcatFacts ==
  ASSUME NEW V, NEW s \in Seq(V), NEW t \in Seq(V)
  PROVE  /\ s \o t \in Seq(V) /\ Len(s \o t) = Len(s) + Len(t) /\ Len(s) \in Nat /\ Len(t) \in Nat
         /\ DOMAIN (s \o t) = 1..(Len(s) + Len(t))
         /\ \A k \in 1..Len(s) : (s \o t)[k] = s[k]
         /\ \A k \in (Len(s) + 1)..(Len(s) + Len(t)) : (s \o t)[k] = t[k - Len(s)]
OBVIOUS

(* What inserting e at i into s comes to, place by place.                  *)
Inserted(all, s, i, e) ==
  \A k \in 1..(Len(s) + 1) : all[k] = IF k < i THEN s[k] ELSE IF k = i THEN e ELSE s[k - 1]

LEMMA InsertFacts ==
  ASSUME NEW V, NEW s \in Seq(V), NEW e \in V, NEW i \in 1..Len(s)
  PROVE  /\ InsertAt(s, i, e) \in Seq(V) /\ Len(InsertAt(s, i, e)) = Len(s) + 1
         /\ DOMAIN InsertAt(s, i, e) = 1..(Len(s) + 1)
         /\ Inserted(InsertAt(s, i, e), s, i, e)
<1>. DEFINE a == SubSeq(s, 1, i - 1)
            b == SubSeq(s, i, Len(s))
            N == Len(s)
<1>0. N \in Nat /\ i \in Nat /\ i >= 1 /\ i <= N
  OBVIOUS
<1>1. a \in Seq(V) /\ Len(a) = i - 1 /\ \A k \in 1..(i - 1) : a[k] = s[k]
  BY <1>0
<1>2. b \in Seq(V) /\ Len(b) = N - i + 1 /\ \A k \in 1..(N - i + 1) : b[k] = s[k + i - 1]
  BY <1>0
<1>3. <<e>> \in Seq(V) /\ Len(<<e>>) = 1 /\ <<e>>[1] = e
  OBVIOUS
<1>4. InsertAt(s, i, e) = (a \o <<e>>) \o b
  BY DEF InsertAt
<1>. DEFINE c == a \o <<e>>
<1>. HIDE DEF a, b
<1>5. c \in Seq(V) /\ Len(c) = i /\ \A k \in 1..i : c[k] = IF k < i THEN s[k] ELSE e
  <2>1. c \in Seq(V) /\ Len(c) = i
    BY <1>0, <1>1, <1>3
  <2>2. ASSUME NEW k \in 1..i PROVE c[k] = IF k < i THEN s[k] ELSE e
    <3>1. CASE k < i
      BY <1>0, <1>1, <1>3, <3>1
    <3>2. CASE ~(k < i)
      <4>1. k = i /\ k - Len(a) = 1 /\ k \in (Len(a) + 1)..(Len(a) + Len(<<e>>))
        BY <1>0, <1>1, <1>3, <3>2
      <4>2. c[k] = <<e>>[k - Len(a)]
        BY <1>1, <1>3, <4>1, ConcatFacts
      <4>. QED BY <1>3, <3>2, <4>1, <4>2
    <3>. QED BY <3>1, <3>2
  <2>. QED BY <2>1, <2>2
<1>. HIDE DEF c
<1>6. InsertAt(s, i, e) = c \o b
  BY <1>4 DEF c
<1>7. /\ c \o b \in Seq(V) /\ Len(c \o b) = N + 1 /\ DOMAIN (c \o b) = 1..(N + 1)
      /\ \A k \in 1..i : (c \o b)[k] = c[k]
      /\ \A k \in (i + 1)..(N + 1) : (c \o b)[k] = b[k - i]
  <2>1. Len(c) + Len(b) = N + 1 /\ Len(c) = i
    BY <1>0, <1>2, <1>5
  <2>2. /\ c \o b \in Seq(V) /\ Len(c \o b) = Len(c) + Len(b)
        /\ DOMAIN (c \o b) = 1..(Len(c) + Len(b))
        /\ \A k \in 1..Len(c) : (c \o b)[k] = c[k]
        /\ \A k \in (Len(c) + 1)..(Len(c) + Len(b)) : (c \o b)[k] = b[k - Len(c)]
    <3>1. c \in Seq(V) /\ b \in Seq(V)
      BY <1>2, <1>5
    <3>. HIDE DEF a, b
    <3>. QED BY ONLY <3>1, ConcatFacts
  <2>. HIDE DEF N
  <2>. QED BY <2>1, <2>2
<1>8. ASSUME NEW k \in 1..(N + 1)
      PROVE  (c \o b)[k] = IF k < i THEN s[k] ELSE IF k = i THEN e ELSE s[k - 1]
  <2>1. CASE k <= i
    <3>1. k \in 1..i
      BY <1>0, <2>1
    <3>2. (c \o b)[k] = IF k < i THEN s[k] ELSE e
      BY <1>5, <1>7, <3>1
    <3>3. ~(k < i) => k = i
      BY <1>0, <2>1
    <3>. QED BY <3>2, <3>3
  <2>2. CASE ~(k <= i)
    <3>1. k \in (i + 1)..(N + 1) /\ k - i \in 1..(N - i + 1) /\ (k - i) + i - 1 = k - 1
      BY <1>0, <2>2
    <3>2. (c \o b)[k] = s[(k - i) + i - 1]
      BY <1>2, <1>7, <3>1
    <3>3. ~(k < i) /\ k # i
      BY <1>0, <2>2
    <3>. QED BY <3>1, <3>2, <3>3
  <2>. QED BY <2>1, <2>2
<1>. QED BY <1>6, <1>7, <1>8 DEF Inserted

-----------------------------------------------------------------------------
(* Headings over text of their own section.  Exempt are the headings that  *)
(* are not brought back, and those of what is noise by its tag.            *)
Origins(doc, line) == {h \in Tagged(doc, DOMAIN doc, {"h2"}) : doc[h].text = line.text}
Exempt(doc, plain, line) ==
  \/ line.kind # "h2" \/ line \in Range(plain)
  \/ \E h \in Origins(doc, line) : \E m \in Above(doc, h) : doc[m].tag \in StructuralNoise
OwnText(doc, line, text) ==
  /\ text # line.text
  /\ \E h \in Origins(doc, line) : \E n \in Within(doc, Section(doc, h)) : doc[n].text = text
Short(line) == line.kind \in {"h2", "eyebrow"} \/ IsOrphan(line)
Over(doc, md, k) ==
  \E j \in (k + 1)..Len(md) : /\ OwnText(doc, md[k], md[j].text)
                              /\ \A i \in (k + 1)..(j - 1) : Short(md[i])
Headed(doc, plain) ==
  {md \in Markdown : \A k \in 1..Len(md) : Exempt(doc, plain, md[k]) \/ Over(doc, md, k)}

LEMMA HeadedMeans == markdown \in Headed(document, converted) => HeadingOverOwnText
<1>. SUFFICES ASSUME markdown \in Headed(document, converted), NEW k \in DOMAIN markdown,
                     ~Exempt(document, converted, markdown[k])
              PROVE  \E h \in Origins(document, markdown[k]) : \E n \in Within(document, Section(document, h)),
                       j \in {j \in (k + 1)..Len(markdown) :
                                /\ \A i \in (k + 1)..(j - 1) :
                                     markdown[i].kind \in {"h2", "eyebrow"} \/ IsOrphan(markdown[i])
                                /\ markdown[j].text # markdown[k].text} :
                         document[n].text = markdown[j].text
  BY DEF HeadingOverOwnText, Exempt, Origins
<1>1. markdown \in Seq(MdLines)
  BY MarkdownIs DEF Headed
<1>2. k \in 1..Len(markdown)
  BY <1>1
<1>3. PICK j \in (k + 1)..Len(markdown) :
        /\ OwnText(document, markdown[k], markdown[j].text)
        /\ \A i \in (k + 1)..(j - 1) : Short(markdown[i])
  BY <1>2 DEF Headed, Over
<1>. QED BY <1>3 DEF OwnText, Short

(* What is brought back above everything, or below, leaves headings over   *)
(* what they are over.                                                     *)
LEMMA Above1 ==
  ASSUME NEW doc, NEW plain, NEW md \in Headed(doc, plain), NEW pre \in Markdown,
         \A k \in 1..Len(pre) : pre[k].kind # "h2"
  PROVE  pre \o md \in Headed(doc, plain)
<1>. DEFINE all == pre \o md
            P == Len(pre)
            N == Len(md)
<1>1. md \in Seq(MdLines) /\ pre \in Seq(MdLines)
  BY MarkdownIs DEF Headed
<1>2. /\ all \in Seq(MdLines) /\ Len(all) = P + N /\ P \in Nat /\ N \in Nat
      /\ \A k \in 1..P : all[k] = pre[k]
      /\ \A k \in (P + 1)..(P + N) : all[k] = md[k - P]
  BY <1>1, ConcatFacts
<1>. HIDE DEF all, P, N
<1>3. ASSUME NEW k \in 1..(P + N) PROVE Exempt(doc, plain, all[k]) \/ Over(doc, all, k)
  <2>1. CASE k <= P
    <3>1. k \in 1..P
      BY <1>2, <2>1
    <3>. QED BY <1>2, <3>1 DEF Exempt, P
  <2>2. CASE ~(k <= P) /\ ~Exempt(doc, plain, all[k])
    <3>1. k - P \in 1..N /\ k \in (P + 1)..(P + N)
      BY <1>2, <2>2
    <3>2. all[k] = md[k - P]
      BY <1>2, <3>1
    <3>3. Over(doc, md, k - P)
      BY <2>2, <3>1, <3>2 DEF Headed, N
    <3>4. PICK j \in (k - P + 1)..N : /\ OwnText(doc, md[k - P], md[j].text)
                                      /\ \A i \in (k - P + 1)..(j - 1) : Short(md[i])
      BY <3>3 DEF Over, N
    <3>5. PICK jj : jj = j + P
      OBVIOUS
    <3>6. /\ jj \in (k + 1)..(P + N) /\ jj \in (P + 1)..(P + N) /\ jj - P = j
          /\ \A i \in (k + 1)..(jj - 1) :
               i \in (P + 1)..(P + N) /\ i - P \in (k - P + 1)..(j - 1)
      BY <1>2, <3>1, <3>4, <3>5
    <3>7. all[jj] = md[j]
      BY <1>2, <3>6
    <3>8. \A i \in (k + 1)..(jj - 1) : Short(all[i])
      <4>. SUFFICES ASSUME NEW i \in (k + 1)..(jj - 1) PROVE Short(all[i])
        OBVIOUS
      <4>1. i \in (P + 1)..(P + N) /\ i - P \in (k - P + 1)..(j - 1)
        BY <3>6
      <4>2. all[i] = md[i - P]
        BY <1>2, <4>1
      <4>. QED BY <3>4, <4>1, <4>2
    <3>9. OwnText(doc, all[k], all[jj].text)
      BY <3>2, <3>4, <3>7
    <3>. QED BY <1>2, <3>6, <3>8, <3>9 DEF Over
  <2>. QED BY <2>1, <2>2
<1>4. all \in Markdown
  BY <1>2, MarkdownIs
<1>. QED BY <1>2, <1>3, <1>4 DEF Headed, all

LEMMA Below1 ==
  ASSUME NEW doc, NEW plain, NEW md \in Headed(doc, plain), NEW post \in Markdown,
         \A k \in 1..Len(post) : Exempt(doc, plain, post[k])
  PROVE  md \o post \in Headed(doc, plain)
<1>. DEFINE all == md \o post
            P == Len(post)
            N == Len(md)
<1>1. md \in Seq(MdLines) /\ post \in Seq(MdLines)
  BY MarkdownIs DEF Headed
<1>2. /\ all \in Seq(MdLines) /\ Len(all) = N + P /\ P \in Nat /\ N \in Nat
      /\ \A k \in 1..N : all[k] = md[k]
      /\ \A k \in (N + 1)..(N + P) : all[k] = post[k - N]
  BY <1>1, ConcatFacts
<1>. HIDE DEF all, P, N
<1>3. ASSUME NEW k \in 1..(N + P) PROVE Exempt(doc, plain, all[k]) \/ Over(doc, all, k)
  <2>1. CASE ~(k <= N)
    <3>1. k \in (N + 1)..(N + P) /\ k - N \in 1..P
      BY <1>2, <2>1
    <3>. QED BY <1>2, <3>1 DEF P
  <2>2. CASE k <= N /\ ~Exempt(doc, plain, all[k])
    <3>1. k \in 1..N
      BY <1>2, <2>2
    <3>2. all[k] = md[k]
      BY <1>2, <3>1
    <3>3. Over(doc, md, k)
      BY <2>2, <3>1, <3>2 DEF Headed, N
    <3>4. PICK j \in (k + 1)..N : /\ OwnText(doc, md[k], md[j].text)
                                  /\ \A i \in (k + 1)..(j - 1) : Short(md[i])
      BY <3>3 DEF Over, N
    <3>5. /\ j \in 1..N /\ j \in (k + 1)..(N + P)
          /\ \A i \in (k + 1)..(j - 1) : i \in 1..N
      BY <1>2, <3>1, <3>4
    <3>6. all[j] = md[j] /\ \A i \in (k + 1)..(j - 1) : all[i] = md[i]
      BY <1>2, <3>5
    <3>. QED BY <1>2, <3>2, <3>4, <3>5, <3>6 DEF Over
  <2>. QED BY <2>1, <2>2
<1>4. all \in Markdown
  BY <1>2, MarkdownIs
<1>. QED BY <1>2, <1>3, <1>4 DEF Headed, all

(* A heading or an eyebrow put between lines may come between a heading    *)
(* and its text, and does no harm there.                                   *)
LEMMA Between ==
  ASSUME NEW doc, NEW plain, NEW md \in Headed(doc, plain), NEW e \in MdLines,
         NEW p \in 1..Len(md), e.kind \in {"h2", "eyebrow"},
         Exempt(doc, plain, e) \/ Over(doc, InsertAt(md, p, e), p)
  PROVE  InsertAt(md, p, e) \in Headed(doc, plain)
<1>. DEFINE all == InsertAt(md, p, e)
            N == Len(md)
<1>1. md \in Seq(MdLines)
  BY MarkdownIs DEF Headed
<1>2. /\ all \in Seq(MdLines) /\ Len(all) = N + 1 /\ N \in Nat
      /\ \A k \in 1..(N + 1) : all[k] = IF k < p THEN md[k] ELSE IF k = p THEN e ELSE md[k - 1]
  <2>1. /\ InsertAt(md, p, e) \in Seq(MdLines) /\ Len(InsertAt(md, p, e)) = Len(md) + 1
        /\ Inserted(InsertAt(md, p, e), md, p, e)
    <3>. HIDE DEF all, N
    <3>. QED BY ONLY <1>1, e \in MdLines, p \in 1..Len(md), InsertFacts
  <2>2. Len(md) \in Nat
    BY <1>1
  <2>. QED BY <2>1, <2>2 DEF Inserted
<1>0. p \in 1..N
  OBVIOUS
<1>. HIDE DEF N, all
<1>3. ASSUME NEW k \in 1..(N + 1) PROVE Exempt(doc, plain, all[k]) \/ Over(doc, all, k)
  <2>1. CASE k = p
    BY <1>2, <2>1 DEF all
  <2>2. CASE k # p /\ ~Exempt(doc, plain, all[k])
    <3>0. ~(k < p) => p < k
      BY <1>0, <1>2, <2>2
    <3>. DEFINE was == IF k < p THEN k ELSE k - 1
    <3>1. was \in 1..N /\ all[k] = md[was] /\ was \in Nat
      BY <1>0, <1>2, <2>2
    <3>2. Over(doc, md, was)
      <4>. HIDE DEF was
      <4>. QED BY <2>2, <3>1 DEF Headed, N
    <3>3. PICK j \in (was + 1)..N : /\ OwnText(doc, md[was], md[j].text)
                                    /\ \A i \in (was + 1)..(j - 1) : Short(md[i])
      <4>. HIDE DEF was
      <4>. QED BY <3>2 DEF Over, N
    <3>. DEFINE is == IF j < p THEN j ELSE j + 1
    <3>4. is \in (k + 1)..(N + 1) /\ is \in 1..(N + 1) /\ all[is] = md[j]
      <4>1. j \in 1..N /\ is \in 1..(N + 1)
        BY <1>0, <1>2, <3>1, <3>3
      <4>2. is >= k + 1
        BY <1>0, <1>2, <2>2, <3>3, <4>1
      <4>3. CASE j < p
        BY <1>0, <1>2, <4>1, <4>2, <4>3
      <4>4. CASE ~(j < p)
        <5>1. is = j + 1 /\ ~(j + 1 < p) /\ j + 1 # p /\ j + 1 - 1 = j
          BY <1>0, <4>1, <4>4
        <5>. QED BY <1>2, <4>1, <4>2, <5>1
      <4>. QED BY <4>3, <4>4
    <3>5. ASSUME NEW i \in (k + 1)..(is - 1) PROVE Short(all[i])
      <4>0. i \in 1..(N + 1) /\ i \in Nat /\ j \in Nat /\ k \in Nat /\ p \in Nat
        BY <1>0, <1>2, <3>3, <3>4, <3>5
      <4>1. CASE i = p
        <5>1. all[i] = e
          BY <1>2, <4>0, <4>1
        <5>. QED BY <5>1 DEF Short
      <4>2. CASE i < p
        <5>1. all[i] = md[i]
          BY <1>2, <4>0, <4>2
        <5>2. i \in (was + 1)..(j - 1)
          BY <3>5, <4>0, <4>2
        <5>. QED BY <3>3, <5>1, <5>2
      <4>3. CASE p < i
        <5>0. ~(i < p) /\ i # p
          BY <4>0, <4>3
        <5>1. all[i] = md[i - 1]
          BY <1>2, <4>0, <5>0
        <5>2. i - 1 \in (was + 1)..(j - 1)
          BY <2>2, <3>5, <4>0, <4>3
        <5>. QED BY <3>3, <5>1, <5>2
      <4>. QED BY <4>0, <4>1, <4>2, <4>3
    <3>6. OwnText(doc, all[k], all[is].text)
      BY <3>1, <3>3, <3>4
    <3>. HIDE DEF is, was
    <3>. QED BY <1>2, <3>4, <3>5, <3>6 DEF Over
  <2>. QED BY <2>1, <2>2
<1>4. all \in Markdown
  BY <1>2, MarkdownIs
<1>. QED BY <1>2, <1>3, <1>4 DEF Headed, all

-----------------------------------------------------------------------------
(* The least and the greatest of some numbers, and places in a document.   *)
LEMMA MinFacts ==
  ASSUME NEW S \in SUBSET Nat, S # {}
  PROVE  Min(S) \in S /\ \A k \in S : Min(S) <= k
<1>1. PICK m \in S : \A k \in S : m <= k
  BY Least
<1>. QED BY <1>1 DEF Min

LEMMA MaxFacts ==
  ASSUME NEW n \in Nat, NEW S \in SUBSET (0..n), S # {}
  PROVE  Max(S) \in S /\ \A k \in S : Max(S) >= k
<1>. DEFINE T == {n - k : k \in S}
<1>1. T \in SUBSET Nat /\ T # {}
  <2>1. \A k \in S : k \in 0..n /\ n - k \in Nat
    OBVIOUS
  <2>. QED BY <2>1
<1>. HIDE DEF T
<1>2. PICK d \in T : \A k \in T : d <= k
  BY <1>1, Least
<1>3. PICK m \in S : d = n - m
  BY DEF T
<1>4. ASSUME NEW k \in S PROVE m >= k
  <2>1. n - k \in T
    BY DEF T
  <2>2. n - m <= n - k
    BY <1>2, <1>3, <2>1
  <2>3. m \in Nat /\ k \in Nat
    OBVIOUS
  <2>. QED BY <2>2, <2>3
<1>5. \E x \in S : \A y \in S : x >= y
  BY <1>4
<1>. QED BY <1>5 DEF Max

LEMMA WithinFacts ==
  ASSUME NEW doc, IsPage(doc), NEW n \in DOMAIN doc
  PROVE  /\ Within(doc, n) \subseteq DOMAIN doc /\ n \in Within(doc, n)
         /\ \A m \in Within(doc, n) : m = n \/ n \in Above(doc, m)
         /\ Above(doc, n) \subseteq DOMAIN doc /\ DOMAIN doc \subseteq Nat
         /\ IsFiniteSet(DOMAIN doc) /\ n \in 1..Len(doc)
<1>1. DOMAIN doc = 1..Len(doc) /\ Len(doc) \in Nat
  BY DEF IsPage
<1>2. IsFiniteSet(1..Len(doc))
  BY <1>1, FS_Interval
<1>3. Above(doc, n) \subseteq 1..(n - 1)
  BY <1>1, AboveFacts
<1>. QED BY <1>1, <1>2, <1>3 DEF Within

LEMMA OrderedPlaces ==
  ASSUME NEW doc, IsPage(doc), NEW S \in SUBSET DOMAIN doc
  PROVE  /\ InOrder(S) \in Seq(S) /\ Len(InOrder(S)) \in Nat
         /\ DOMAIN InOrder(S) = 1..Len(InOrder(S))
         /\ \A k \in DOMAIN InOrder(S) : InOrder(S)[k] \in S /\ InOrder(S)[k] \in DOMAIN doc
<1>1. DOMAIN doc \subseteq Nat /\ IsFiniteSet(DOMAIN doc)
  <2>1. DOMAIN doc = 1..Len(doc) /\ Len(doc) \in Nat
    BY DEF IsPage
  <2>. QED BY <2>1, FS_Interval
<1>2. S \in SUBSET Nat /\ IsFiniteSet(S)
  BY <1>1, FS_Subset
<1>3. InOrder(S) \in Seq(S)
  BY <1>2, InOrderFacts
<1>. QED BY <1>3

LEMMA PlaceFacts ==
  ASSUME NEW md \in Seq(MdLines), NEW text
  PROVE  /\ Place(md, text) \in 0..Len(md)
         /\ Place(md, text) # 0 => /\ Place(md, text) \in 1..Len(md)
                                   /\ md[Place(md, text)].text = text
                                   /\ md[Place(md, text)].kind # "img"
         /\ Place(md, text) = 0 => ~\E k \in 1..Len(md) : md[k].text = text /\ md[k].kind # "img"
<1>. DEFINE S == {k \in 1..Len(md) : md[k].text = text /\ md[k].kind # "img"}
<1>1. S \in SUBSET Nat /\ Place(md, text) = IF S # {} THEN Min(S) ELSE 0
  BY DEF Place, SelectInSeq
<1>2. S # {} => Min(S) \in S
  <2>. HIDE DEF S
  <2>. QED BY <1>1, MinFacts
<1>. QED BY <1>1, <1>2

-----------------------------------------------------------------------------
(* How often lines have a text, of the kinds that are brought back once.   *)
Unchecked == {"img", "a", "name", "js"}
CopiesAt(md, text) == {k \in 1..Len(md) : md[k].text = text /\ md[k].kind \notin Unchecked}
Copies(md, text) == Cardinality(CopiesAt(md, text))
GivenAt(doc, places, text) ==
  {n \in places : doc[n].text = text /\ doc[n].tag \notin Unchecked \cup {"json"}}
Spared(doc, md, text) ==
  Copies(md, text) <= 1 \/ Copies(md, text) <= Cardinality(GivenAt(doc, DOMAIN doc, text))
(* What holds of the lines after every pass.                               *)
Sound(doc, plain) == {md \in Headed(doc, plain) : \A text \in Texts \cup {NoText} : Spared(doc, md, text)}

LEMMA CopiesType ==
  ASSUME NEW md \in Seq(MdLines), NEW text
  PROVE  Copies(md, text) \in Nat /\ IsFiniteSet(CopiesAt(md, text))
<1>1. Len(md) \in Nat
  OBVIOUS
<1>2. IsFiniteSet(1..Len(md))
  BY <1>1, FS_Interval
<1>3. CopiesAt(md, text) \subseteq 1..Len(md)
  BY DEF CopiesAt
<1>. QED BY <1>2, <1>3, FS_Subset, FS_CardinalityType DEF Copies

LEMMA CopiesOfBoth ==
  ASSUME NEW s \in Seq(MdLines), NEW t \in Seq(MdLines), NEW text
  PROVE  Copies(s \o t, text) = Copies(s, text) + Copies(t, text)
<1>. DEFINE A == CopiesAt(s, text)
            B == CopiesAt(t, text)
            all == s \o t
            N == Len(s)
            C == {k \in (N + 1)..(N + Len(t)) : all[k].text = text /\ all[k].kind \notin Unchecked}
            f == [k \in C |-> k - N]
<1>1. /\ all \in Seq(MdLines) /\ Len(all) = N + Len(t) /\ N \in Nat /\ Len(t) \in Nat
      /\ \A k \in 1..N : all[k] = s[k]
      /\ \A k \in (N + 1)..(N + Len(t)) : all[k] = t[k - N]
  BY ConcatFacts
<1>2. IsFiniteSet(A) /\ IsFiniteSet(B) /\ Cardinality(A) \in Nat /\ Cardinality(B) \in Nat
  BY CopiesType DEF Copies
<1>. HIDE DEF all, N
<1>3. CopiesAt(all, text) = A \cup C /\ A \cap C = {}
  <2>1. ASSUME NEW k \in 1..(N + Len(t)), ~(k <= N) PROVE k \in (N + 1)..(N + Len(t))
    BY <1>1, <2>1
  <2>2. \A k \in 1..(N + Len(t)) : k <= N => k \in 1..N
    BY <1>1
  <2>3. \A k \in 1..N : k \in 1..(N + Len(t)) /\ k \notin (N + 1)..(N + Len(t))
    BY <1>1
  <2>4. \A k \in (N + 1)..(N + Len(t)) : k \in 1..(N + Len(t))
    BY <1>1
  <2>5. A = {k \in 1..N : all[k].text = text /\ all[k].kind \notin Unchecked}
    BY <1>1 DEF CopiesAt, N
  <2>6. CopiesAt(all, text) = {k \in 1..(N + Len(t)) : all[k].text = text /\ all[k].kind \notin Unchecked}
    BY <1>1 DEF CopiesAt
  <2>. HIDE DEF A
  <2>. QED BY <2>1, <2>2, <2>3, <2>4, <2>5, <2>6
<1>4. f \in Bijection(C, B)
  <2>1. ASSUME NEW k \in C PROVE k - N \in B
    <3>1. k - N \in 1..Len(t) /\ all[k] = t[k - N]
      BY <1>1
    <3>. QED BY <3>1 DEF CopiesAt
  <2>2. ASSUME NEW j \in B PROVE \E k \in C : k - N = j
    <3>1. PICK k : k = j + N
      OBVIOUS
    <3>2. j \in 1..Len(t) /\ t[j].text = text /\ t[j].kind \notin Unchecked
      BY DEF CopiesAt
    <3>3. k \in (N + 1)..(N + Len(t)) /\ k - N = j
      BY <1>1, <3>1, <3>2
    <3>4. all[k] = t[j]
      BY <1>1, <3>3
    <3>. QED BY <3>2, <3>3, <3>4
  <2>3. \A j, k \in C : j - N = k - N => j = k
    BY <1>1
  <2>. HIDE DEF B, C
  <2>4. f \in [C -> B] /\ \A k \in C : f[k] = k - N
    BY <2>1
  <2>5. f \in Injection(C, B)
    BY <2>3, <2>4 DEF Injection, IsInjective
  <2>6. f \in Surjection(C, B)
    BY <2>2, <2>4 DEF Surjection
  <2>. QED BY <2>5, <2>6 DEF Bijection
<1>. HIDE DEF A, B, C, f
<1>5. IsFiniteSet(C) /\ Cardinality(C) = Cardinality(B)
  <2>1. f \in Injection(C, B) /\ f \in Surjection(C, B)
    BY <1>4 DEF Bijection
  <2>. QED BY <1>2, <2>1, FS_Injection
<1>6. Cardinality(A \cup C) = Cardinality(A) + Cardinality(C)
  <2>1. Cardinality({}) = 0
    BY FS_EmptySet
  <2>2. Cardinality(A \cup C) = Cardinality(A) + Cardinality(C) - 0
    BY <1>2, <1>3, <1>5, <2>1, FS_Union
  <2>. QED BY <1>2, <1>5, <2>2
<1>. QED BY <1>3, <1>5, <1>6 DEF Copies, A, B, all

LEMMA CopiesOfOne ==
  ASSUME NEW e \in MdLines, NEW text
  PROVE  /\ Copies(<<e>>, text) \in {0, 1}
         /\ e.text # text \/ e.kind \in Unchecked => Copies(<<e>>, text) = 0
<1>1. <<e>> \in Seq(MdLines) /\ Len(<<e>>) = 1 /\ <<e>>[1] = e
  OBVIOUS
<1>2. CopiesAt(<<e>>, text) = IF e.text = text /\ e.kind \notin Unchecked THEN {1} ELSE {}
  BY <1>1 DEF CopiesAt
<1>3. Cardinality({1}) = 1 /\ Cardinality({}) = 0
  BY FS_Singleton, FS_EmptySet
<1>. QED BY <1>2, <1>3 DEF Copies

LEMMA CopiesOfNone ==
  ASSUME NEW md \in Seq(MdLines), NEW text
  PROVE  /\ ~Shows(md, text) => Copies(md, text) = 0
         /\ Place(md, text) = 0 => Copies(md, text) = 0
         /\ (\A k \in 1..Len(md) : md[k].kind \in Unchecked) => Copies(md, text) = 0
<1>1. Cardinality({}) = 0
  BY FS_EmptySet
<1>2. DOMAIN md = 1..Len(md)
  OBVIOUS
<1>3. ~Shows(md, text) => CopiesAt(md, text) = {}
  BY <1>2 DEF Shows, CopiesAt
<1>4. (\A k \in 1..Len(md) : md[k].kind \in Unchecked) => CopiesAt(md, text) = {}
  BY DEF CopiesAt
<1>5. Place(md, text) = 0 => CopiesAt(md, text) = {}
  <2>1. Place(md, text) = 0 => \A k \in 1..Len(md) : ~(md[k].text = text /\ md[k].kind # "img")
    BY PlaceFacts
  <2>. QED BY <2>1 DEF CopiesAt, Unchecked
<1>. QED BY <1>1, <1>3, <1>4, <1>5 DEF Copies

LEMMA CopiesInserted ==
  ASSUME NEW md \in Seq(MdLines), NEW e \in MdLines, NEW p \in 1..Len(md), NEW text
  PROVE  Copies(InsertAt(md, p, e), text) = Copies(md, text) + Copies(<<e>>, text)
<1>. DEFINE a == SubSeq(md, 1, p - 1)
            b == SubSeq(md, p, Len(md))
<1>0. p \in Nat /\ p >= 1 /\ p <= Len(md) /\ Len(md) \in Nat
  OBVIOUS
<1>1. a \in Seq(MdLines) /\ b \in Seq(MdLines) /\ <<e>> \in Seq(MdLines)
  BY <1>0
<1>2. InsertAt(md, p, e) = (a \o <<e>>) \o b
  BY DEF InsertAt
<1>3. md = a \o b
  <2>1. /\ 1 \in 1..(Len(md) + 1) /\ p - 1 \in (1 - 1)..Len(md) /\ Len(md) \in (p - 1)..Len(md)
        /\ p - 1 + 1 = p
    BY <1>0
  <2>2. SubSeq(md, 1, p - 1) \o SubSeq(md, p - 1 + 1, Len(md)) = SubSeq(md, 1, Len(md))
    BY <2>1, ConcatAdjacentSubSeq
  <2>3. SubSeq(md, 1, Len(md)) = md
    BY SubSeqFull
  <2>. QED BY <2>1, <2>2, <2>3
<1>. HIDE DEF a, b
<1>4. a \o <<e>> \in Seq(MdLines)
  BY <1>1
<1>5. Copies((a \o <<e>>) \o b, text) = Copies(a, text) + Copies(<<e>>, text) + Copies(b, text)
  <2>. DEFINE one == <<e>>
              ab == a \o one
  <2>0. one \in Seq(MdLines) /\ ab \in Seq(MdLines)
    BY <1>1, <1>4
  <2>. HIDE DEF one
  <2>1. Copies(a \o one, text) = Copies(a, text) + Copies(one, text)
    BY ONLY <1>1, <2>0, CopiesOfBoth
  <2>. HIDE DEF ab
  <2>2. Copies(ab \o b, text) = Copies(ab, text) + Copies(b, text)
    BY ONLY <1>1, <2>0, CopiesOfBoth
  <2>. QED BY <2>1, <2>2 DEF ab, one
<1>6. Copies(md, text) = Copies(a, text) + Copies(b, text)
  BY <1>1, <1>3, CopiesOfBoth
<1>7. Copies(a, text) \in Nat /\ Copies(b, text) \in Nat /\ Copies(<<e>>, text) \in Nat
  BY <1>1, CopiesType
<1>. QED BY <1>2, <1>5, <1>6, <1>7

(* One more line, of a text no line had.                                   *)
LEMMA OneMore ==
  ASSUME NEW doc, NEW md \in Seq(MdLines), NEW e \in MdLines, NEW more,
         \A text \in Texts \cup {NoText} : Spared(doc, md, text),
         e.kind \in Unchecked \/ Copies(md, e.text) = 0,
         \A text : Copies(more, text) = Copies(md, text) + Copies(<<e>>, text)
  PROVE  \A text \in Texts \cup {NoText} : Spared(doc, more, text)
<1>. SUFFICES ASSUME NEW text \in Texts \cup {NoText} PROVE Spared(doc, more, text)
  OBVIOUS
<1>1. Copies(more, text) = Copies(md, text) + Copies(<<e>>, text)
  OBVIOUS
<1>2. Copies(md, text) \in Nat
  BY CopiesType
<1>3. CASE e.text # text \/ e.kind \in Unchecked
  <2>1. Copies(<<e>>, text) = 0
    BY <1>3, CopiesOfOne
  <2>2. Copies(more, text) = Copies(md, text)
    BY <1>1, <1>2, <2>1
  <2>3. Spared(doc, md, text)
    OBVIOUS
  <2>. QED BY <2>2, <2>3 DEF Spared
<1>4. CASE ~(e.text # text \/ e.kind \in Unchecked)
  <2>1. Copies(md, text) = 0 /\ Copies(<<e>>, text) \in {0, 1}
    BY <1>4, CopiesOfOne
  <2>2. Copies(more, text) <= 1
    BY <1>1, <2>1
  <2>. QED BY <2>2 DEF Spared
<1>. QED BY <1>3, <1>4

-----------------------------------------------------------------------------
(* One line above all, one line between, one line below.                   *)
LEMMA LineAbove ==
  ASSUME NEW doc, NEW plain, NEW md \in Sound(doc, plain), NEW line \in MdLines,
         line.kind # "h2", ~Shows(md, line.text)
  PROVE  <<line>> \o md \in Sound(doc, plain)
<1>1. md \in Headed(doc, plain) /\ md \in Seq(MdLines)
  BY MarkdownIs DEF Sound, Headed
<1>2. <<line>> \in Markdown /\ \A k \in 1..Len(<<line>>) : <<line>>[k] = line
  BY MarkdownIs
<1>3. <<line>> \o md \in Headed(doc, plain)
  BY <1>1, <1>2, Above1
<1>4. Copies(md, line.text) = 0
  BY <1>1, CopiesOfNone
<1>5. \A text : Copies(<<line>> \o md, text) = Copies(md, text) + Copies(<<line>>, text)
  <2>. SUFFICES ASSUME NEW text PROVE Copies(<<line>> \o md, text) = Copies(md, text) + Copies(<<line>>, text)
    OBVIOUS
  <2>1. <<line>> \in Seq(MdLines)
    OBVIOUS
  <2>2. Copies(<<line>> \o md, text) = Copies(<<line>>, text) + Copies(md, text)
    BY <1>1, <2>1, CopiesOfBoth
  <2>3. Copies(<<line>>, text) \in Nat /\ Copies(md, text) \in Nat
    BY <1>1, <2>1, CopiesType
  <2>. QED BY <2>2, <2>3
<1>6. \A text \in Texts \cup {NoText} : Spared(doc, md, text)
  BY DEF Sound
<1>7. \A text \in Texts \cup {NoText} : Spared(doc, <<line>> \o md, text)
  BY <1>1, <1>4, <1>5, <1>6, OneMore
<1>. QED BY <1>3, <1>7 DEF Sound

LEMMA LineBelow ==
  ASSUME NEW doc, NEW plain, NEW md \in Sound(doc, plain), NEW line \in MdLines,
         Exempt(doc, plain, line), ~Shows(md, line.text)
  PROVE  Append(md, line) \in Sound(doc, plain)
<1>1. md \in Headed(doc, plain) /\ md \in Seq(MdLines) /\ <<line>> \in Seq(MdLines)
  BY MarkdownIs DEF Sound, Headed
<1>2. <<line>> \in Markdown /\ \A k \in 1..Len(<<line>>) : <<line>>[k] = line
  BY MarkdownIs
<1>3. md \o <<line>> \in Headed(doc, plain)
  BY <1>1, <1>2, Below1
<1>4. Append(md, line) = md \o <<line>>
  BY <1>1
<1>5. Copies(md, line.text) = 0
  BY <1>1, CopiesOfNone
<1>6. \A text : Copies(md \o <<line>>, text) = Copies(md, text) + Copies(<<line>>, text)
  BY <1>1, CopiesOfBoth
<1>7. \A text \in Texts \cup {NoText} : Spared(doc, md, text)
  BY DEF Sound
<1>8. \A text \in Texts \cup {NoText} : Spared(doc, md \o <<line>>, text)
  BY <1>1, <1>5, <1>6, <1>7, OneMore
<1>. QED BY <1>3, <1>4, <1>8 DEF Sound

LEMMA LineBetween ==
  ASSUME NEW doc, NEW plain, NEW md \in Sound(doc, plain), NEW e \in MdLines,
         NEW p \in 1..Len(md), e.kind \in {"h2", "eyebrow"},
         ~Shows(md, e.text) \/ Place(md, e.text) = 0,
         Exempt(doc, plain, e) \/ Over(doc, InsertAt(md, p, e), p)
  PROVE  InsertAt(md, p, e) \in Sound(doc, plain)
<1>1. md \in Headed(doc, plain) /\ md \in Seq(MdLines)
  BY MarkdownIs DEF Sound, Headed
<1>2. InsertAt(md, p, e) \in Headed(doc, plain)
  BY <1>1, Between
<1>3. Copies(md, e.text) = 0
  BY <1>1, CopiesOfNone
<1>4. \A text : Copies(InsertAt(md, p, e), text) = Copies(md, text) + Copies(<<e>>, text)
  BY <1>1, CopiesInserted
<1>5. \A text \in Texts \cup {NoText} : Spared(doc, md, text)
  BY DEF Sound
<1>6. \A text \in Texts \cup {NoText} : Spared(doc, InsertAt(md, p, e), text)
  BY <1>1, <1>3, <1>4, <1>5, OneMore
<1>. QED BY <1>2, <1>6 DEF Sound

-----------------------------------------------------------------------------
(* Each pass leaves headings over text of their own.                       *)
LEMMA TitleIs ==
  ASSUME NEW doc, IsPage(doc)
  PROVE  /\ Title(doc) \in Texts \cup {NoText}
         /\ Title(doc) # NoText => Tagged(doc, DOMAIN doc, {"h1"}) # {}
<1>. DEFINE headings == {n \in Tagged(doc, DOMAIN doc, {"h1"}) :
                            /\ ~IsNoise(doc, DOMAIN doc, n)
                            /\ \A m \in Above(doc, n) : doc[m].mark # "dialog"}
<1>1. headings \subseteq Tagged(doc, DOMAIN doc, {"h1"}) /\ headings \subseteq DOMAIN doc
  BY DEF Tagged
<1>2. Title(doc) = IF headings = {} THEN NoText ELSE doc[Min(headings)].text
  BY DEF Title
<1>. HIDE DEF headings
<1>3. headings # {} => doc[Min(headings)].text \in Texts \cup {NoText}
  <2>1. DOMAIN doc \subseteq Nat
    BY DEF IsPage
  <2>2. headings # {} => Min(headings) \in headings
    BY <1>1, <2>1, MinFacts
  <2>. QED BY <1>1, <2>2, LineTypes
<1>. QED BY <1>1, <1>2, <1>3

LEMMA HeroLines ==
  ASSUME NEW doc, IsPage(doc), NEW md, Tagged(doc, DOMAIN doc, {"h1"}) # {}
  PROVE  \/ Hero(doc, md) = <<>>
         \/ \E line \in MdLines : Hero(doc, md) = <<line>> /\ line.kind = "p" /\ ~Shows(md, line.text)
<1>. DEFINE heading == Min(Tagged(doc, DOMAIN doc, {"h1"}))
            around == Reverse(InOrder(Above(doc, heading)))
            fits(n) == {m \in Tagged(doc, Within(doc, n), {"p"}) :
                          Length(doc[m].text) \in 40..300 /\ ~Shows(md, doc[m].text)}
            near == SubSeq(around, 1, Min({HeroLevels, Len(around)}))
            levels == {k \in 1..Len(near) : fits(near[k]) # {}}
            level == IF levels # {} THEN Min(levels) ELSE 0
            line == MdLine("p", doc[Min(fits(around[level]))].text)
<1>1. Hero(doc, md) = IF level = 0 THEN <<>> ELSE <<line>>
  BY DEF Hero, SelectInSeq
<1>2. heading \in DOMAIN doc
  <2>1. Tagged(doc, DOMAIN doc, {"h1"}) \subseteq DOMAIN doc
    BY DEF Tagged
  <2>2. DOMAIN doc \subseteq Nat
    BY DEF IsPage
  <2>. QED BY <2>1, <2>2, MinFacts
<1>. HIDE DEF heading
<1>3. Above(doc, heading) \subseteq DOMAIN doc
  BY <1>2, WithinFacts
<1>4. around \in Seq(DOMAIN doc) /\ Len(around) \in Nat
  <2>. DEFINE inner == InOrder(Above(doc, heading))
  <2>1. inner \in Seq(DOMAIN doc)
    BY <1>3, OrderedPlaces
  <2>. HIDE DEF inner
  <2>2. Reverse(inner) \in Seq(DOMAIN doc)
    BY <2>1 DEF Reverse
  <2>. QED BY <2>2 DEF inner
<1>. HIDE DEF around
<1>5. near \in Seq(DOMAIN doc) /\ Len(near) <= Len(around) /\ \A k \in 1..Len(near) : near[k] = around[k]
  <2>. DEFINE some == {HeroLevels, Len(around)}
  <2>1. some \in SUBSET Nat /\ some # {} /\ Len(around) \in some
    BY <1>4 DEF HeroLevels
  <2>2. Min(some) \in some /\ Min(some) <= Len(around)
    BY <2>1, MinFacts
  <2>3. PICK m \in Nat : m = Min(some) /\ m <= Len(around)
    BY <2>1, <2>2
  <2>. HIDE DEF some
  <2>4. SubSeq(around, 1, m) \in Seq(DOMAIN doc) /\ Len(SubSeq(around, 1, m)) = m
        /\ \A k \in 1..m : SubSeq(around, 1, m)[k] = around[k]
    BY <1>4, <2>3
  <2>5. near = SubSeq(around, 1, m)
    BY <2>3 DEF some
  <2>. QED BY <2>3, <2>4, <2>5
<1>. HIDE DEF near
<1>6. ASSUME level # 0 PROVE line \in MdLines /\ line.kind = "p" /\ ~Shows(md, line.text)
  <2>0. levels \in SUBSET Nat
    OBVIOUS
  <2>1. levels # {} /\ levels \in SUBSET Nat
    <3>. HIDE DEF levels
    <3>. QED BY <1>6, <2>0
  <2>2. level \in levels
    <3>. HIDE DEF levels
    <3>. QED BY <2>1, MinFacts
  <2>. HIDE DEF level
  <2>3. around[level] \in DOMAIN doc /\ fits(around[level]) # {}
    BY <1>4, <1>5, <2>2
  <2>4. fits(around[level]) \subseteq DOMAIN doc
    BY <2>3, WithinFacts DEF Tagged
  <2>5. DOMAIN doc \subseteq Nat
    BY DEF IsPage
  <2>. DEFINE n == Min(fits(around[level]))
  <2>6. n \in fits(around[level]) /\ n \in DOMAIN doc
    <3>. HIDE DEF fits
    <3>. QED BY <2>3, <2>4, <2>5, MinFacts
  <2>7. line = MdLine("p", doc[n].text)
    OBVIOUS
  <2>. HIDE DEF n, line
  <2>8. "p" \in Kinds /\ doc[n].text \in Texts \cup {NoText} /\ ~Shows(md, doc[n].text)
    BY <2>6, LineTypes DEF Kinds, Leaves
  <2>. QED BY <2>7, <2>8 DEF MdLine, MdLines
<1>. HIDE DEF line, level
<1>. QED BY <1>1, <1>6

LEMMA TitleKeeps ==
  ASSUME NEW doc, IsPage(doc), NEW plain, NEW md \in Sound(doc, plain), NEW title \in {NoText, Title(doc)}
  PROVE  RecoverTitle(doc, md, title) \in Sound(doc, plain)
<1>. DEFINE h1 == MdLine("h1", title)
            headed == <<h1>> \o md
            hero == Hero(doc, headed)
<1>0. md \in Seq(MdLines)
  BY MarkdownIs DEF Sound, Headed
<1>1. CASE title = NoText \/ Shows(md, title)
  BY <1>1 DEF RecoverTitle
<1>2. CASE ~(title = NoText \/ Shows(md, title))
  <2>1. RecoverTitle(doc, md, title) = (<<h1>> \o hero) \o md
    BY <1>2 DEF RecoverTitle
  <2>2. title \in Texts \cup {NoText} /\ Tagged(doc, DOMAIN doc, {"h1"}) # {}
    BY <1>2, TitleIs
  <2>3. h1 \in MdLines /\ h1.kind = "h1" /\ h1.text = title
    BY <2>2 DEF MdLine, MdLines, Kinds, Leaves
  <2>4. \/ hero = <<>>
        \/ \E line \in MdLines : hero = <<line>> /\ line.kind = "p" /\ ~Shows(headed, line.text)
    BY <2>2, HeroLines
  <2>. HIDE DEF h1
  <2>5. /\ <<h1>> \in Seq(MdLines) /\ Len(<<h1>>) = 1 /\ <<h1>>[1] = h1
        /\ DOMAIN headed = 1..(1 + Len(md)) /\ Len(md) \in Nat /\ DOMAIN md = 1..Len(md)
        /\ \A k \in 1..1 : headed[k] = <<h1>>[k]
        /\ \A k \in 2..(1 + Len(md)) : headed[k] = md[k - 1]
    <3>1. <<h1>> \in Seq(MdLines) /\ Len(<<h1>>) = 1 /\ <<h1>>[1] = h1
      BY <2>3
    <3>. QED BY <1>0, <3>1, ConcatFacts
  <2>6. headed \in Sound(doc, plain)
    BY <1>2, <2>3, LineAbove
  <2>. HIDE DEF hero
  <2>7. CASE hero = <<>>
    <3>1. <<h1>> \o hero = <<h1>>
      BY <2>5, <2>7, ConcatEmptySeq
    <3>. QED BY <2>1, <2>6, <3>1
  <2>8. ASSUME NEW line \in MdLines, hero = <<line>>, line.kind = "p", ~Shows(headed, line.text)
        PROVE  RecoverTitle(doc, md, title) \in Sound(doc, plain)
    <3>1. line.text # title
      <4>1. 1 \in DOMAIN headed /\ headed[1] = h1
        BY <2>5
      <4>. QED BY <2>3, <2>8, <4>1 DEF Shows
    <3>2. ~Shows(md, line.text)
      <4>. SUFFICES ASSUME NEW k \in DOMAIN md, md[k].text = line.text PROVE FALSE
        BY DEF Shows
      <4>1. PICK j : j = k + 1
        OBVIOUS
      <4>2. j \in DOMAIN headed /\ j \in 2..(1 + Len(md)) /\ j - 1 = k
        BY <2>5, <4>1
      <4>3. headed[j].text = line.text
        BY <2>5, <4>2
      <4>. QED BY <2>8, <4>2, <4>3 DEF Shows
    <3>3. <<line>> \o md \in Sound(doc, plain)
      BY <2>8, <3>2, LineAbove
    <3>4. ~Shows(<<line>> \o md, title)
      <4>. DEFINE two == <<line>> \o md
      <4>1. <<line>> \in Seq(MdLines) /\ Len(<<line>>) = 1 /\ <<line>>[1] = line
        OBVIOUS
      <4>2. /\ DOMAIN two = 1..(1 + Len(md)) /\ \A k \in 1..1 : two[k] = <<line>>[k]
            /\ \A k \in 2..(1 + Len(md)) : two[k] = md[k - 1]
        BY <1>0, <4>1, ConcatFacts
      <4>. HIDE DEF two
      <4>. SUFFICES ASSUME NEW k \in DOMAIN two, two[k].text = title PROVE FALSE
        BY DEF Shows, two
      <4>3. CASE k = 1
        BY <3>1, <4>1, <4>2, <4>3
      <4>4. CASE k # 1
        <5>1. k \in 2..(1 + Len(md)) /\ k - 1 \in DOMAIN md
          BY <2>5, <4>2, <4>4
        <5>. QED BY <1>2, <4>2, <5>1 DEF Shows
      <4>. QED BY <4>3, <4>4
    <3>5. <<h1>> \o (<<line>> \o md) \in Sound(doc, plain)
      BY <2>3, <3>3, <3>4, LineAbove
    <3>6. (<<h1>> \o <<line>>) \o md = <<h1>> \o (<<line>> \o md)
      <4>1. <<line>> \in Seq(MdLines)
        OBVIOUS
      <4>. QED BY <1>0, <2>5, <4>1, ConcatAssociative
    <3>. QED BY <2>1, <2>8, <3>5, <3>6
  <2>. QED BY <2>4, <2>7, <2>8
<1>. QED BY <1>1, <1>2

LEMMA AnnouncementsKeep ==
  ASSUME NEW doc, IsPage(doc), NEW plain, NEW md \in Sound(doc, plain)
  PROVE  RecoverAnnouncements(doc, md) \in Sound(doc, plain)
<1>. DEFINE banner(n) == MdLine("banner", doc[n].text)
            put(lines, n) == IF Shows(lines, doc[n].text) THEN lines ELSE <<banner(n)>> \o lines
            places == InOrder({n \in DOMAIN doc : doc[n].mark = "announcement"})
            steps == [k \in DOMAIN places |-> [lines \in Markdown |-> put(lines, places[k])]]
<1>1. RecoverAnnouncements(doc, md) = Through(steps, md)
  BY DEF RecoverAnnouncements, Each
<1>2. Len(places) \in Nat /\ DOMAIN places = 1..Len(places) /\ \A k \in 1..Len(places) : places[k] \in DOMAIN doc
  BY OrderedPlaces
<1>. HIDE DEF places
<1>3. Len(steps) = Len(places)
  BY <1>2
<1>4. ASSUME NEW k \in 1..Len(places), NEW lines \in Sound(doc, plain)
      PROVE  steps[k][lines] \in Sound(doc, plain)
  <2>1. lines \in Markdown
    BY DEF Sound, Headed
  <2>2. steps[k][lines] = put(lines, places[k])
    <3>. HIDE DEF put
    <3>. QED BY <1>2, <2>1
  <2>. DEFINE line == banner(places[k])
  <2>3. line \in MdLines /\ line.kind = "banner" /\ line.text = doc[places[k]].text
    <3>1. "banner" \in Kinds /\ doc[places[k]].text \in Texts \cup {NoText}
      BY <1>2, LineTypes DEF Kinds
    <3>. QED BY <3>1 DEF MdLine, MdLines
  <2>4. put(lines, places[k]) = IF Shows(lines, doc[places[k]].text) THEN lines ELSE <<line>> \o lines
    OBVIOUS
  <2>. HIDE DEF put, line
  <2>. QED BY <2>2, <2>3, <2>4, LineAbove
<1>. HIDE DEF steps
<1>5. Through(steps, md) \in Sound(doc, plain)
  BY <1>2, <1>3, <1>4, ThroughKeeps
<1>. QED BY <1>1, <1>5

(* The heading of a section, above one of its texts and the short lines    *)
(* right before it.                                                        *)
LEMMA SectionIs ==
  ASSUME NEW doc, IsPage(doc), NEW h \in DOMAIN doc, h # 1
  PROVE  Section(doc, h) \in DOMAIN doc /\ Section(doc, h) \in Above(doc, h)
<1>. DEFINE S == Tagged(doc, Above(doc, h), {"section", "article", "main", "body"})
<1>1. Section(doc, h) = Max(S)
  BY DEF Section
<1>2. h \in 2..Len(doc) /\ Len(doc) \in Nat /\ DOMAIN doc = 1..Len(doc)
  BY DEF IsPage
<1>3. 1 \in Above(doc, h) /\ doc[1].tag = "body" /\ Above(doc, h) \subseteq 1..Len(doc)
  BY <1>2, AboveFacts, WithinFacts DEF IsPage
<1>4. S \in SUBSET (0..Len(doc)) /\ S # {} /\ S \subseteq Above(doc, h)
  <2>1. 1 \in S
    BY <1>3 DEF Tagged
  <2>2. S \subseteq Above(doc, h)
    BY DEF Tagged
  <2>. HIDE DEF S
  <2>. QED BY <1>2, <1>3, <2>1, <2>2
<1>. HIDE DEF S
<1>5. Max(S) \in S
  BY <1>2, <1>4, MaxFacts
<1>. QED BY <1>1, <1>2, <1>3, <1>4, <1>5

LEMMA PastOrphansFacts ==
  ASSUME NEW md \in Seq(MdLines), NEW place \in 1..Len(md)
  PROVE  /\ PastOrphans(md, place) \in 1..place
         /\ \A j \in PastOrphans(md, place)..(place - 1) : IsOrphan(md[j])
<1>. DEFINE S == {k \in 1..place : \A j \in k..(place - 1) : IsOrphan(md[j])}
<1>1. S \in SUBSET Nat /\ place \in S
  OBVIOUS
<1>2. PastOrphans(md, place) = Min(S)
  BY DEF PastOrphans
<1>. HIDE DEF S
<1>3. Min(S) \in S
  BY <1>1, MinFacts
<1>. QED BY <1>2, <1>3 DEF S

LEMMA HeadingKeeps ==
  ASSUME NEW doc, IsPage(doc), NEW plain, NEW md \in Sound(doc, plain),
         NEW h \in Tagged(doc, DOMAIN doc, {"h2"})
  PROVE  RecoverHeading(doc, md, h) \in Sound(doc, plain)
<1>. DEFINE anchors == Anchors(doc, md, h)
            a == Min(anchors)
            place == Place(md, doc[a].text)
            at == PastOrphans(md, place)
            e == MdLine("h2", doc[h].text)
            all == InsertAt(md, at, e)
<1>0. h \in DOMAIN doc /\ doc[h].tag = "h2" /\ md \in Markdown /\ md \in Seq(MdLines)
  BY MarkdownIs DEF Tagged, Sound, Headed
<1>1. \/ RecoverHeading(doc, md, h) = md
      \/ RecoverHeading(doc, md, h) = all /\ anchors # {} /\ Place(md, doc[h].text) = 0
  BY DEF RecoverHeading
<1>2. ASSUME anchors # {}, Place(md, doc[h].text) = 0 PROVE all \in Sound(doc, plain)
  <2>1. h # 1
    BY <1>0 DEF IsPage
  <2>2. Section(doc, h) \in DOMAIN doc
    BY <1>0, <2>1, SectionIs
  <2>3. anchors \subseteq Within(doc, Section(doc, h)) /\ anchors \in SUBSET Nat
    <3>1. anchors \subseteq Within(doc, Section(doc, h))
      BY DEF Anchors, Tagged
    <3>2. Within(doc, Section(doc, h)) \subseteq Nat
      BY <2>2, WithinFacts
    <3>. HIDE DEF anchors
    <3>. QED BY <3>1, <3>2
  <2>4. a \in anchors
    <3>. HIDE DEF anchors
    <3>. QED BY <1>2, <2>3, MinFacts
  <2>5. doc[a].text # doc[h].text /\ place # 0 /\ a \in Within(doc, Section(doc, h))
    <3>. HIDE DEF a
    <3>. QED BY <2>3, <2>4 DEF Anchors
  <2>. HIDE DEF a, anchors
  <2>6. place \in 1..Len(md) /\ md[place].text = doc[a].text
    BY <1>0, <2>5, PlaceFacts
  <2>. HIDE DEF place
  <2>7. at \in 1..place /\ \A j \in at..(place - 1) : IsOrphan(md[j])
    BY <1>0, <2>6, PastOrphansFacts
  <2>. HIDE DEF at
  <2>8. e \in MdLines /\ e.kind = "h2" /\ e.text = doc[h].text
    <3>1. "h2" \in Kinds
      BY DEF Kinds, Leaves
    <3>2. doc[h].text \in Texts \cup {NoText}
      BY <1>0, LineTypes
    <3>. QED BY <3>1, <3>2 DEF MdLine, MdLines
  <2>9. at \in 1..Len(md) /\ Len(md) \in Nat
    BY <1>0, <2>6, <2>7
  <2>. HIDE DEF e
  <2>10. /\ Len(all) = Len(md) + 1
         /\ \A k \in 1..(Len(md) + 1) :
              all[k] = IF k < at THEN md[k] ELSE IF k = at THEN e ELSE md[k - 1]
    <3>1. Len(all) = Len(md) + 1 /\ Inserted(all, md, at, e)
      BY ONLY <1>0, <2>8, <2>9, InsertFacts
    <3>. QED BY ONLY <3>1 DEF Inserted
  <2>. HIDE DEF all
  <2>. PICK next : next = place + 1
    OBVIOUS
  <2>11. all[next] = md[place] /\ next \in (at + 1)..Len(all)
    <3>1. /\ next \in 1..(Len(md) + 1) /\ ~(next < at) /\ next # at
          /\ next - 1 = place /\ next \in (at + 1)..(Len(md) + 1)
      BY <2>6, <2>7, <2>9
    <3>. QED BY <2>10, <3>1
  <2>12. \A i \in (at + 1)..(next - 1) : Short(all[i])
    <3>. SUFFICES ASSUME NEW i \in (at + 1)..(next - 1) PROVE Short(all[i])
      OBVIOUS
    <3>1. i \in 1..(Len(md) + 1) /\ ~(i < at) /\ i # at /\ i - 1 \in at..(place - 1)
      BY <2>6, <2>7, <2>9
    <3>2. all[i] = md[i - 1]
      BY <2>10, <3>1
    <3>. QED BY <2>7, <3>1, <3>2 DEF Short
  <2>13. all[at] = e
    <3>1. at \in 1..(Len(md) + 1) /\ ~(at < at)
      BY <2>9
    <3>. QED BY <2>10, <3>1
  <2>14. OwnText(doc, all[at], all[next].text)
    <3>1. h \in Origins(doc, e)
      BY <2>8 DEF Origins
    <3>. QED BY <2>5, <2>6, <2>8, <2>11, <2>13, <3>1 DEF OwnText
  <2>15. Over(doc, all, at)
    <3>. QED BY <2>11, <2>12, <2>14 DEF Over
  <2>. QED BY <1>2, <2>8, <2>9, <2>15, LineBetween DEF all
<1>. QED BY <1>1, <1>2

LEMMA EyebrowsKeep ==
  ASSUME NEW doc, IsPage(doc), NEW plain, NEW md \in Sound(doc, plain),
         NEW h \in Tagged(doc, DOMAIN doc, {"h2"})
  PROVE  RecoverEyebrows(doc, md, h) \in Sound(doc, plain)
<1>. DEFINE brow(n) == MdLine("eyebrow", doc[n].text)
            put(lines, n) == IF Shows(lines, doc[n].text) THEN lines
                             ELSE InsertAt(lines, Place(lines, doc[h].text), brow(n))
            places == InOrder(Eyebrows(doc, h))
            steps == [k \in DOMAIN places |-> [lines \in Markdown |-> put(lines, places[k])]]
            Kept == {lines \in Sound(doc, plain) : Place(lines, doc[h].text) # 0}
<1>1. RecoverEyebrows(doc, md, h) = IF Place(md, doc[h].text) = 0 THEN md ELSE Through(steps, md)
  BY DEF RecoverEyebrows, Each
<1>0. h \in DOMAIN doc /\ h \in 1..Len(doc) /\ Len(doc) \in Nat /\ DOMAIN doc = 1..Len(doc)
  BY DEF Tagged, IsPage
<1>2. /\ Len(places) \in Nat /\ DOMAIN places = 1..Len(places)
      /\ \A k \in 1..Len(places) : places[k] \in DOMAIN doc
  <2>1. Eyebrows(doc, h) \subseteq 2..(h - 1)
    BY DEF Eyebrows, Tagged
  <2>2. Eyebrows(doc, h) \subseteq DOMAIN doc
    BY <1>0, <2>1
  <2>. QED BY <2>2, OrderedPlaces
<1>. HIDE DEF places
<1>3. Len(steps) = Len(places)
  BY <1>2
<1>4. ASSUME NEW k \in 1..Len(places), NEW lines \in Kept PROVE steps[k][lines] \in Kept
  <2>1. lines \in Markdown /\ lines \in Sound(doc, plain) /\ lines \in Seq(MdLines)
    BY MarkdownIs DEF Sound, Headed
  <2>2. steps[k][lines] = put(lines, places[k])
    <3>. HIDE DEF put
    <3>. QED BY <1>2, <2>1
  <2>. DEFINE e == brow(places[k])
              p == Place(lines, doc[h].text)
              all == InsertAt(lines, p, e)
  <2>3. e \in MdLines /\ e.kind = "eyebrow" /\ e.text = doc[places[k]].text
    <3>1. "eyebrow" \in Kinds
      BY DEF Kinds
    <3>2. doc[places[k]].text \in Texts \cup {NoText}
      BY <1>2, LineTypes
    <3>. QED BY <3>1, <3>2 DEF MdLine, MdLines
  <2>4. p \in 1..Len(lines) /\ lines[p].text = doc[h].text /\ lines[p].kind # "img"
    BY <2>1, PlaceFacts
  <2>5. put(lines, places[k]) = IF Shows(lines, doc[places[k]].text) THEN lines ELSE all
    OBVIOUS
  <2>. HIDE DEF e, p, put
  <2>6. ASSUME ~Shows(lines, doc[places[k]].text) PROVE all \in Sound(doc, plain)
    BY <2>1, <2>3, <2>4, <2>6, LineBetween DEF Exempt
  <2>7. Place(all, doc[h].text) # 0
    <3>1. /\ all \in Seq(MdLines) /\ Len(all) = Len(lines) + 1
          /\ \A i \in 1..(Len(lines) + 1) :
               all[i] = IF i < p THEN lines[i] ELSE IF i = p THEN e ELSE lines[i - 1]
      <4>1. all \in Seq(MdLines) /\ Len(all) = Len(lines) + 1 /\ Inserted(all, lines, p, e)
        BY <2>1, <2>3, <2>4, InsertFacts
      <4>. QED BY ONLY <4>1 DEF Inserted
    <3>. HIDE DEF all
    <3>. PICK q : q = p + 1
      OBVIOUS
    <3>2. q \in 1..(Len(lines) + 1) /\ ~(q < p) /\ q # p /\ q - 1 = p
      BY <2>1, <2>4
    <3>3. all[q] = lines[p] /\ q \in 1..Len(all)
      BY <3>1, <3>2
    <3>4. all[q].text = doc[h].text /\ all[q].kind # "img"
      BY <2>4, <3>3
    <3>. QED BY <3>1, <3>3, <3>4, PlaceFacts
  <2>. HIDE DEF all
  <2>. QED BY <2>2, <2>5, <2>6, <2>7
<1>. HIDE DEF steps
<1>5. ASSUME Place(md, doc[h].text) # 0 PROVE Through(steps, md) \in Kept
  <2>1. md \in Kept
    BY <1>5
  <2>. HIDE DEF Kept
  <2>. QED BY <1>2, <1>3, <1>4, <2>1, ThroughKeeps
<1>. QED BY <1>1, <1>5

LEMMA SectionHeadingsKeep ==
  ASSUME NEW doc, IsPage(doc), NEW plain, NEW md \in Sound(doc, plain)
  PROVE  RecoverSectionHeadings(doc, md) \in Sound(doc, plain)
<1>. DEFINE places == InOrder(Tagged(doc, DOMAIN doc, {"h2"}))
            first == [k \in DOMAIN places |-> [lines \in Markdown |-> RecoverHeading(doc, lines, places[k])]]
            then == [k \in DOMAIN places |-> [lines \in Markdown |-> RecoverEyebrows(doc, lines, places[k])]]
<1>1. RecoverSectionHeadings(doc, md) = Through(then, Through(first, md))
  BY DEF RecoverSectionHeadings, Each
<1>2. /\ Len(places) \in Nat /\ DOMAIN places = 1..Len(places)
      /\ \A k \in 1..Len(places) : places[k] \in Tagged(doc, DOMAIN doc, {"h2"})
  <2>1. Tagged(doc, DOMAIN doc, {"h2"}) \subseteq DOMAIN doc
    BY DEF Tagged
  <2>. QED BY <2>1, OrderedPlaces
<1>. HIDE DEF places
<1>3. Len(first) = Len(places) /\ Len(then) = Len(places)
  BY <1>2
<1>4. ASSUME NEW k \in 1..Len(places), NEW lines \in Sound(doc, plain)
      PROVE  first[k][lines] \in Sound(doc, plain) /\ then[k][lines] \in Sound(doc, plain)
  <2>1. lines \in Markdown
    BY DEF Sound, Headed
  <2>2. /\ first[k][lines] = RecoverHeading(doc, lines, places[k])
        /\ then[k][lines] = RecoverEyebrows(doc, lines, places[k])
    BY <1>2, <2>1
  <2>. QED BY <1>2, <2>2, HeadingKeeps, EyebrowsKeep
<1>. HIDE DEF first, then
<1>5. Through(first, md) \in Sound(doc, plain)
  BY <1>2, <1>3, <1>4, ThroughKeeps
<1>6. Through(then, Through(first, md)) \in Sound(doc, plain)
  BY <1>2, <1>3, <1>4, <1>5, ThroughKeeps
<1>. QED BY <1>1, <1>6

(* Headings of a footer are noise by its tag, and links are no headings.   *)
LEMMA FooterPlaces ==
  ASSUME NEW doc, IsPage(doc)
  PROVE  /\ Len(Footers(doc)) \in Nat /\ DOMAIN Footers(doc) = 1..Len(Footers(doc))
         /\ \A k \in 1..Len(Footers(doc)) : /\ Footers(doc)[k] \in DOMAIN doc
                                            /\ doc[Footers(doc)[k]].tag = "footer"
<1>1. Tagged(doc, DOMAIN doc, {"footer"}) \subseteq DOMAIN doc
  BY DEF Tagged
<1>. QED BY <1>1, OrderedPlaces DEF Footers, Tagged

LEMMA InFooter ==
  ASSUME NEW doc, IsPage(doc), NEW plain, NEW f \in DOMAIN doc, doc[f].tag = "footer",
         NEW n \in Within(doc, f)
  PROVE  /\ n \in DOMAIN doc
         /\ doc[n].tag = "h2" => Exempt(doc, plain, MdLine("h2", doc[n].text))
<1>1. n \in DOMAIN doc /\ (n = f \/ f \in Above(doc, n))
  BY WithinFacts
<1>2. ASSUME doc[n].tag = "h2" PROVE Exempt(doc, plain, MdLine("h2", doc[n].text))
  <2>1. f \in Above(doc, n) /\ doc[f].tag \in StructuralNoise
    BY <1>1, <1>2 DEF StructuralNoise
  <2>2. n \in Origins(doc, MdLine("h2", doc[n].text))
    BY <1>1, <1>2 DEF Origins, Tagged, MdLine
  <2>. QED BY <2>1, <2>2 DEF Exempt
<1>. QED BY <1>1, <1>2

LEMMA FooterCtaKeeps ==
  ASSUME NEW doc, IsPage(doc), NEW plain, NEW md \in Sound(doc, plain)
  PROVE  RecoverFooterCta(doc, md) \in Sound(doc, plain)
<1>. DEFINE headings(f) == {n \in Tagged(doc, Within(doc, f), {"h2"}) : doc[n].mark # "sr-only"}
            links(f) == {n \in Tagged(doc, Within(doc, f), {"a"}) : doc[n].mark = "cta"}
            places(f) == InOrder(headings(f)) \o InOrder(links(f))
            put(lines, n) == IF Shows(lines, doc[n].text) THEN lines
                             ELSE Append(lines, MdLine(doc[n].tag, doc[n].text))
            steps(f) == [k \in DOMAIN places(f) |-> [lines \in Markdown |-> put(lines, places(f)[k])]]
            footers == Footers(doc)
            outer == [k \in DOMAIN footers |-> [lines \in Markdown |-> Through(steps(footers[k]), lines)]]
<1>1. RecoverFooterCta(doc, md) = Through(outer, md)
  BY DEF RecoverFooterCta, Each
<1>2. ASSUME NEW f \in DOMAIN doc, doc[f].tag = "footer", NEW md0 \in Sound(doc, plain)
      PROVE  Through(steps(f), md0) \in Sound(doc, plain)
  <2>1. Within(doc, f) \subseteq DOMAIN doc
    BY WithinFacts
  <2>2. headings(f) \subseteq DOMAIN doc /\ links(f) \subseteq DOMAIN doc
    BY <2>1 DEF Tagged
  <2>3. InOrder(headings(f)) \in Seq(headings(f)) /\ InOrder(links(f)) \in Seq(links(f))
    BY <2>2, OrderedPlaces
  <2>4. \A n \in headings(f) \cup links(f) : n \in Within(doc, f) /\ doc[n].tag \in {"h2", "a"}
    BY DEF Tagged
  <2>. DEFINE V == headings(f) \cup links(f)
  <2>5. /\ Len(places(f)) \in Nat /\ DOMAIN places(f) = 1..Len(places(f))
        /\ \A k \in 1..Len(places(f)) : places(f)[k] \in V
    <3>1. InOrder(headings(f)) \in Seq(V) /\ InOrder(links(f)) \in Seq(V)
      BY <2>3
    <3>. HIDE DEF headings, links, V
    <3>2. places(f) \in Seq(V)
      BY <3>1, ConcatFacts
    <3>. HIDE DEF places
    <3>. QED BY <3>2
  <2>. HIDE DEF places
  <2>6. Len(steps(f)) = Len(places(f))
    BY <2>5
  <2>7. ASSUME NEW k \in 1..Len(places(f)), NEW lines \in Sound(doc, plain)
        PROVE  steps(f)[k][lines] \in Sound(doc, plain)
    <3>1. PICK n : n = places(f)[k] /\ n \in Within(doc, f) /\ doc[n].tag \in {"h2", "a"}
      BY <2>4, <2>5
    <3>2. lines \in Markdown
      BY DEF Sound, Headed
    <3>3. steps(f)[k][lines] = put(lines, n)
      <4>. HIDE DEF put
      <4>. QED BY <2>5, <3>1, <3>2
    <3>. DEFINE line == MdLine(doc[n].tag, doc[n].text)
    <3>4. n \in DOMAIN doc
      BY <1>2, <3>1, InFooter
    <3>5. line \in MdLines /\ line.text = doc[n].text
      <4>1. MdLine(doc[n].tag, doc[n].text) \in MdLines
        BY ONLY IsPage(doc), <3>4, LineTypes
      <4>2. MdLine(doc[n].tag, doc[n].text).text = doc[n].text
        BY ONLY DEF MdLine
      <4>. QED BY ONLY <4>1, <4>2
    <3>6. Exempt(doc, plain, line)
      <4>1. CASE doc[n].tag = "h2"
        BY <1>2, <3>1, <4>1, InFooter
      <4>2. CASE doc[n].tag = "a"
        BY <4>2 DEF Exempt, MdLine
      <4>. QED BY <3>1, <4>1, <4>2
    <3>7. put(lines, n) = IF Shows(lines, doc[n].text) THEN lines ELSE Append(lines, line)
      OBVIOUS
    <3>. HIDE DEF line
    <3>8. ~Shows(lines, doc[n].text) => Append(lines, line) \in Sound(doc, plain)
      BY <3>5, <3>6, LineBelow
    <3>. QED BY <3>3, <3>7, <3>8
  <2>. HIDE DEF steps
  <2>. QED BY <2>5, <2>6, <2>7, ThroughKeeps
<1>. HIDE DEF steps, footers
<1>3. /\ Len(footers) \in Nat /\ DOMAIN footers = 1..Len(footers)
      /\ \A k \in 1..Len(footers) : footers[k] \in DOMAIN doc /\ doc[footers[k]].tag = "footer"
  BY FooterPlaces DEF footers
<1>4. Len(outer) = Len(footers)
  BY <1>3
<1>5. ASSUME NEW k \in 1..Len(footers), NEW lines \in Sound(doc, plain)
      PROVE  outer[k][lines] \in Sound(doc, plain)
  <2>1. lines \in Markdown
    BY DEF Sound, Headed
  <2>2. outer[k][lines] = Through(steps(footers[k]), lines)
    BY <1>3, <2>1
  <2>. QED BY <1>2, <1>3, <2>2
<1>. HIDE DEF outer
<1>6. Through(outer, md) \in Sound(doc, plain)
  BY <1>3, <1>4, <1>5, ThroughKeeps
<1>. QED BY <1>1, <1>6

(* Categories and the names under them.                                    *)
LEMMA LinksAre == ASSUME NEW doc, IsPage(doc), NEW h \in DOMAIN doc PROVE LinksBeside(doc, h) \subseteq DOMAIN doc
<1>. DEFINE path == Reverse(InOrder(Above(doc, h)))
            links(n) == Tagged(doc, Within(doc, n), {"a"})
            near == SubSeq(path, 1, Min({2, Len(path)}))
            levels == {k \in 1..Len(near) : Cardinality(links(near[k])) >= 2}
            level == IF levels # {} THEN Min(levels) ELSE 0
<1>1. LinksBeside(doc, h) = IF level = 0 THEN {} ELSE {n \in links(path[level]) : Length(doc[n].text) \in 2..59}
  BY DEF LinksBeside, SelectInSeq
<1>2. Above(doc, h) \subseteq DOMAIN doc
  BY WithinFacts
<1>3. path \in Seq(DOMAIN doc) /\ Len(path) \in Nat
  <2>. DEFINE inner == InOrder(Above(doc, h))
  <2>1. inner \in Seq(DOMAIN doc)
    BY <1>2, OrderedPlaces
  <2>. HIDE DEF inner
  <2>2. Reverse(inner) \in Seq(DOMAIN doc)
    BY <2>1 DEF Reverse
  <2>. QED BY <2>2 DEF inner
<1>. HIDE DEF path
<1>4. Len(near) \in Nat /\ Len(near) <= Len(path)
  <2>. DEFINE some == {2, Len(path)}
  <2>1. some \in SUBSET Nat /\ some # {} /\ Len(path) \in some
    BY <1>3
  <2>2. Min(some) \in some /\ Min(some) <= Len(path)
    BY <2>1, MinFacts
  <2>3. PICK m \in Nat : m = Min(some) /\ m <= Len(path)
    BY <2>1, <2>2
  <2>. HIDE DEF some
  <2>4. Len(SubSeq(path, 1, m)) = m
    BY <1>3, <2>3
  <2>5. near = SubSeq(path, 1, m)
    BY <2>3 DEF some
  <2>. QED BY <2>3, <2>4, <2>5
<1>. HIDE DEF near
<1>5. ASSUME level # 0 PROVE links(path[level]) \subseteq DOMAIN doc
  <2>1. levels \in SUBSET Nat /\ levels \subseteq 1..Len(near)
    OBVIOUS
  <2>2. levels # {} /\ level \in levels
    <3>. HIDE DEF levels
    <3>. QED BY <1>5, <2>1, MinFacts
  <2>. HIDE DEF level, levels
  <2>3. level \in 1..Len(path)
    BY <1>3, <1>4, <2>1, <2>2
  <2>4. path[level] \in DOMAIN doc
    BY <1>3, <2>3
  <2>. QED BY <2>4, WithinFacts DEF Tagged
<1>. HIDE DEF links, level
<1>. QED BY <1>1, <1>5

(* One category and its names; and all of a footer, whose texts were none  *)
(* of the lines' before: as often as the footer gives them.                *)
NamesOf(doc, h) ==
  LET links == InOrder(LinksBeside(doc, h)) IN [k \in DOMAIN links |-> MdLine("name", doc[links[k]].text)]
WithCategory(doc, lines, h) == Append(lines, MdLine("category", doc[h].text)) \o NamesOf(doc, h)

LEMMA NamesAre ==
  ASSUME NEW doc, IsPage(doc), NEW h \in DOMAIN doc
  PROVE  /\ NamesOf(doc, h) \in Seq(MdLines)
         /\ \A k \in 1..Len(NamesOf(doc, h)) : NamesOf(doc, h)[k].kind = "name"
<1>. DEFINE links == InOrder(LinksBeside(doc, h))
            names == [k \in DOMAIN links |-> MdLine("name", doc[links[k]].text)]
<1>1. /\ Len(links) \in Nat /\ DOMAIN links = 1..Len(links)
      /\ \A k \in 1..Len(links) : links[k] \in DOMAIN doc
  BY LinksAre, OrderedPlaces
<1>. HIDE DEF links
<1>2. ASSUME NEW k \in 1..Len(links) PROVE names[k] \in MdLines /\ names[k].kind = "name"
  <2>1. names[k] = MdLine("name", doc[links[k]].text)
    BY <1>1
  <2>2. "name" \in Kinds /\ doc[links[k]].text \in Texts \cup {NoText}
    BY <1>1, LineTypes DEF Kinds
  <2>. QED BY <2>1, <2>2 DEF MdLine, MdLines
<1>3. names \in Seq(MdLines) /\ Len(names) = Len(links)
  BY <1>1, <1>2
<1>4. NamesOf(doc, h) = names
  BY DEF NamesOf, links
<1>. HIDE DEF names
<1>. QED BY <1>2, <1>3, <1>4

LEMMA CategoryAdds ==
  ASSUME NEW doc, IsPage(doc), NEW plain, NEW h \in DOMAIN doc, NEW lines \in Headed(doc, plain)
  PROVE  /\ WithCategory(doc, lines, h) \in Headed(doc, plain)
         /\ \A text : Copies(WithCategory(doc, lines, h), text) =
                        Copies(lines, text) + IF doc[h].text = text THEN 1 ELSE 0
<1>. DEFINE e == MdLine("category", doc[h].text)
            names == NamesOf(doc, h)
            post == <<e>> \o names
<1>1. e \in MdLines /\ e.kind = "category" /\ e.text = doc[h].text
  <2>1. "category" \in Kinds /\ doc[h].text \in Texts \cup {NoText}
    BY LineTypes DEF Kinds
  <2>. QED BY <2>1 DEF MdLine, MdLines
<1>. HIDE DEF e
<1>2. names \in Seq(MdLines) /\ \A k \in 1..Len(names) : names[k].kind = "name"
  BY NamesAre
<1>. HIDE DEF names
<1>3. lines \in Seq(MdLines) /\ <<e>> \in Seq(MdLines) /\ Len(<<e>>) = 1 /\ <<e>>[1] = e
  BY <1>1, MarkdownIs DEF Headed
<1>4. WithCategory(doc, lines, h) = lines \o post
  <2>1. Append(lines, e) = lines \o <<e>>
    BY <1>3
  <2>2. (lines \o <<e>>) \o names = lines \o post
    BY <1>2, <1>3, ConcatAssociative
  <2>. QED BY <2>1, <2>2 DEF WithCategory, e, names
<1>5. /\ post \in Seq(MdLines) /\ Len(post) = 1 + Len(names) /\ Len(names) \in Nat
      /\ \A k \in 1..1 : post[k] = <<e>>[k]
      /\ \A k \in 2..(1 + Len(names)) : post[k] = names[k - 1]
  BY <1>2, <1>3, ConcatFacts
<1>6. \A text : Copies(post, text) = IF doc[h].text = text THEN 1 ELSE 0
  <2>. SUFFICES ASSUME NEW text PROVE Copies(post, text) = IF doc[h].text = text THEN 1 ELSE 0
    OBVIOUS
  <2>1. Copies(post, text) = Copies(<<e>>, text) + Copies(names, text)
    BY <1>2, <1>3, CopiesOfBoth
  <2>2. Copies(names, text) = 0
    BY <1>2, CopiesOfNone DEF Unchecked
  <2>3. Copies(<<e>>, text) = IF doc[h].text = text THEN 1 ELSE 0
    <3>1. CopiesAt(<<e>>, text) = IF doc[h].text = text THEN {1} ELSE {}
      BY <1>1, <1>3 DEF CopiesAt, Unchecked
    <3>2. Cardinality({1}) = 1 /\ Cardinality({}) = 0
      BY FS_Singleton, FS_EmptySet
    <3>. QED BY <3>1, <3>2 DEF Copies
  <2>. QED BY <2>1, <2>2, <2>3
<1>7. \A k \in 1..Len(post) : Exempt(doc, plain, post[k])
  <2>. SUFFICES ASSUME NEW k \in 1..Len(post) PROVE post[k].kind # "h2"
    BY DEF Exempt
  <2>1. CASE k = 1
    BY <1>1, <1>3, <1>5, <2>1
  <2>2. CASE k # 1
    <3>1. k \in 2..(1 + Len(names)) /\ k - 1 \in 1..Len(names)
      BY <1>5, <2>2
    <3>. QED BY <1>2, <1>5, <3>1
  <2>. QED BY <2>1, <2>2
<1>. HIDE DEF post
<1>8. lines \o post \in Headed(doc, plain)
  BY <1>5, <1>7, MarkdownIs, Below1
<1>9. \A text : Copies(lines \o post, text) = Copies(lines, text) + IF doc[h].text = text THEN 1 ELSE 0
  BY <1>3, <1>5, <1>6, CopiesOfBoth
<1>. QED BY <1>4, <1>8, <1>9

LEMMA FooterMapped ==
  ASSUME NEW doc, IsPage(doc), NEW plain, NEW f \in DOMAIN doc, NEW md \in Sound(doc, plain),
         NEW steps,
         steps = [k \in DOMAIN InOrder(Categories(doc, md, f)) |->
                    [lines \in Markdown |-> WithCategory(doc, lines, InOrder(Categories(doc, md, f))[k])]]
  PROVE  Through(steps, md) \in Sound(doc, plain)
<1>. DEFINE categories == Categories(doc, md, f)
            places == InOrder(categories)
            N == Len(places)
            of(text, n) == {i \in 1..n : doc[places[i]].text = text}
            reached == [n \in 0..N |->
              {lines \in Headed(doc, plain) :
                 \A text \in Texts \cup {NoText} :
                   Copies(lines, text) = Copies(md, text) + Cardinality(of(text, n))}]
<1>0. categories \subseteq DOMAIN doc /\ IsFiniteSet(DOMAIN doc) /\ DOMAIN doc \subseteq Nat
  BY WithinFacts DEF Categories, Tagged
<1>1. \A h \in categories : doc[h].tag \in {"h2", "h3"} /\ ~Shows(md, doc[h].text)
  BY DEF Categories, Tagged
<1>2. /\ N \in Nat /\ DOMAIN places = 1..N /\ IsInjective(places)
      /\ \A k \in 1..N : places[k] \in categories /\ places[k] \in DOMAIN doc
  <2>1. categories \in SUBSET Nat /\ IsFiniteSet(categories)
    BY <1>0, FS_Subset
  <2>. HIDE DEF categories
  <2>. QED BY <1>0, <2>1, OrderedPlaces, InOrderFacts
<1>3. md \in Seq(MdLines) /\ md \in Headed(doc, plain)
  BY MarkdownIs DEF Sound, Headed
<1>. HIDE DEF categories, places, N
<1>4. Len(steps) = N
  BY <1>2 DEF places, categories
<1>5. \A text, n : n \in 0..N => IsFiniteSet(of(text, n)) /\ Cardinality(of(text, n)) \in Nat
  <2>. SUFFICES ASSUME NEW text, NEW n \in 0..N
                PROVE  IsFiniteSet(of(text, n)) /\ Cardinality(of(text, n)) \in Nat
    OBVIOUS
  <2>1. n \in Nat /\ of(text, n) \subseteq 1..n
    BY <1>2
  <2>. HIDE DEF of
  <2>2. IsFiniteSet(1..n)
    BY <2>1, FS_Interval
  <2>. QED BY <2>1, <2>2, FS_Subset, FS_CardinalityType
<1>6. md \in reached[0]
  <2>1. \A text : of(text, 0) = {}
    OBVIOUS
  <2>2. \A text : Copies(md, text) = Copies(md, text) + Cardinality(of(text, 0))
    <3>1. \A text : Cardinality(of(text, 0)) = 0
      BY <2>1, FS_EmptySet
    <3>2. \A text : Copies(md, text) \in Nat
      BY <1>3, CopiesType
    <3>. HIDE DEF of
    <3>. QED BY <3>1, <3>2
  <2>3. 0 \in 0..N
    BY <1>2
  <2>. HIDE DEF of
  <2>. QED BY <1>3, <2>2, <2>3
<1>7. ASSUME NEW k \in 1..N, NEW lines \in reached[k - 1] PROVE steps[k][lines] \in reached[k]
  <2>0. k - 1 \in 0..N /\ k \in 0..N /\ k - 1 + 1 = k
    BY <1>2
  <2>1. /\ lines \in Headed(doc, plain)
        /\ \A text \in Texts \cup {NoText} :
             Copies(lines, text) = Copies(md, text) + Cardinality(of(text, k - 1))
    <3>. HIDE DEF of
    <3>. QED BY <2>0
  <2>. DEFINE more == WithCategory(doc, lines, places[k])
  <2>2. steps[k][lines] = more
    <3>1. lines \in Markdown
      BY <2>1 DEF Headed
    <3>. QED BY <1>2, <3>1 DEF places, categories
  <2>3. /\ more \in Headed(doc, plain)
        /\ \A text : Copies(more, text) = Copies(lines, text) + IF doc[places[k]].text = text THEN 1 ELSE 0
    BY <1>2, <2>1, CategoryAdds
  <2>. HIDE DEF more
  <2>4. ASSUME NEW text \in Texts \cup {NoText}
        PROVE  Copies(more, text) = Copies(md, text) + Cardinality(of(text, k))
    <3>1. /\ IsFiniteSet(of(text, k - 1)) /\ Cardinality(of(text, k - 1)) \in Nat
          /\ Copies(md, text) \in Nat
      BY <1>3, <1>5, <2>0, CopiesType
    <3>2. k \notin of(text, k - 1)
      BY <2>0
    <3>3. of(text, k) = IF doc[places[k]].text = text THEN of(text, k - 1) \cup {k} ELSE of(text, k - 1)
      <4>1. 1..k = (1..(k - 1)) \cup {k}
        BY <2>0
      <4>. QED BY <4>1
    <3>. HIDE DEF of
    <3>4. Cardinality(of(text, k - 1) \cup {k}) = Cardinality(of(text, k - 1)) + 1
      BY <3>1, <3>2, FS_AddElement
    <3>5. Cardinality(of(text, k)) = Cardinality(of(text, k - 1)) + IF doc[places[k]].text = text THEN 1 ELSE 0
      BY <3>1, <3>3, <3>4
    <3>. QED BY <2>1, <2>3, <3>1, <3>5
  <2>. HIDE DEF of
  <2>. QED BY <2>0, <2>2, <2>3, <2>4
<1>. HIDE DEF reached
<1>8. Through(steps, md) \in reached[N]
  BY <1>2, <1>4, <1>6, <1>7, ThroughReaches
<1>9. PICK all : all = Through(steps, md)
  OBVIOUS
<1>10. /\ all \in Headed(doc, plain)
       /\ \A text \in Texts \cup {NoText} : Copies(all, text) = Copies(md, text) + Cardinality(of(text, N))
  <2>1. N \in 0..N
    BY <1>2
  <2>. HIDE DEF of
  <2>. QED BY <1>8, <1>9, <2>1 DEF reached
<1>11. ASSUME NEW text \in Texts \cup {NoText} PROVE Spared(doc, all, text)
  <2>. DEFINE onPage == GivenAt(doc, DOMAIN doc, text)
              S == of(text, N)
              g == [i \in S |-> places[i]]
  <2>0. N \in 0..N /\ Spared(doc, md, text) /\ Copies(md, text) \in Nat
    BY <1>2, <1>3, CopiesType DEF Sound
  <2>1. CASE S = {}
    <3>1. Cardinality(S) = 0
      BY <2>1, FS_EmptySet
    <3>2. Copies(all, text) = Copies(md, text)
      BY <1>10, <2>0, <3>1
    <3>. QED BY <2>0, <3>2 DEF Spared
  <2>2. CASE S # {}
    <3>1. PICK i \in 1..N : doc[places[i]].text = text
      BY <2>2
    <3>2. ~Shows(md, text)
      BY <1>1, <1>2, <3>1
    <3>3. Copies(md, text) = 0
      BY <1>3, <3>2, CopiesOfNone
    <3>4. \A k \in S : k \in 1..N /\ places[k] \in onPage
      BY <1>1, <1>2 DEF GivenAt, Unchecked
    <3>5. \A k, j \in S : places[k] = places[j] => k = j
      <4>1. \A k \in S : k \in DOMAIN places
        BY <1>2, <3>4
      <4>. HIDE DEF S
      <4>. QED BY <1>2, <4>1 DEF IsInjective
    <3>6. IsFiniteSet(onPage)
      <4>1. onPage \subseteq DOMAIN doc
        BY DEF GivenAt
      <4>. QED BY <1>0, <4>1, FS_Subset
    <3>. HIDE DEF S, onPage
    <3>7. g \in Injection(S, onPage)
      BY <3>4, <3>5 DEF Injection, IsInjective
    <3>. HIDE DEF g
    <3>8. Cardinality(S) <= Cardinality(onPage)
      BY <3>6, <3>7, FS_Injection
    <3>9. Copies(all, text) = Cardinality(S)
      <4>1. Cardinality(S) \in Nat
        BY <1>5, <2>0 DEF S
      <4>. QED BY <1>10, <3>3, <4>1 DEF S
    <3>. QED BY <3>8, <3>9 DEF Spared, onPage
  <2>. QED BY <2>1, <2>2
<1>. QED BY <1>9, <1>10, <1>11 DEF Sound

LEMMA SitemapKeeps ==
  ASSUME NEW doc, IsPage(doc), NEW plain, NEW md \in Sound(doc, plain)
  PROVE  RecoverFooterSitemap(doc, md) \in Sound(doc, plain)
<1>. DEFINE steps(places) == [k \in DOMAIN places |->
                                [lines \in Markdown |-> WithCategory(doc, lines, places[k])]]
            footer(lines, f) == IF Cardinality(Categories(doc, lines, f)) < 3 THEN lines
                                ELSE Through(steps(InOrder(Categories(doc, lines, f))), lines)
            footers == Footers(doc)
            outer == [k \in DOMAIN footers |-> [lines \in Markdown |-> footer(lines, footers[k])]]
<1>1. RecoverFooterSitemap(doc, md) = Through(outer, md)
  BY DEF RecoverFooterSitemap, Each, WithCategory, NamesOf
<1>2. ASSUME NEW f \in DOMAIN doc, NEW lines \in Sound(doc, plain)
      PROVE  footer(lines, f) \in Sound(doc, plain)
  <2>1. Through(steps(InOrder(Categories(doc, lines, f))), lines) \in Sound(doc, plain)
    BY FooterMapped
  <2>. HIDE DEF steps
  <2>. QED BY <2>1
<1>. HIDE DEF footer, footers
<1>4. /\ Len(footers) \in Nat /\ DOMAIN footers = 1..Len(footers)
      /\ \A k \in 1..Len(footers) : footers[k] \in DOMAIN doc
  BY FooterPlaces DEF footers
<1>5. Len(outer) = Len(footers)
  BY <1>4
<1>6. ASSUME NEW k \in 1..Len(footers), NEW lines \in Sound(doc, plain)
      PROVE  outer[k][lines] \in Sound(doc, plain)
  <2>1. lines \in Markdown
    BY DEF Sound, Headed
  <2>2. outer[k][lines] = footer(lines, footers[k])
    BY <1>4, <2>1
  <2>. QED BY <1>2, <1>4, <2>2
<1>. HIDE DEF outer
<1>7. Through(outer, md) \in Sound(doc, plain)
  BY <1>4, <1>5, <1>6, ThroughKeeps
<1>. QED BY <1>1, <1>7

LEMMA DataKeeps ==
  ASSUME NEW doc, IsPage(doc), NEW plain, NEW md \in Sound(doc, plain)
  PROVE  RecoverData(doc, md) \in Sound(doc, plain)
<1>1. ASSUME NEW kind \in {"json", "js"}, NEW n \in DOMAIN doc
      PROVE  /\ MdLine(kind, doc[n].text) \in MdLines
             /\ MdLine(kind, doc[n].text).text = doc[n].text /\ MdLine(kind, doc[n].text).kind = kind
             /\ Exempt(doc, plain, MdLine(kind, doc[n].text))
  <2>1. kind \in Kinds /\ doc[n].text \in Texts \cup {NoText} /\ kind # "h2"
    BY LineTypes DEF Kinds, Leaves, Scripts
  <2>. QED BY <2>1 DEF MdLine, MdLines, Exempt
<1>2. RecoverIslands(doc, md) \in Sound(doc, plain)
  <2>. DEFINE put(lines, n) == IF Shows(lines, doc[n].text) THEN lines
                               ELSE Append(lines, MdLine("json", doc[n].text))
              places == InOrder(Tagged(doc, DOMAIN doc, {"json"}))
              steps == [k \in DOMAIN places |-> [lines \in Markdown |-> put(lines, places[k])]]
  <2>1. RecoverIslands(doc, md) = md \/ RecoverIslands(doc, md) = Through(steps, md)
    BY DEF RecoverIslands, Each
  <2>2. /\ Len(places) \in Nat /\ DOMAIN places = 1..Len(places)
        /\ \A k \in 1..Len(places) : places[k] \in DOMAIN doc
    <3>1. Tagged(doc, DOMAIN doc, {"json"}) \subseteq DOMAIN doc
      BY DEF Tagged
    <3>. QED BY <3>1, OrderedPlaces
  <2>. HIDE DEF places
  <2>3. Len(steps) = Len(places)
    BY <2>2
  <2>4. ASSUME NEW k \in 1..Len(places), NEW lines \in Sound(doc, plain)
        PROVE  steps[k][lines] \in Sound(doc, plain)
    <3>1. lines \in Markdown
      BY DEF Sound, Headed
    <3>2. steps[k][lines] = put(lines, places[k])
      <4>. HIDE DEF put
      <4>. QED BY <2>2, <3>1
    <3>3. ~Shows(lines, doc[places[k]].text)
             => Append(lines, MdLine("json", doc[places[k]].text)) \in Sound(doc, plain)
      BY <1>1, <2>2, LineBelow
    <3>. QED BY <3>2, <3>3
  <2>. HIDE DEF steps
  <2>5. Through(steps, md) \in Sound(doc, plain)
    BY <2>2, <2>3, <2>4, ThroughKeeps
  <2>. QED BY <2>1, <2>5
<1>3. ASSUME NEW lines \in Sound(doc, plain) PROVE RecoverScripts(doc, lines) \in Sound(doc, plain)
  <2>. DEFINE readable == {n \in Tagged(doc, DOMAIN doc, {"js"}) : Length(doc[n].text) > 15}
              last == {n \in readable : ~\E m \in readable : m < n /\ doc[m].text = doc[n].text}
              places == InOrder(last)
              post == [k \in DOMAIN places |-> MdLine("js", doc[places[k]].text)]
  <2>1. RecoverScripts(doc, lines) = lines \o post
    BY DEF RecoverScripts
  <2>2. /\ Len(places) \in Nat /\ DOMAIN places = 1..Len(places)
        /\ \A k \in 1..Len(places) : places[k] \in DOMAIN doc
    <3>1. last \subseteq DOMAIN doc
      BY DEF Tagged
    <3>. HIDE DEF last
    <3>. QED BY <3>1, OrderedPlaces
  <2>. HIDE DEF places
  <2>3. \A k \in 1..Len(places) :
          post[k] \in MdLines /\ Exempt(doc, plain, post[k]) /\ post[k].kind \in Unchecked
    BY <1>1, <2>2 DEF Unchecked
  <2>4. post \in Seq(MdLines) /\ Len(post) = Len(places)
    BY <2>2, <2>3
  <2>. HIDE DEF post
  <2>5. lines \in Headed(doc, plain) /\ lines \in Seq(MdLines)
    BY MarkdownIs DEF Sound, Headed
  <2>6. lines \o post \in Headed(doc, plain)
    BY <2>3, <2>4, <2>5, MarkdownIs, Below1
  <2>7. ASSUME NEW text \in Texts \cup {NoText} PROVE Spared(doc, lines \o post, text)
    <3>1. Copies(lines \o post, text) = Copies(lines, text) + Copies(post, text)
      BY <2>4, <2>5, CopiesOfBoth
    <3>2. Copies(post, text) = 0
      BY <2>3, <2>4, CopiesOfNone
    <3>3. Copies(lines, text) \in Nat /\ Spared(doc, lines, text)
      BY <2>5, CopiesType DEF Sound
    <3>4. Copies(lines \o post, text) = Copies(lines, text)
      BY <3>1, <3>2, <3>3
    <3>. QED BY <3>3, <3>4 DEF Spared
  <2>. QED BY <2>1, <2>6, <2>7 DEF Sound
<1>. QED BY <1>2, <1>3 DEF RecoverData

LEMMA RecoverKeeps ==
  ASSUME NEW doc, IsPage(doc), NEW plain, NEW md \in Sound(doc, plain), NEW title \in {NoText, Title(doc)}
  PROVE  Recover(doc, md, title) \in Sound(doc, plain)
<1>. DEFINE titled == RecoverTitle(doc, md, title)
            announced == RecoverAnnouncements(doc, titled)
            headed == RecoverSectionHeadings(doc, announced)
            linked == RecoverFooterCta(doc, headed)
            mapped == RecoverFooterSitemap(doc, linked)
<1>1. titled \in Sound(doc, plain)
  BY TitleKeeps
<1>. HIDE DEF titled
<1>2. announced \in Sound(doc, plain)
  BY <1>1, AnnouncementsKeep
<1>. HIDE DEF announced
<1>3. headed \in Sound(doc, plain)
  BY <1>2, SectionHeadingsKeep
<1>. HIDE DEF headed
<1>4. linked \in Sound(doc, plain)
  BY <1>3, FooterCtaKeeps
<1>. HIDE DEF linked
<1>5. mapped \in Sound(doc, plain)
  BY <1>4, SitemapKeeps
<1>6. Recover(doc, md, title) = RecoverData(doc, mapped)
  BY DEF Recover, titled, announced, headed, linked, mapped
<1>. HIDE DEF mapped
<1>. QED BY <1>5, <1>6, DataKeeps

-----------------------------------------------------------------------------
(* An element and what is above it are in a line; elements beside each     *)
(* other are on no line together.                                          *)
Line(doc, n) == {n} \cup Above(doc, n)
Apart(doc, a, b) == Within(doc, a) \cap Within(doc, b) = {}

LEMMA LineFacts ==
  ASSUME NEW doc, IsPage(doc)
  PROVE  /\ \A n \in DOMAIN doc : Line(doc, n) \subseteq 1..n /\ Line(doc, n) \subseteq DOMAIN doc
         /\ \A n \in DOMAIN doc : n # 1 => /\ Above(doc, n) = Line(doc, doc[n].up)
                                           /\ doc[n].up \in 1..(n - 1) /\ doc[n].up \in DOMAIN doc
         /\ \A n \in DOMAIN doc : \A m \in Within(doc, n) : n \in Line(doc, m)
         /\ Above(doc, 1) = {}
<1>1. DOMAIN doc = 1..Len(doc) /\ Len(doc) \in Nat
  BY DEF IsPage
<1>2. ASSUME NEW n \in DOMAIN doc
      PROVE  Line(doc, n) \subseteq 1..n /\ Line(doc, n) \subseteq DOMAIN doc
  <2>1. Above(doc, n) \subseteq 1..(n - 1)
    BY <1>1, AboveFacts
  <2>2. Line(doc, n) \subseteq 1..n
    BY <1>1, <2>1 DEF Line
  <2>. QED BY <1>1, <2>2
<1>3. ASSUME NEW n \in DOMAIN doc, n # 1
      PROVE  /\ Above(doc, n) = Line(doc, doc[n].up)
             /\ doc[n].up \in 1..(n - 1) /\ doc[n].up \in DOMAIN doc
  <2>1. n \in 2..Len(doc)
    BY <1>1, <1>3
  <2>2. doc[n].up \in 1..(n - 1)
    BY <2>1 DEF IsPage
  <2>3. doc[n].up \in DOMAIN doc
    BY <1>1, <2>2
  <2>. QED BY <2>1, <2>2, <2>3, AboveEquations DEF Line
<1>4. \A n \in DOMAIN doc : \A m \in Within(doc, n) : n \in Line(doc, m)
  BY WithinFacts DEF Line
<1>. QED BY <1>2, <1>3, <1>4, AboveEquations

LEMMA LineOrder ==
  ASSUME NEW doc, IsPage(doc)
  PROVE  \A y \in DOMAIN doc : \A a, b \in Line(doc, y) : a < b => a \in Above(doc, b)
<1>. DEFINE T == {n \in Nat : \A y \in DOMAIN doc : y <= n =>
                    \A a, b \in Line(doc, y) : a < b => a \in Above(doc, b)}
<1>0. DOMAIN doc = 1..Len(doc) /\ Len(doc) \in Nat
  BY DEF IsPage
<1>1. 0 \in T
  BY <1>0
<1>2. ASSUME NEW n \in Nat, n \in T PROVE n + 1 \in T
  <2>. SUFFICES ASSUME NEW y \in DOMAIN doc, y <= n + 1,
                       NEW a \in Line(doc, y), NEW b \in Line(doc, y), a < b
                PROVE  a \in Above(doc, b)
    OBVIOUS
  <2>0. y \in Nat /\ a \in 1..y /\ b \in 1..y /\ a # y
    BY <1>0, LineFacts
  <2>1. a \in Above(doc, y)
    BY <2>0 DEF Line
  <2>2. CASE b = y
    BY <2>1, <2>2
  <2>3. CASE b # y
    <3>1. b \in Above(doc, y) /\ y # 1
      BY <2>0, <2>3 DEF Line
    <3>2. a \in Line(doc, doc[y].up) /\ b \in Line(doc, doc[y].up)
          /\ doc[y].up \in DOMAIN doc /\ doc[y].up \in 1..(y - 1)
      BY <2>1, <3>1, LineFacts
    <3>3. doc[y].up <= n
      BY <2>0, <3>2
    <3>. QED BY <1>2, <3>2, <3>3
  <2>. QED BY <2>2, <2>3
<1>3. Nat \subseteq T
  <2>. HIDE DEF T
  <2>. QED BY <1>1, <1>2, SetInduction
<1>4. \A y \in DOMAIN doc : y \in T /\ y <= y
  BY <1>0, <1>3
<1>. QED BY <1>4

LEMMA NotInLine ==
  ASSUME NEW doc, IsPage(doc), NEW y \in DOMAIN doc, NEW a \in Line(doc, y), NEW b \in Line(doc, y),
         a # 1, b # 1, a # b
  PROVE  doc[a].up # doc[b].up
<1>1. a \in DOMAIN doc /\ b \in DOMAIN doc /\ a \in Nat /\ b \in Nat
  <2>1. Line(doc, y) \subseteq DOMAIN doc /\ DOMAIN doc \subseteq Nat
    BY LineFacts DEF IsPage
  <2>. QED BY <2>1
<1>2. ASSUME NEW m \in Line(doc, y), NEW n \in Line(doc, y), m < n, n # 1, m # 1,
             m \in DOMAIN doc, n \in DOMAIN doc, doc[m].up = doc[n].up
      PROVE  FALSE
  <2>1. m \in Line(doc, doc[n].up) /\ doc[n].up \in DOMAIN doc
    BY <1>2, LineOrder, LineFacts
  <2>2. m \in 1..doc[m].up /\ doc[m].up \in 1..(m - 1) /\ m \in Nat
    BY <1>2, <2>1, LineFacts DEF IsPage
  <2>. QED BY <2>2
<1>3. a < b \/ b < a
  BY <1>1
<1>. QED BY <1>1, <1>2, <1>3

LEMMA ApartFacts ==
  ASSUME NEW doc, IsPage(doc), NEW a \in DOMAIN doc, NEW b \in DOMAIN doc
  PROVE  /\ Apart(doc, a, b) => Apart(doc, b, a)
         /\ a \notin Line(doc, b) /\ b \notin Line(doc, a) => Apart(doc, a, b)
<1>1. Apart(doc, a, b) => Apart(doc, b, a)
  BY DEF Apart
<1>2. ASSUME NEW y \in Within(doc, a) \cap Within(doc, b)
      PROVE  a \in Line(doc, b) \/ b \in Line(doc, a)
  <2>1. y \in DOMAIN doc /\ a \in Line(doc, y) /\ b \in Line(doc, y)
    BY LineFacts, WithinFacts
  <2>2. a \in Nat /\ b \in Nat
    BY DEF IsPage
  <2>3. a < b \/ b < a \/ a = b
    BY <2>2
  <2>. QED BY <2>1, <2>3, LineOrder DEF Line
<1>. QED BY <1>1, <1>2 DEF Apart

(* An element beside one on a line is apart from the line, and from those  *)
(* beside it on the same place or above.                                   *)
LEMMA BesideFacts ==
  ASSUME NEW doc, IsPage(doc), NEW best \in DOMAIN doc, NEW p \in Line(doc, best), p # 1,
         NEW m \in Beside(doc, p)
  PROVE  /\ m \in DOMAIN doc /\ m # 1 /\ doc[m].up = doc[p].up /\ m # p /\ p \in DOMAIN doc
         /\ Apart(doc, best, m)
         /\ \A n \in Beside(doc, p) : n # m => Apart(doc, m, n)
         /\ \A q \in Line(doc, best) : q # 1 /\ q < p => \A n \in Beside(doc, q) : Apart(doc, m, n)
<1>0. DOMAIN doc = 1..Len(doc) /\ Len(doc) \in Nat /\ Line(doc, best) \subseteq DOMAIN doc
  BY LineFacts DEF IsPage
<1>1. ASSUME NEW q, NEW n \in Beside(doc, q)
      PROVE  n \in DOMAIN doc /\ n # 1 /\ doc[n].up = doc[q].up /\ n # q
  BY <1>0 DEF Beside, Tagged
<1>2. m \in DOMAIN doc /\ m # 1 /\ doc[m].up = doc[p].up /\ m # p /\ p \in DOMAIN doc
  BY <1>0, <1>1
<1>3. /\ Above(doc, m) = Above(doc, p) /\ Above(doc, m) = Line(doc, doc[m].up)
      /\ doc[m].up \in DOMAIN doc /\ doc[m].up \in 1..(m - 1) /\ doc[m].up \in 1..(p - 1)
  BY <1>2, LineFacts
<1>4. p \in 1..best /\ best \in Nat /\ m \in Nat /\ p \in Nat
  BY <1>0, <1>2, LineFacts
<1>5. Apart(doc, best, m)
  <2>1. m \notin Line(doc, best)
    BY <1>2, NotInLine
  <2>2. best \notin Line(doc, m)
    <3>. SUFFICES ASSUME best \in Line(doc, m) PROVE FALSE
      OBVIOUS
    <3>1. best \in Above(doc, m)
      BY <2>1 DEF Line
    <3>2. best \in 1..doc[m].up
      BY <1>3, <3>1, LineFacts
    <3>. QED BY <1>3, <1>4, <3>2
  <2>. QED BY <1>2, <2>1, <2>2, ApartFacts
<1>6. ASSUME NEW n \in Beside(doc, p), n # m PROVE Apart(doc, m, n)
  <2>1. n \in DOMAIN doc /\ n # 1 /\ doc[n].up = doc[m].up
    BY <1>1, <1>2
  <2>2. Above(doc, n) = Above(doc, m) /\ doc[n].up \in 1..(n - 1) /\ n \in Nat
    BY <1>0, <1>3, <2>1, LineFacts
  <2>3. Above(doc, m) \subseteq 1..doc[m].up
    BY <1>3, LineFacts
  <2>4. m \notin Above(doc, m) /\ n \notin Above(doc, m)
    BY <1>3, <1>4, <2>1, <2>2, <2>3
  <2>. QED BY <1>2, <1>6, <2>1, <2>2, <2>4, ApartFacts DEF Line
<1>7. ASSUME NEW q \in Line(doc, best), q # 1, q < p, NEW n \in Beside(doc, q) PROVE Apart(doc, m, n)
  <2>1. n \in DOMAIN doc /\ n # 1 /\ doc[n].up = doc[q].up /\ n # q /\ q \in DOMAIN doc /\ q \in Nat
    BY <1>0, <1>1
  <2>2. q \in Above(doc, p)
    BY <1>7, LineOrder
  <2>3. q \in Line(doc, doc[m].up)
    BY <1>3, <2>2
  <2>4. n \notin Line(doc, m)
    <3>1. n \notin Line(doc, doc[m].up)
      BY <1>3, <1>7, <2>1, <2>3, NotInLine
    <3>2. n # m
      <4>. SUFFICES ASSUME n = m PROVE FALSE
        OBVIOUS
      <4>1. q \in 1..doc[q].up /\ doc[q].up \in 1..(q - 1)
        BY <1>3, <1>7, <2>1, <2>3, LineFacts
      <4>. QED BY <2>1, <4>1
    <3>. QED BY <1>3, <3>1, <3>2 DEF Line
  <2>5. m \notin Line(doc, n)
    <3>. SUFFICES ASSUME m \in Line(doc, n) PROVE FALSE
      OBVIOUS
    <3>1. m # n
      BY <2>4 DEF Line
    <3>2. m \in Line(doc, doc[q].up) /\ doc[q].up \in DOMAIN doc /\ doc[q].up \in 1..(q - 1)
      BY <1>7, <2>1, <3>1, LineFacts DEF Line
    <3>3. m \in 1..doc[q].up /\ q \in 1..doc[m].up
      BY <1>3, <2>3, <3>2, LineFacts
    <3>. QED BY <1>3, <1>4, <2>1, <3>2, <3>3
  <2>. QED BY <1>2, <2>1, <2>4, <2>5, ApartFacts
<1>. QED BY <1>2, <1>5, <1>6, <1>7

-----------------------------------------------------------------------------
(* No two of the elements taken have an element in common.                 *)
Scattered(doc, s) == \A i, j \in DOMAIN s : i < j => Apart(doc, s[i], s[j])

LEMMA ScatteredBoth ==
  ASSUME NEW doc, NEW V, NEW s \in Seq(V), NEW t \in Seq(V),
         Scattered(doc, s), Scattered(doc, t),
         \A x \in Range(s), y \in Range(t) : Apart(doc, x, y)
  PROVE  Scattered(doc, s \o t)
<1>. DEFINE all == s \o t
            N == Len(s)
            P == Len(t)
<1>1. /\ DOMAIN all = 1..(N + P) /\ N \in Nat /\ P \in Nat
      /\ \A k \in 1..N : all[k] = s[k]
      /\ \A k \in (N + 1)..(N + P) : all[k] = t[k - N]
      /\ DOMAIN s = 1..N /\ DOMAIN t = 1..P
  BY ConcatFacts
<1>. HIDE DEF all, N, P
<1>2. ASSUME NEW i \in 1..(N + P), NEW j \in 1..(N + P), i < j PROVE Apart(doc, all[i], all[j])
  <2>1. CASE j <= N
    <3>1. i \in 1..N /\ j \in 1..N
      BY <1>1, <1>2, <2>1
    <3>. QED BY <1>1, <1>2, <3>1 DEF Scattered
  <2>2. CASE ~(i <= N)
    <3>1. /\ i \in (N + 1)..(N + P) /\ j \in (N + 1)..(N + P)
          /\ i - N \in 1..P /\ j - N \in 1..P /\ i - N < j - N
      BY <1>1, <1>2, <2>2
    <3>. QED BY <1>1, <3>1 DEF Scattered
  <2>3. CASE i <= N /\ ~(j <= N)
    <3>1. i \in 1..N /\ j \in (N + 1)..(N + P) /\ j - N \in 1..P
      BY <1>1, <1>2, <2>3
    <3>2. s[i] \in Range(s) /\ t[j - N] \in Range(t)
      BY <1>1, <3>1 DEF Range
    <3>. QED BY <1>1, <3>1, <3>2
  <2>. QED BY <2>1, <2>2, <2>3
<1>. QED BY <1>1, <1>2 DEF Scattered, all

LEMMA CandidatesScattered == ASSUME NEW doc, IsPage(doc), NEW best \in DOMAIN doc
  PROVE  Scattered(doc, <<best>> \o SiblingSections(doc, best))
<1>. DEFINE above == (Above(doc, best) \cup {best}) \ {1}
            path == Reverse(InOrder(above))
            fit(l) == {m \in Beside(doc, path[l]) : Clear(doc, m) /\ Substantial(doc, m)}
            beside(l) == IF l > Len(path) THEN <<>> ELSE InOrder(fit(l))
            D == DOMAIN doc
<1>1. SiblingSections(doc, best) = (beside(1) \o beside(2)) \o beside(3)
  BY DEF SiblingSections
<1>2. above \subseteq Line(doc, best) /\ above \subseteq D /\ 1 \notin above
      /\ D = 1..Len(doc) /\ D \subseteq Nat /\ IsFiniteSet(D)
  <2>1. Line(doc, best) \subseteq D
    BY LineFacts
  <2>. QED BY <2>1, WithinFacts DEF Line, IsPage
<1>3. /\ Len(path) \in Nat
      /\ \A l \in 1..Len(path) : path[l] \in above
      /\ \A k, l \in 1..Len(path) : k < l => path[l] < path[k]
  <2>. DEFINE order == InOrder(above)
              N == Len(order)
  <2>1. above \in SUBSET Nat /\ IsFiniteSet(above)
    BY <1>2, FS_Subset
  <2>. HIDE DEF above
  <2>2. /\ order \in Seq(above) /\ N \in Nat
        /\ \A j, k \in 1..N : j < k => order[j] < order[k]
    BY <2>1, InOrderFacts
  <2>. HIDE DEF order, N
  <2>3. Reverse(order) = [k \in 1..N |-> order[N - k + 1]]
    BY DEF Reverse, N
  <2>4. \A k \in 1..N : N - k + 1 \in 1..N
    BY <2>2
  <2>5. Len(Reverse(order)) = N /\ \A k \in 1..N : Reverse(order)[k] = order[N - k + 1]
    BY <2>2, <2>3
  <2>6. \A k \in 1..N : order[N - k + 1] \in above
    BY <2>2, <2>4 DEF N
  <2>7. ASSUME NEW k \in 1..N, NEW l \in 1..N, k < l PROVE order[N - l + 1] < order[N - k + 1]
    <3>1. N - l + 1 < N - k + 1
      BY <2>2, <2>7
    <3>. QED BY <2>2, <2>4, <3>1
  <2>. QED BY <2>2, <2>5, <2>6, <2>7 DEF order
<1>. HIDE DEF above, path
<1>4. ASSUME NEW l \in 1..3
      PROVE  /\ beside(l) \in Seq(D) /\ Scattered(doc, beside(l))
             /\ \A m \in Range(beside(l)) : l \in 1..Len(path) /\ m \in Beside(doc, path[l])
  <2>1. CASE l > Len(path)
    <3>1. beside(l) = <<>>
      BY <2>1
    <3>. HIDE DEF beside
    <3>. QED BY <3>1 DEF Scattered, Range
  <2>2. CASE ~(l > Len(path))
    <3>1. l \in 1..Len(path)
      BY <1>3, <2>2
    <3>2. path[l] \in Line(doc, best) /\ path[l] # 1
      BY <1>2, <1>3, <3>1
    <3>3. fit(l) \subseteq Beside(doc, path[l])
      OBVIOUS
    <3>. HIDE DEF fit
    <3>4. fit(l) \subseteq D
      BY <3>2, <3>3, BesideFacts
    <3>5. IsFiniteSet(fit(l)) /\ fit(l) \in SUBSET Nat
      BY <1>2, <3>4, FS_Subset
    <3>. DEFINE list == InOrder(fit(l))
    <3>6. list \in Seq(fit(l)) /\ IsInjective(list)
      BY <3>5, InOrderFacts
    <3>7. beside(l) = list
      BY <2>2
    <3>. HIDE DEF list, beside
    <3>8. \A k \in DOMAIN list : list[k] \in fit(l)
      BY <3>6
    <3>9. ASSUME NEW i \in DOMAIN list, NEW j \in DOMAIN list, i < j PROVE Apart(doc, list[i], list[j])
      <4>1. i # j
        <5>1. i \in Nat /\ j \in Nat
          BY <3>6
        <5>. QED BY <3>9, <5>1
      <4>2. list[i] # list[j]
        BY <3>6, <4>1 DEF IsInjective
      <4>. QED BY <3>2, <3>3, <3>8, <4>2, BesideFacts
    <3>. QED BY <3>1, <3>3, <3>4, <3>6, <3>7, <3>8, <3>9 DEF Scattered, Range
  <2>. QED BY <2>1, <2>2
<1>. HIDE DEF beside
<1>5. ASSUME NEW k \in 1..3, NEW l \in 1..3, k < l
      PROVE  \A m \in Range(beside(k)), n \in Range(beside(l)) : Apart(doc, m, n)
  <2>. SUFFICES ASSUME NEW m \in Range(beside(k)), NEW n \in Range(beside(l)) PROVE Apart(doc, m, n)
    OBVIOUS
  <2>1. /\ k \in 1..Len(path) /\ l \in 1..Len(path)
        /\ m \in Beside(doc, path[k]) /\ n \in Beside(doc, path[l])
    BY <1>4
  <2>2. /\ path[k] \in Line(doc, best) /\ path[k] # 1 /\ path[l] \in Line(doc, best) /\ path[l] # 1
        /\ path[l] < path[k]
    BY <1>2, <1>3, <1>5, <2>1
  <2>. QED BY <2>1, <2>2, BesideFacts
<1>6. ASSUME NEW l \in 1..3 PROVE \A m \in Range(beside(l)) : Apart(doc, best, m)
  <2>. SUFFICES ASSUME NEW m \in Range(beside(l)) PROVE Apart(doc, best, m)
    OBVIOUS
  <2>1. l \in 1..Len(path) /\ m \in Beside(doc, path[l])
    BY <1>4
  <2>2. path[l] \in Line(doc, best) /\ path[l] # 1
    BY <1>2, <1>3, <2>1
  <2>. QED BY <2>1, <2>2, BesideFacts
<1>7. /\ beside(1) \in Seq(D) /\ beside(2) \in Seq(D) /\ beside(3) \in Seq(D)
      /\ Scattered(doc, beside(1)) /\ Scattered(doc, beside(2)) /\ Scattered(doc, beside(3))
  BY <1>4
<1>. DEFINE two == beside(1) \o beside(2)
<1>8. two \in Seq(D) /\ Scattered(doc, two) /\ Range(two) = Range(beside(1)) \cup Range(beside(2))
  <2>1. \A m \in Range(beside(1)), n \in Range(beside(2)) : Apart(doc, m, n)
    BY <1>5
  <2>2. Scattered(doc, two)
    BY <1>7, <2>1, ScatteredBoth
  <2>3. Range(two) = Range(beside(1)) \cup Range(beside(2))
    BY <1>7, RangeConcatenation
  <2>. QED BY <1>7, <2>2, <2>3
<1>. HIDE DEF two
<1>. DEFINE three == two \o beside(3)
<1>9. three \in Seq(D) /\ Scattered(doc, three) /\ Range(three) = Range(two) \cup Range(beside(3))
  <2>1. \A m \in Range(two), n \in Range(beside(3)) : Apart(doc, m, n)
    BY <1>5, <1>8
  <2>2. Scattered(doc, three)
    BY <1>7, <1>8, <2>1, ScatteredBoth
  <2>3. Range(three) = Range(two) \cup Range(beside(3))
    BY <1>7, <1>8, RangeConcatenation
  <2>. QED BY <1>7, <1>8, <2>2, <2>3
<1>. HIDE DEF three
<1>10. <<best>> \in Seq(D) /\ Scattered(doc, <<best>>) /\ Range(<<best>>) = {best}
  BY DEF Scattered, Range
<1>11. \A m \in Range(<<best>>), n \in Range(three) : Apart(doc, m, n)
  <2>1. Range(three) = (Range(beside(1)) \cup Range(beside(2))) \cup Range(beside(3))
    BY <1>8, <1>9
  <2>2. /\ \A m \in Range(beside(1)) : Apart(doc, best, m)
        /\ \A m \in Range(beside(2)) : Apart(doc, best, m)
        /\ \A m \in Range(beside(3)) : Apart(doc, best, m)
    BY <1>6
  <2>. QED BY <1>10, <2>1, <2>2
<1>12. Scattered(doc, <<best>> \o three)
  BY <1>9, <1>10, <1>11, ScatteredBoth
<1>13. SiblingSections(doc, best) = three
  BY <1>1 DEF two, three
<1>. QED BY <1>12, <1>13

-----------------------------------------------------------------------------
(* What is taken are elements of the page, and converted they are markdown. *)
LEMMA BestIs == ASSUME NEW doc, IsPage(doc) PROVE BestNode(doc) \in DOMAIN doc
<1>. DEFINE better(n, best) ==
              /\ doc[n].tag \in {"article", "main", "div", "section"} /\ Clear(doc, n)
              /\ Rating(doc, n) > (IF best = 1 THEN 0 ELSE Rating(doc, best))
            look == [n \in DOMAIN doc |-> [best \in DOMAIN doc |-> IF better(n, best) THEN n ELSE best]]
<1>1. BestNode(doc) = Through(look, 1)
  BY DEF BestNode
<1>2. DOMAIN doc = 1..Len(doc) /\ Len(doc) \in Nat /\ 1 \in DOMAIN doc
  BY DEF IsPage
<1>. HIDE DEF better
<1>3. Len(look) = Len(doc)
  BY <1>2
<1>4. \A k \in 1..Len(doc) : \A best \in DOMAIN doc : look[k][best] \in DOMAIN doc
  BY <1>2
<1>. HIDE DEF look
<1>5. Through(look, 1) \in DOMAIN doc
  BY <1>2, <1>3, <1>4, ThroughKeeps
<1>. QED BY <1>1, <1>5

LEMMA SiblingsAre ==
  ASSUME NEW doc, IsPage(doc), NEW best \in DOMAIN doc
  PROVE  SiblingSections(doc, best) \in Seq(DOMAIN doc)
<1>. DEFINE path == Reverse(InOrder((Above(doc, best) \cup {best}) \ {1}))
            fit(l) == {m \in Beside(doc, path[l]) : Clear(doc, m) /\ Substantial(doc, m)}
            beside(l) == IF l > Len(path) THEN <<>> ELSE InOrder(fit(l))
<1>1. SiblingSections(doc, best) = beside(1) \o beside(2) \o beside(3)
  BY DEF SiblingSections
<1>2. ASSUME NEW l PROVE beside(l) \in Seq(DOMAIN doc)
  <2>1. DOMAIN doc = 1..Len(doc)
    BY DEF IsPage
  <2>2. fit(l) \subseteq DOMAIN doc
    BY <2>1 DEF Beside, Tagged
  <2>. HIDE DEF fit, path
  <2>3. InOrder(fit(l)) \in Seq(DOMAIN doc)
    BY <2>2, OrderedPlaces
  <2>4. <<>> \in Seq(DOMAIN doc)
    OBVIOUS
  <2>. QED BY <2>3, <2>4
<1>. HIDE DEF beside
<1>. QED BY <1>1, <1>2

LEMMA CandidatesAre == ASSUME NEW doc, IsPage(doc) PROVE Candidates(doc) \in Seq(DOMAIN doc)
<1>1. BestNode(doc) \in DOMAIN doc
  BY BestIs
<1>2. SiblingSections(doc, BestNode(doc)) \in Seq(DOMAIN doc)
  BY <1>1, SiblingsAre
<1>3. Candidates(doc) = <<BestNode(doc)>> \o SiblingSections(doc, BestNode(doc))
  BY DEF Candidates
<1>. QED BY <1>1, <1>2, <1>3

LEMMA LinesAre ==
  ASSUME NEW doc, IsPage(doc), NEW places \in SUBSET DOMAIN doc
  PROVE  LinesOf(doc, places) \in Markdown
<1>. DEFINE order == InOrder({n \in places : doc[n].text # NoText})
<1>1. LinesOf(doc, places) = [k \in DOMAIN order |-> MdLine(doc[order[k]].tag, doc[order[k]].text)]
  BY DEF LinesOf
<1>2. /\ Len(order) \in Nat /\ DOMAIN order = 1..Len(order)
      /\ \A k \in 1..Len(order) : order[k] \in DOMAIN doc
  BY OrderedPlaces
<1>. HIDE DEF order
<1>3. \A k \in 1..Len(order) : MdLine(doc[order[k]].tag, doc[order[k]].text) \in MdLines
  BY <1>2, LineTypes
<1>4. LinesOf(doc, places) \in Seq(MdLines)
  BY <1>1, <1>2, <1>3
<1>. QED BY <1>4, MarkdownIs

LEMMA ConvertedAre ==
  ASSUME NEW doc, IsPage(doc), NEW taken \in Seq(DOMAIN doc)
  PROVE  ToMarkdown(doc, taken) \in Markdown
<1>. DEFINE remaining == Remaining(doc, UNION {Within(doc, r) : r \in Range(taken)})
            lines(k) == LinesOf(doc, remaining \cap Within(doc, taken[k]))
            steps == [k \in DOMAIN taken |-> [md \in Markdown |-> md \o lines(k)]]
<1>1. ToMarkdown(doc, taken) = Through(steps, <<>>)
  BY DEF ToMarkdown, Each
<1>2. DOMAIN taken = 1..Len(taken) /\ Len(taken) \in Nat /\ \A k \in 1..Len(taken) : taken[k] \in DOMAIN doc
  OBVIOUS
<1>. HIDE DEF remaining
<1>3. ASSUME NEW k \in 1..Len(taken) PROVE lines(k) \in Seq(MdLines)
  <2>1. remaining \cap Within(doc, taken[k]) \in SUBSET DOMAIN doc
    BY <1>2, WithinFacts
  <2>. QED BY <2>1, LinesAre, MarkdownIs
<1>. HIDE DEF lines
<1>4. Len(steps) = Len(taken)
  BY <1>2
<1>5. ASSUME NEW k \in 1..Len(taken), NEW md \in Markdown PROVE steps[k][md] \in Markdown
  <2>1. steps[k][md] = md \o lines(k)
    BY <1>2
  <2>. QED BY <1>3, <2>1, MarkdownIs
<1>6. <<>> \in Markdown
  BY MarkdownIs
<1>. HIDE DEF steps
<1>. QED BY <1>1, <1>2, <1>4, <1>5, <1>6, ThroughKeeps

(* Each line of it is of an element given, and no two of one.              *)
LEMMA LinesGiven ==
  ASSUME NEW doc, IsPage(doc), NEW places \in SUBSET DOMAIN doc,
         \A n \in places : doc[n].tag # "json", NEW text
  PROVE  Copies(LinesOf(doc, places), text) <= Cardinality(GivenAt(doc, places, text))
<1>. DEFINE some == {n \in places : doc[n].text # NoText}
            order == InOrder(some)
            lines == LinesOf(doc, places)
            C == CopiesAt(lines, text)
            G == GivenAt(doc, places, text)
            f == [k \in C |-> order[k]]
<1>1. lines = [k \in DOMAIN order |-> MdLine(doc[order[k]].tag, doc[order[k]].text)]
  BY DEF LinesOf
<1>2. /\ Len(order) \in Nat /\ DOMAIN order = 1..Len(order) /\ IsInjective(order)
      /\ \A k \in 1..Len(order) : order[k] \in places
  <2>1. some \subseteq DOMAIN doc /\ some \subseteq places
    OBVIOUS
  <2>2. IsFiniteSet(DOMAIN doc) /\ DOMAIN doc \subseteq Nat
    <3>1. DOMAIN doc = 1..Len(doc) /\ Len(doc) \in Nat
      BY DEF IsPage
    <3>. QED BY <3>1, FS_Interval
  <2>. HIDE DEF some
  <2>3. some \in SUBSET Nat /\ IsFiniteSet(some)
    BY <2>1, <2>2, FS_Subset
  <2>. QED BY <2>1, <2>3, OrderedPlaces, InOrderFacts
<1>. HIDE DEF order, lines
<1>3. Len(lines) = Len(order)
  BY <1>1, <1>2
<1>4. \A k \in C : k \in 1..Len(order) /\ order[k] \in G
  <2>. SUFFICES ASSUME NEW k \in C PROVE k \in 1..Len(order) /\ order[k] \in G
    OBVIOUS
  <2>1. k \in 1..Len(order) /\ lines[k].text = text /\ lines[k].kind \notin Unchecked
    BY <1>3 DEF CopiesAt
  <2>2. lines[k].text = doc[order[k]].text /\ lines[k].kind = doc[order[k]].tag
    BY <1>1, <1>2, <2>1 DEF MdLine
  <2>3. order[k] \in places
    BY <1>2, <2>1
  <2>. QED BY <2>1, <2>2, <2>3 DEF GivenAt
<1>5. IsFiniteSet(G)
  <2>1. IsFiniteSet(DOMAIN doc)
    <3>1. DOMAIN doc = 1..Len(doc) /\ Len(doc) \in Nat
      BY DEF IsPage
    <3>. QED BY <3>1, FS_Interval
  <2>2. G \subseteq DOMAIN doc
    BY DEF GivenAt
  <2>. QED BY <2>1, <2>2, FS_Subset
<1>. HIDE DEF C, G
<1>6. f \in Injection(C, G)
  <2>1. f \in [C -> G] /\ \A k \in C : f[k] = order[k]
    BY <1>4
  <2>2. \A j, k \in C : order[j] = order[k] => j = k
    BY <1>2, <1>4 DEF IsInjective
  <2>. QED BY <2>1, <2>2 DEF Injection, IsInjective
<1>. HIDE DEF f
<1>7. Cardinality(C) <= Cardinality(G)
  BY <1>5, <1>6, FS_Injection
<1>. QED BY <1>7 DEF Copies, C, G, lines

LEMMA ConvertedGiven ==
  ASSUME NEW doc, IsPage(doc), NEW taken \in Seq(DOMAIN doc), Scattered(doc, taken)
  PROVE  \A text \in Texts \cup {NoText} : Spared(doc, ToMarkdown(doc, taken), text)
<1>. DEFINE remaining == Remaining(doc, UNION {Within(doc, r) : r \in Range(taken)})
            of(k) == remaining \cap Within(doc, taken[k])
            upTo(n) == UNION {of(k) : k \in 1..n}
            lines(k) == LinesOf(doc, of(k))
            steps == [k \in DOMAIN taken |-> [md \in Markdown |-> md \o lines(k)]]
            N == Len(taken)
            reached == [n \in 0..N |->
              {md \in Markdown : \A text \in Texts \cup {NoText} :
                 Copies(md, text) <= Cardinality(GivenAt(doc, upTo(n), text))}]
<1>1. ToMarkdown(doc, taken) = Through(steps, <<>>)
  BY DEF ToMarkdown, Each
<1>2. /\ DOMAIN taken = 1..N /\ N \in Nat /\ \A k \in 1..N : taken[k] \in DOMAIN doc
      /\ IsFiniteSet(DOMAIN doc)
  <2>1. DOMAIN doc = 1..Len(doc) /\ Len(doc) \in Nat
    BY DEF IsPage
  <2>2. IsFiniteSet(DOMAIN doc)
    BY <2>1, FS_Interval
  <2>3. DOMAIN taken = 1..N /\ N \in Nat /\ \A k \in 1..N : taken[k] \in DOMAIN doc
    OBVIOUS
  <2>. QED BY <2>2, <2>3
<1>3. \A n \in remaining : doc[n].tag # "json"
  BY DEF Remaining, LeftOf, Selected, Scripts
<1>. HIDE DEF remaining, N
<1>4. \A k \in 1..N : of(k) \in SUBSET DOMAIN doc /\ \A n \in of(k) : doc[n].tag # "json"
  BY <1>2, <1>3, WithinFacts
<1>5. ASSUME NEW k \in 1..N PROVE of(k) \cap upTo(k - 1) = {}
  <2>. SUFFICES ASSUME NEW n \in of(k), NEW j \in 1..(k - 1), n \in of(j) PROVE FALSE
    OBVIOUS
  <2>1. j \in 1..N /\ j < k
    BY <1>2
  <2>2. Apart(doc, taken[j], taken[k])
    BY <1>2, <2>1 DEF Scattered
  <2>. QED BY <2>2 DEF Apart
<1>6. ASSUME NEW k \in 1..N, NEW text
      PROVE  Cardinality(GivenAt(doc, upTo(k), text)) =
               Cardinality(GivenAt(doc, upTo(k - 1), text)) + Cardinality(GivenAt(doc, of(k), text))
             /\ Cardinality(GivenAt(doc, upTo(k - 1), text)) \in Nat
             /\ Cardinality(GivenAt(doc, of(k), text)) \in Nat
  <2>. DEFINE A == GivenAt(doc, upTo(k - 1), text)
              B == GivenAt(doc, of(k), text)
  <2>1. upTo(k) = upTo(k - 1) \cup of(k)
    <3>1. 1..k = (1..(k - 1)) \cup {k}
      BY <1>2
    <3>. HIDE DEF of
    <3>. QED BY <3>1
  <2>2. upTo(k) \subseteq DOMAIN doc
    <3>1. \A j \in 1..k : j \in 1..N
      BY <1>2
    <3>. HIDE DEF of
    <3>. QED BY <1>4, <3>1
  <2>3. upTo(k - 1) \subseteq DOMAIN doc /\ of(k) \subseteq DOMAIN doc
    BY <2>1, <2>2
  <2>4. A \subseteq DOMAIN doc /\ B \subseteq DOMAIN doc /\ A \cap B = {}
        /\ GivenAt(doc, upTo(k), text) = A \cup B
    <3>. HIDE DEF upTo, of
    <3>. QED BY <1>5, <2>1, <2>3 DEF GivenAt
  <2>. HIDE DEF A, B
  <2>5. IsFiniteSet(A) /\ IsFiniteSet(B) /\ Cardinality(A) \in Nat /\ Cardinality(B) \in Nat
    BY <1>2, <2>4, FS_Subset, FS_CardinalityType
  <2>6. Cardinality(A \cup B) = Cardinality(A) + Cardinality(B) - Cardinality({})
    BY <2>4, <2>5, FS_Union
  <2>7. Cardinality({}) = 0
    BY FS_EmptySet
  <2>. HIDE DEF upTo, of
  <2>8. Cardinality(GivenAt(doc, upTo(k), text)) = Cardinality(A) + Cardinality(B)
    BY <2>4, <2>5, <2>6, <2>7
  <2>. QED BY <2>5, <2>8 DEF A, B
<1>7. ASSUME NEW k \in 1..N
      PROVE  /\ lines(k) \in Seq(MdLines)
             /\ \A text : Copies(lines(k), text) <= Cardinality(GivenAt(doc, of(k), text))
  <2>. HIDE DEF of
  <2>1. of(k) \in SUBSET DOMAIN doc /\ \A n \in of(k) : doc[n].tag # "json"
    BY <1>4
  <2>. QED BY <2>1, LinesAre, LinesGiven, MarkdownIs
<1>. HIDE DEF lines, of, upTo
<1>8. Len(steps) = N
  BY <1>2
<1>9. <<>> \in reached[0]
  <2>1. <<>> \in Markdown /\ <<>> \in Seq(MdLines) /\ 0 \in 0..N
    BY <1>2, MarkdownIs
  <2>2. ASSUME NEW text PROVE Copies(<<>>, text) <= Cardinality(GivenAt(doc, upTo(0), text))
    <3>1. CopiesAt(<<>>, text) = {}
      BY DEF CopiesAt
    <3>2. Copies(<<>>, text) = 0
      BY <3>1, FS_EmptySet DEF Copies
    <3>3. GivenAt(doc, upTo(0), text) = {}
      BY DEF upTo, GivenAt
    <3>4. Cardinality(GivenAt(doc, upTo(0), text)) = 0
      BY <3>3, FS_EmptySet
    <3>. QED BY <3>2, <3>4
  <2>. QED BY <2>1, <2>2
<1>10. ASSUME NEW k \in 1..N, NEW md \in reached[k - 1] PROVE steps[k][md] \in reached[k]
  <2>0. k - 1 \in 0..N /\ k \in 0..N
    BY <1>2
  <2>1. /\ md \in Markdown
        /\ \A text \in Texts \cup {NoText} : Copies(md, text) <= Cardinality(GivenAt(doc, upTo(k - 1), text))
    BY <2>0
  <2>2. md \in Seq(MdLines) /\ lines(k) \in Seq(MdLines)
    BY <1>7, <2>1, MarkdownIs
  <2>3. steps[k][md] = md \o lines(k)
    BY <1>2, <2>1
  <2>4. md \o lines(k) \in Markdown
    BY <2>2, MarkdownIs
  <2>5. ASSUME NEW text \in Texts \cup {NoText}
        PROVE  Copies(md \o lines(k), text) <= Cardinality(GivenAt(doc, upTo(k), text))
    <3>1. Copies(md \o lines(k), text) = Copies(md, text) + Copies(lines(k), text)
      BY <2>2, CopiesOfBoth
    <3>2. Copies(md, text) \in Nat /\ Copies(lines(k), text) \in Nat
      BY <2>2, CopiesType
    <3>. QED BY <1>6, <1>7, <2>1, <3>1, <3>2
  <2>6. md \o lines(k) \in reached[k]
    BY <2>0, <2>4, <2>5
  <2>. QED BY <2>3, <2>6
<1>. HIDE DEF steps, reached
<1>11. Through(steps, <<>>) \in reached[N]
  BY <1>2, <1>8, <1>9, <1>10, ThroughReaches
<1>12. PICK md : md = ToMarkdown(doc, taken)
  OBVIOUS
<1>13. \A text \in Texts \cup {NoText} : Copies(md, text) <= Cardinality(GivenAt(doc, upTo(N), text))
  <2>1. N \in 0..N
    BY <1>2
  <2>. QED BY <1>1, <1>11, <1>12, <2>1 DEF reached
<1>14. ASSUME NEW text \in Texts \cup {NoText} PROVE Spared(doc, md, text)
  <2>. DEFINE A == GivenAt(doc, upTo(N), text)
              B == GivenAt(doc, DOMAIN doc, text)
  <2>1. upTo(N) \subseteq DOMAIN doc
    BY <1>4 DEF upTo
  <2>2. A \subseteq B /\ B \subseteq DOMAIN doc
    BY <2>1 DEF GivenAt
  <2>. HIDE DEF A, B
  <2>3. IsFiniteSet(B) /\ Cardinality(B) \in Nat
    BY <1>2, <2>2, FS_Subset, FS_CardinalityType
  <2>4. Cardinality(A) <= Cardinality(B) /\ IsFiniteSet(A)
    BY <2>2, <2>3, FS_Subset
  <2>5. Cardinality(A) \in Nat
    BY <2>4, FS_CardinalityType
  <2>6. Copies(md, text) \in Nat
    <3>1. md \in Seq(MdLines)
      BY <1>12, ConvertedAre, MarkdownIs
    <3>. QED BY <3>1, CopiesType
  <2>7. Copies(md, text) <= Cardinality(A)
    BY <1>13 DEF A
  <2>8. Copies(md, text) <= Cardinality(B)
    BY <2>3, <2>4, <2>5, <2>6, <2>7
  <2>. QED BY <2>8 DEF Spared, B
<1>. QED BY <1>12, <1>14

(* Pages grow to pages.                                                    *)
LEMMA GraftGrows ==
  ASSUME NEW doc, IsPage(doc), NEW fragment \in Fragments, NEW into \in DOMAIN doc
  PROVE  IsPage(Graft(doc, fragment, into))
<1>. DEFINE moved(n) == [fragment[n] EXCEPT !.up = IF fragment[n].up = 0 THEN into ELSE Len(doc) + fragment[n].up]
            grafted == [n \in DOMAIN fragment |-> moved(n)]
            all == doc \o grafted
            N == Len(doc)
            F == Len(fragment)
<1>1. /\ fragment \in Seq(Element) /\ F \in Nat /\ DOMAIN fragment = 1..F
      /\ \A n \in 1..F : fragment[n] \in Element /\ fragment[n].up < n
  BY ExtractorAssumption
<1>2. /\ doc \in Seq(Element) /\ N \in Nat /\ N >= 1 /\ into \in 1..N /\ doc[1].tag = "body"
      /\ \A n \in 2..N : doc[n].up \in 1..(n - 1)
  BY DEF IsPage
<1>3. Graft(doc, fragment, into) = all
  BY DEF Graft
<1>. HIDE DEF N, F
<1>4. ASSUME NEW n \in 1..F
      PROVE  /\ moved(n) \in Element
             /\ moved(n).up = IF fragment[n].up = 0 THEN into ELSE N + fragment[n].up
             /\ moved(n).up \in 1..(N + n - 1)
  <2>. DEFINE up == IF fragment[n].up = 0 THEN into ELSE N + fragment[n].up
  <2>1. fragment[n] \in Element /\ fragment[n].up \in Nat /\ fragment[n].up < n
    BY <1>1 DEF Element
  <2>2. up \in Nat /\ up \in 1..(N + n - 1)
    BY <1>1, <1>2, <2>1
  <2>3. moved(n) = [fragment[n] EXCEPT !.up = up]
    BY DEF N
  <2>. HIDE DEF up, moved
  <2>4. moved(n) \in Element /\ moved(n).up = up
    BY <2>1, <2>2, <2>3 DEF Element
  <2>. QED BY <2>2, <2>4 DEF up
<1>. HIDE DEF moved
<1>5. grafted \in Seq(Element) /\ Len(grafted) = F /\ \A n \in 1..F : grafted[n] = moved(n)
  BY <1>1, <1>4
<1>. HIDE DEF grafted
<1>6. /\ all \in Seq(Element) /\ Len(all) = N + F
      /\ \A k \in 1..N : all[k] = doc[k]
      /\ \A k \in (N + 1)..(N + F) : all[k] = grafted[k - N]
  BY <1>2, <1>5, ConcatFacts DEF N
<1>. HIDE DEF all
<1>7. ASSUME NEW n \in 2..(N + F) PROVE all[n].up \in 1..(n - 1)
  <2>1. CASE n <= N
    <3>1. n \in 2..N /\ n \in 1..N
      BY <1>2, <2>1
    <3>. QED BY <1>2, <1>6, <3>1
  <2>2. CASE ~(n <= N)
    <3>1. n \in (N + 1)..(N + F) /\ n - N \in 1..F /\ N + (n - N) - 1 = n - 1
      BY <1>1, <1>2, <2>2
    <3>2. all[n] = moved(n - N)
      BY <1>5, <1>6, <3>1
    <3>3. moved(n - N).up \in 1..(N + (n - N) - 1)
      BY <1>4, <3>1
    <3>. QED BY <3>1, <3>2, <3>3
  <2>. QED BY <2>1, <2>2
<1>8. all[1].tag = "body" /\ Len(all) >= 1
  <2>1. 1 \in 1..N
    BY <1>2
  <2>. QED BY <1>1, <1>2, <1>6, <2>1
<1>9. IsPage(all)
  BY <1>6, <1>7, <1>8 DEF IsPage
<1>. QED BY <1>3, <1>9

-----------------------------------------------------------------------------
ExtractInv == IsPage(document) /\ markdown \in Sound(document, converted)

LEMMA ConvertedHeaded == ASSUME NEW doc, NEW plain \in Markdown PROVE plain \in Headed(doc, plain)
<1>1. \A k \in 1..Len(plain) : plain[k] \in Range(plain)
  BY MarkdownIs DEF Range
<1>. QED BY <1>1 DEF Headed, Exempt

LEMMA ExtractStarts == ExtractInit => ExtractInv
<1>. SUFFICES ASSUME ExtractInit PROVE ExtractInv
  OBVIOUS
<1>1. Body \in Element /\ Body.tag = "body"
  BY DEF Body, Element, Marks
<1>2. /\ document \in Seq(Element) /\ Len(document) = 1 /\ document[1].tag = "body"
      /\ \A n \in 2..Len(document) : FALSE
  BY <1>1 DEF ExtractInit
<1>3. IsPage(document)
  BY <1>2 DEF IsPage
<1>4. markdown \in Markdown /\ Len(markdown) = 0
  BY MarkdownIs DEF ExtractInit
<1>5. \A k \in 1..Len(markdown) : FALSE
  BY <1>4
<1>6. ASSUME NEW text PROVE Spared(document, markdown, text)
  <2>1. CopiesAt(markdown, text) = {}
    BY <1>5 DEF CopiesAt
  <2>2. Copies(markdown, text) = 0
    BY <2>1, FS_EmptySet DEF Copies
  <2>. QED BY <2>2 DEF Spared
<1>. QED BY <1>3, <1>4, <1>5, <1>6 DEF ExtractInv, Sound, Headed

(* What a page is after a fragment more, and what is taken of it.          *)
LEMMA GrowGives ==
  ASSUME IsPage(document), NEW fragment \in Fragments, NEW into \in DOMAIN document, Grow(fragment, into)
  PROVE  /\ IsPage(document') /\ converted' \in Sound(document', converted')
         /\ \E title \in {NoText, Title(document')} : markdown' = Recover(document', converted', title)
<1>1. document' = Graft(document, fragment, into)
  BY DEF Grow
<1>2. IsPage(document')
  BY <1>1, GraftGrows
<1>3. PICK doc, taken, plain : doc = document' /\ taken = chosen' /\ plain = converted'
  OBVIOUS
<1>4. IsPage(doc) /\ plain = ToMarkdown(doc, taken) /\ (taken = <<1>> \/ taken = Candidates(doc))
  BY <1>2, <1>3 DEF Grow
<1>5. taken \in Seq(DOMAIN doc) /\ Scattered(doc, taken)
  <2>1. 1 \in DOMAIN doc
    BY <1>4 DEF IsPage
  <2>2. <<1>> \in Seq(DOMAIN doc) /\ Scattered(doc, <<1>>)
    BY <2>1 DEF Scattered
  <2>3. Candidates(doc) \in Seq(DOMAIN doc) /\ Scattered(doc, Candidates(doc))
    BY <1>4, BestIs, CandidatesAre, CandidatesScattered DEF Candidates
  <2>. QED BY <1>4, <2>2, <2>3
<1>6. plain \in Markdown /\ \A text \in Texts \cup {NoText} : Spared(doc, plain, text)
  BY <1>4, <1>5, ConvertedAre, ConvertedGiven
<1>7. plain \in Sound(doc, plain)
  BY <1>6, ConvertedHeaded DEF Sound
<1>8. \E title \in {NoText, Title(doc)} : markdown' = Recover(doc, plain, title)
  BY <1>3 DEF Grow
<1>. QED BY <1>2, <1>3, <1>7, <1>8

LEMMA ExtractStep == ExtractInv /\ [ExtractNext]_extractVars => ExtractInv'
<1>. SUFFICES ASSUME ExtractInv, [ExtractNext]_extractVars PROVE ExtractInv'
  OBVIOUS
<1>1. ASSUME NEW fragment \in Fragments, NEW into \in DOMAIN document, Grow(fragment, into)
      PROVE  ExtractInv'
  <2>1. IsPage(document)
    BY DEF ExtractInv
  <2>2. /\ IsPage(document') /\ converted' \in Sound(document', converted')
        /\ \E title \in {NoText, Title(document')} : markdown' = Recover(document', converted', title)
    BY <1>1, <2>1, GrowGives
  <2>3. PICK doc, plain, title : /\ doc = document' /\ plain = converted'
                                 /\ title \in {NoText, Title(document')}
                                 /\ markdown' = Recover(document', converted', title)
    BY <2>2
  <2>4. IsPage(doc) /\ plain \in Sound(doc, plain) /\ title \in {NoText, Title(doc)}
    BY <2>2, <2>3
  <2>5. Recover(doc, plain, title) \in Sound(doc, plain)
    BY <2>4, RecoverKeeps
  <2>. QED BY <2>2, <2>3, <2>5 DEF ExtractInv
<1>2. ASSUME UNCHANGED extractVars PROVE ExtractInv'
  BY <1>2 DEF ExtractInv, extractVars
<1>. QED BY <1>1, <1>2 DEF ExtractNext

LEMMA SparedMeans == ExtractInv => NothingTwice
<1>. SUFFICES ASSUME ExtractInv, NEW k \in DOMAIN markdown
              PROVE  Copies(markdown, markdown[k].text) <=
                       Max({1, Cardinality(GivenAt(document, DOMAIN document, markdown[k].text))})
  <2>1. markdown \in Seq(MdLines) => DOMAIN markdown = 1..Len(markdown)
    OBVIOUS
  <2>2. ExtractInv => markdown \in Seq(MdLines)
    BY MarkdownIs DEF ExtractInv, Sound, Headed
  <2>. QED BY <2>1, <2>2 DEF NothingTwice, Copies, CopiesAt, GivenAt, Unchecked
<1>. DEFINE text == markdown[k].text
            onPage == Cardinality(GivenAt(document, DOMAIN document, text))
<1>1. markdown \in Seq(MdLines) /\ IsPage(document)
  BY MarkdownIs DEF ExtractInv, Sound, Headed
<1>2. text \in Texts \cup {NoText}
  <2>1. markdown[k] \in MdLines
    BY <1>1
  <2>. QED BY <2>1 DEF MdLines
<1>. HIDE DEF text
<1>3. Spared(document, markdown, text)
  BY <1>2 DEF ExtractInv, Sound
<1>4. Copies(markdown, text) \in Nat
  BY <1>1, CopiesType
<1>5. onPage \in Nat
  <2>1. DOMAIN document = 1..Len(document) /\ Len(document) \in Nat
    BY <1>1 DEF IsPage
  <2>2. IsFiniteSet(DOMAIN document)
    BY <2>1, FS_Interval
  <2>3. GivenAt(document, DOMAIN document, text) \subseteq DOMAIN document
    BY DEF GivenAt
  <2>. QED BY <2>2, <2>3, FS_Subset, FS_CardinalityType
<1>6. Copies(markdown, text) <= 1 \/ Copies(markdown, text) <= onPage
  BY <1>3 DEF Spared
<1>. HIDE DEF onPage
<1>7. Max({1, onPage}) >= 1 /\ Max({1, onPage}) >= onPage /\ Max({1, onPage}) \in Nat
  <2>1. {1, onPage} \in SUBSET (0..(onPage + 1)) /\ {1, onPage} # {} /\ onPage + 1 \in Nat
    BY <1>5
  <2>2. Max({1, onPage}) \in {1, onPage} /\ \A i \in {1, onPage} : Max({1, onPage}) >= i
    BY <2>1, MaxFacts
  <2>. QED BY <1>5, <2>2
<1>8. Copies(markdown, text) <= Max({1, onPage})
  BY <1>4, <1>5, <1>6, <1>7
<1>. QED BY <1>8 DEF text, onPage

(* A heading brought back stands over text of its own section, whatever    *)
(* is brought back later.                                                  *)
THEOREM HeadingsStayOverText == ExtractSpec => []HeadingOverOwnText
<1>1. ExtractInv => HeadingOverOwnText
  BY HeadedMeans DEF ExtractInv, Sound
<1>. QED BY <1>1, ExtractStarts, ExtractStep, PTL DEF ExtractSpec

(* A text is there no more often than the page gives it: what is taken has *)
(* no element twice, and what is brought back was not there.               *)
THEOREM BroughtBackOnce == ExtractSpec => []NothingTwice
BY SparedMeans, ExtractStarts, ExtractStep, PTL DEF ExtractSpec
=============================================================================
