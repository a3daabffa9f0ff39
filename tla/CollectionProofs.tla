--------------------------- MODULE CollectionProofs ---------------------------
(***************************************************************************)
(* Proofs about the parts that collect: Discovery, for every site, cyclic  *)
(* or shared as it may be, every pattern of failed fetches and all limits; *)
(* and Fusion, for any engines, answers, failures, panics and limits. What *)
(* a recursive function computes is shown by induction, which rests on the *)
(* least number of a set: no theorem with an operator as its parameter can *)
(* be cited.                                                               *)
(***************************************************************************)
EXTENDS Discovery, Fusion, FiniteSetTheorems, SequenceTheorems, WellFoundedInduction, TLAPS

-----------------------------------------------------------------------------
(* Induction on the naturals, for sets rather than for predicates: a set   *)
(* of naturals that is not empty has a least element.                      *)
LEMMA Least ==
  ASSUME NEW T \in SUBSET Nat, T # {}
  PROVE  \E m \in T : \A k \in T : m <= k
<1>. DEFINE R == {ss \in Nat \X Nat : ss[1] < ss[2]}
<1>1. IsWellFoundedOn(R, Nat)
  BY NatLessThanWellFounded DEF OpToRel
<1>3. \A k, m \in Nat : <<k, m>> \in R <=> k < m
  OBVIOUS
<1>. HIDE DEF R
<1>2. \E m \in T : \A k \in T : ~(<<k, m>> \in R)
  BY <1>1, WFMin
<1>4. PICK m \in T : \A k \in T : ~(<<k, m>> \in R)
  BY <1>2
<1>5. ASSUME NEW k \in T PROVE m <= k
  <2>1. m \in Nat /\ k \in Nat /\ ~(k < m)
    BY <1>3, <1>4
  <2>. QED BY ONLY <2>1
<1>. QED BY <1>5

LEMMA SetInduction ==
  ASSUME NEW T, 0 \in T, \A n \in Nat : n \in T => n + 1 \in T
  PROVE  Nat \subseteq T
<1>. DEFINE U == Nat \ T
<1>1. SUFFICES ASSUME U # {} PROVE FALSE
  OBVIOUS
<1>2. U \in SUBSET Nat
  OBVIOUS
<1>. HIDE DEF U
<1>3. PICK m \in U : \A k \in U : m <= k
  BY <1>1, <1>2, Least
<1>4. m \in Nat /\ m \notin T /\ m # 0
  BY <1>3 DEF U
<1>5. m - 1 \in Nat /\ m - 1 + 1 = m /\ ~(m <= m - 1)
  BY <1>4
<1>6. m - 1 \in T
  BY <1>3, <1>5 DEF U
<1>. QED BY <1>4, <1>5, <1>6

(* Definition by recursion: the function exists.                           *)
IsStep(F, V) == F \in [Nat \X V -> V]
Recurs(f, base, F, V) ==
  f \in [Nat -> V] /\ f[0] = base /\ \A n \in Nat : f[n + 1] = F[<<n, f[n]>>]

LEMMA Recursion ==
  ASSUME NEW V, NEW base, NEW F, base \in V, IsStep(F, V)
  PROVE  \E f : Recurs(f, base, F, V)
<1>0. F \in [Nat \X V -> V] /\ base \in V
  BY DEF IsStep
<1>. DEFINE upTo(n, g) == g[0] = base /\ \A k \in Nat : k < n => g[k + 1] = F[<<k, g[k]>>]
<1>1. \A n \in Nat : \E g \in [Nat -> V] : upTo(n, g)
  <2>. DEFINE T == {n \in Nat : \E g \in [Nat -> V] : upTo(n, g)}
  <2>1. 0 \in T
    <3>1. [k \in Nat |-> base] \in [Nat -> V] /\ upTo(0, [k \in Nat |-> base])
      BY <1>0
    <3>. QED BY <3>1
  <2>2. ASSUME NEW n \in Nat, n \in T PROVE n + 1 \in T
    <3>1. PICK g \in [Nat -> V] : upTo(n, g)
      BY <2>2
    <3>. DEFINE h == [k \in Nat |-> IF k = n + 1 THEN F[<<n, g[n]>>] ELSE g[k]]
    <3>2. h \in [Nat -> V]
      BY <1>0
    <3>3. /\ h[n + 1] = F[<<n, g[n]>>] /\ h[0] = g[0]
          /\ \A k \in Nat : k <= n => h[k] = g[k]
      OBVIOUS
    <3>. HIDE DEF h
    <3>4. ASSUME NEW k \in Nat, k < n + 1 PROVE h[k + 1] = F[<<k, h[k]>>]
      <4>1. CASE k = n
        BY <3>3, <4>1
      <4>2. CASE k # n
        <5>1. k < n /\ k <= n /\ k + 1 <= n /\ k + 1 \in Nat
          BY <3>4, <4>2
        <5>2. g[k + 1] = F[<<k, g[k]>>]
          BY <3>1, <5>1
        <5>. QED BY <3>3, <5>1, <5>2
      <4>. QED BY <4>1, <4>2
    <3>5. h[0] = base
      BY <3>1, <3>3
    <3>6. upTo(n + 1, h)
      BY <3>4, <3>5
    <3>7. n + 1 \in Nat
      OBVIOUS
    <3>. HIDE DEF upTo
    <3>. QED BY <3>2, <3>6, <3>7
  <2>. HIDE DEF T
  <2>3. Nat \subseteq T
    BY <2>1, <2>2, SetInduction
  <2>. QED BY <2>3 DEF T
<1>. DEFINE at == [n \in Nat |-> CHOOSE g \in [Nat -> V] : upTo(n, g)]
<1>2. \A n \in Nat : at[n] \in [Nat -> V] /\ upTo(n, at[n])
  <2>. HIDE DEF upTo
  <2>. QED BY <1>1
<1>. HIDE DEF at
<1>3. ASSUME NEW n \in Nat PROVE at[n + 1][n] = at[n][n]
  <2>. DEFINE T == {k \in Nat : k <= n => at[n + 1][k] = at[n][k]}
  <2>0. n + 1 \in Nat /\ \A k \in Nat : k < n => k < n + 1
    OBVIOUS
  <2>1. 0 \in T
    BY <1>2, <2>0
  <2>2. ASSUME NEW k \in Nat, k \in T PROVE k + 1 \in T
    <3>1. SUFFICES ASSUME k + 1 <= n PROVE at[n + 1][k + 1] = at[n][k + 1]
      OBVIOUS
    <3>2. k < n /\ k <= n
      BY <3>1
    <3>3. at[n + 1][k] = at[n][k]
      BY <2>2, <3>2
    <3>4. at[n][k + 1] = F[<<k, at[n][k]>>]
      BY <1>2, <3>2
    <3>5. at[n + 1][k + 1] = F[<<k, at[n + 1][k]>>]
      BY <1>2, <2>0, <3>2
    <3>. QED BY <3>3, <3>4, <3>5
  <2>3. n \in T
    <3>. HIDE DEF T
    <3>. QED BY <2>1, <2>2, SetInduction
  <2>. QED BY <2>3
<1>. DEFINE f == [n \in Nat |-> at[n][n]]
<1>4. f \in [Nat -> V] /\ f[0] = base
  BY <1>2
<1>5. ASSUME NEW n \in Nat PROVE f[n + 1] = F[<<n, f[n]>>]
  <2>1. n + 1 \in Nat /\ n < n + 1
    OBVIOUS
  <2>2. at[n + 1][n + 1] = F[<<n, at[n + 1][n]>>]
    BY <1>2, <2>1
  <2>. QED BY <1>3, <2>1, <2>2
<1>. QED BY <1>4, <1>5 DEF Recurs

(* A recursion of so many steps.                                           *)
IsTable(g, base, F, V, N) ==
  g \in [0..N -> V] /\ g[0] = base /\ \A n \in 1..N : g[n] = F[<<n - 1, g[n - 1]>>]

LEMMA Table ==
  ASSUME NEW V, NEW base, NEW F, base \in V, IsStep(F, V), NEW N \in Nat
  PROVE  \E g : IsTable(g, base, F, V, N)
<1>1. PICK f : Recurs(f, base, F, V)
  BY Recursion
<1>2. f \in [Nat -> V] /\ f[0] = base /\ \A n \in Nat : f[n + 1] = F[<<n, f[n]>>]
  BY <1>1 DEF Recurs
<1>. DEFINE g == [n \in 0..N |-> f[n]]
<1>3. g \in [0..N -> V] /\ g[0] = base
  BY <1>2
<1>4. ASSUME NEW n \in 1..N PROVE g[n] = F[<<n - 1, g[n - 1]>>]
  <2>1. n - 1 \in Nat /\ n - 1 + 1 = n /\ n - 1 \in 0..N /\ n \in 0..N
    OBVIOUS
  <2>. QED BY <1>2, <2>1
<1>. QED BY <1>3, <1>4 DEF IsTable

-----------------------------------------------------------------------------
(* Sequences: what a step adds to their ranges.                            *)
LEMMA IntervalNext == ASSUME NEW n \in Nat PROVE 1..(n + 1) = (1..n) \cup {n + 1}
OBVIOUS

LEMMA LastOrBefore == ASSUME NEW n \in Nat PROVE \A k \in 1..n : k = n \/ k \in 1..(n - 1)
OBVIOUS

LEMMA EmptyRange == Range(<<>>) = {}
BY DEF Range

LEMMA AppendRange ==
  ASSUME NEW V PROVE \A s \in Seq(V), e \in V :
    Append(s, e) \in Seq(V) /\ Range(Append(s, e)) = Range(s) \cup {e}
<1>. SUFFICES ASSUME NEW s \in Seq(V), NEW e \in V
              PROVE  Append(s, e) \in Seq(V) /\ Range(Append(s, e)) = Range(s) \cup {e}
  OBVIOUS
<1>1. /\ Append(s, e) \in Seq(V) /\ DOMAIN Append(s, e) = 1..(Len(s) + 1)
      /\ Append(s, e)[Len(s) + 1] = e /\ DOMAIN s = 1..Len(s) /\ Len(s) \in Nat
      /\ \A k \in 1..Len(s) : Append(s, e)[k] = s[k]
  OBVIOUS
<1>2. 1..(Len(s) + 1) = (1..Len(s)) \cup {Len(s) + 1}
  BY <1>1, IntervalNext
<1>3. ASSUME NEW x \in Range(Append(s, e)) PROVE x \in Range(s) \cup {e}
  <2>1. PICK k \in 1..(Len(s) + 1) : x = Append(s, e)[k]
    BY <1>1 DEF Range
  <2>. QED BY <1>1, <1>2, <2>1 DEF Range
<1>4. ASSUME NEW x \in Range(s) \cup {e} PROVE x \in Range(Append(s, e))
  <2>1. CASE x = e
    <3>1. Len(s) + 1 \in DOMAIN Append(s, e)
      BY <1>1, <1>2
    <3>. QED BY <1>1, <2>1, <3>1 DEF Range
  <2>2. CASE x \in Range(s)
    <3>1. PICK k \in DOMAIN s : x = s[k]
      BY <2>2 DEF Range
    <3>2. k \in DOMAIN Append(s, e) /\ x = Append(s, e)[k]
      BY <1>1, <1>2, <3>1
    <3>. QED BY <3>2 DEF Range
  <2>. QED BY <1>4, <2>1, <2>2
<1>. QED BY <1>1, <1>3, <1>4

-----------------------------------------------------------------------------
(* Sitemap discovery.                                                      *)
DiscoveryTypes ==
  /\ site \in Sites /\ maxFiles \in Nat /\ maxDepth \in Nat
  /\ finding \in {"configuration", "robots", "standard", "walk", "done"}
  /\ stack \in Seq(Seq(Files))
  /\ seenFiles \subseteq Files /\ failedFiles \subseteq seenFiles
  /\ collected \in Seq(Files) /\ filesFound \in Nat /\ roots \in Seq(Files)

LEMMA SiteTypes ==
  ASSUME DiscoveryTypes
  PROVE  /\ site.explicit \subseteq Files /\ site.listed \in Seq(Files)
         /\ site.standard \in Seq(Files) /\ site.kept \subseteq Files
         /\ site.kind \in [Files -> {"index", "pages", "bad"}]
         /\ site.nested \in [Files -> Seq(Files)]
         /\ Cardinality(site.explicit) <= 1
BY SiteAssumption DEF DiscoveryTypes, Site

LEMMA FilesFinite == /\ IsFiniteSet(Files) /\ Cardinality(Files) \in Nat
                     /\ Unlimited = Cardinality(Files) + 1 /\ Unlimited \in Nat
BY SiteAssumption, FS_CardinalityType DEF Unlimited

(* The only root of a configured sitemap. *)
LEMMA OnlyRoot ==
  ASSUME DiscoveryTypes, site.explicit # {}
  PROVE  SetToSeq(site.explicit) \in Seq(Files)
<1>. DEFINE S == site.explicit
<1>1. IsFiniteSet(S) /\ S \subseteq Files
  BY SiteTypes, FilesFinite, FS_Subset
<1>2. Cardinality(S) \in Nat /\ Cardinality(S) # 0 /\ Cardinality(S) <= 1
  BY <1>1, SiteTypes, FS_CardinalityType, FS_EmptySet
<1>3. Cardinality(S) = 1
  BY <1>2
<1>4. PICK e : S = {e}
  BY <1>1, <1>3, FS_Singleton
<1>5. [i \in 1..1 |-> e] \in [1..1 -> S] /\ IsInjective([i \in 1..1 |-> e])
  BY <1>4 DEF IsInjective
<1>6. SetToSeq(S) \in [1..1 -> S]
  BY <1>3, <1>5 DEF SetToSeq
<1>7. SetToSeq(S) \in [1..1 -> Files] /\ 1 \in Nat
  BY <1>1, <1>6
<1>. QED BY <1>7, SeqDef

LEMMA OneBelow ==
  ASSUME NEW N \in Nat, NEW n \in Nat, n + 1 \in 0..N
  PROVE  n \in 0..N /\ n + 1 \in 1..N /\ n + 1 # 0 /\ n + 1 - 1 = n /\ n + 1 \in 0..N
OBVIOUS

(* The filter keeps the order and what it keeps; here, its set. *)
LEMMA FilteredRange ==
  ASSUME DiscoveryTypes, NEW list \in Seq(Files)
  PROVE  /\ Filtered(list) \in Seq(Files)
         /\ Range(Filtered(list)) = Range(list) \cap site.kept
<1>. DEFINE F == [c \in Nat \X Seq(Files) |->
                    IF c[1] + 1 \in 1..Len(list) /\ list[c[1] + 1] \in site.kept
                    THEN Append(c[2], list[c[1] + 1]) ELSE c[2]]
            kept == CHOOSE kept : kept = [n \in 0..Len(list) |->
                      IF n = 0 THEN <<>>
                      ELSE IF list[n] \in site.kept THEN Append(kept[n - 1], list[n]) ELSE kept[n - 1]]
<1>0. Len(list) \in Nat /\ \A n \in 1..Len(list) : list[n] \in Files
  OBVIOUS
<1>1. F \in [Nat \X Seq(Files) -> Seq(Files)]
  BY <1>0
<1>2. \A n \in Nat, s \in Seq(Files) :
        F[<<n, s>>] = IF n + 1 \in 1..Len(list) /\ list[n + 1] \in site.kept
                      THEN Append(s, list[n + 1]) ELSE s
  OBVIOUS
<1>. HIDE DEF F
<1>3. PICK f \in [Nat -> Seq(Files)] : f[0] = <<>> /\ \A n \in Nat : f[n + 1] = F[<<n, f[n]>>]
  <2>. DEFINE V == Seq(Files)
              base == <<>>
  <2>1. base \in V /\ IsStep(F, V)
    BY <1>1 DEF IsStep
  <2>. HIDE DEF V, base
  <2>2. \E f : Recurs(f, base, F, V)
    BY <2>1, Recursion
  <2>. QED BY <2>2 DEF V, base, Recurs
<1>. DEFINE g == [n \in 0..Len(list) |-> f[n]]
<1>4. g = [n \in 0..Len(list) |->
             IF n = 0 THEN <<>>
             ELSE IF list[n] \in site.kept THEN Append(g[n - 1], list[n]) ELSE g[n - 1]]
  <2>1. ASSUME NEW n \in 0..Len(list), n # 0
        PROVE  g[n] = IF list[n] \in site.kept THEN Append(g[n - 1], list[n]) ELSE g[n - 1]
    <3>1. n - 1 \in Nat /\ n - 1 + 1 = n /\ n \in 1..Len(list) /\ n - 1 \in 0..Len(list)
      BY <1>0, <2>1
    <3>2. f[n - 1 + 1] = F[<<n - 1, f[n - 1]>>] /\ f[n - 1] \in Seq(Files)
      BY <1>3, <3>1
    <3>3. F[<<n - 1, f[n - 1]>>]
            = IF list[n] \in site.kept THEN Append(f[n - 1], list[n]) ELSE f[n - 1]
      BY <1>2, <3>1, <3>2
    <3>. QED BY <3>1, <3>2, <3>3
  <2>2. 0 \in 0..Len(list) /\ g[0] = <<>>
    BY <1>0, <1>3
  <2>. QED BY <2>1, <2>2
<1>5. kept = [n \in 0..Len(list) |->
                IF n = 0 THEN <<>>
                ELSE IF list[n] \in site.kept THEN Append(kept[n - 1], list[n]) ELSE kept[n - 1]]
  <2>. HIDE DEF g
  <2>. QED BY <1>4
<1>6. Filtered(list) = kept[Len(list)]
  BY DEF Filtered
<1>. DEFINE entry(n) == IF n = 0 THEN <<>>
                        ELSE IF list[n] \in site.kept THEN Append(kept[n - 1], list[n])
                        ELSE kept[n - 1]
            table == [n \in 0..Len(list) |-> entry(n)]
<1>a. \A n \in 0..Len(list) : kept[n] = entry(n)
  <2>1. kept = table
    BY <1>5
  <2>. HIDE DEF kept, entry
  <2>2. \A n \in 0..Len(list) : table[n] = entry(n)
    OBVIOUS
  <2>. HIDE DEF table
  <2>. QED BY <2>1, <2>2
<1>. HIDE DEF kept
<1>. DEFINE T == {n \in Nat : n \in 0..Len(list) =>
                    /\ kept[n] \in Seq(Files)
                    /\ Range(kept[n]) = {list[k] : k \in 1..n} \cap site.kept}
<1>7. 0 \in T
  <2>1. kept[0] = <<>>
    <3>1. 0 \in 0..Len(list)
      BY ONLY <1>0
    <3>. QED BY ONLY <3>1, <1>a
  <2>2. {list[k] : k \in 1..0} = {} /\ <<>> \in Seq(Files)
    OBVIOUS
  <2>3. Range(kept[0]) = {} /\ kept[0] \in Seq(Files)
    BY <2>1, <2>2, EmptyRange
  <2>. QED BY <2>2, <2>3
<1>8. ASSUME NEW n \in Nat, n \in T PROVE n + 1 \in T
  <2>0. SUFFICES ASSUME n + 1 \in 0..Len(list)
                 PROVE  /\ kept[n + 1] \in Seq(Files)
                        /\ Range(kept[n + 1]) = {list[k] : k \in 1..(n + 1)} \cap site.kept
    OBVIOUS
  <2>. HIDE DEF T
  <2>1. /\ n \in 0..Len(list) /\ n + 1 \in 1..Len(list) /\ n + 1 # 0 /\ n + 1 - 1 = n
        /\ n + 1 \in 0..Len(list)
    <3>1. Len(list) \in Nat
      BY ONLY <1>0
    <3>2. n + 1 \in 0..Len(list)
      BY <2>0
    <3>. QED BY ONLY n \in Nat, <3>1, <3>2, OneBelow
  <2>. USE DEF T
  <2>2. kept[n] \in Seq(Files) /\ Range(kept[n]) = {list[k] : k \in 1..n} \cap site.kept
    BY <1>8, <2>1
  <2>3. kept[n + 1] = IF list[n + 1] \in site.kept THEN Append(kept[n], list[n + 1]) ELSE kept[n]
    <3>1. kept[n + 1] = entry(n + 1)
      <4>. HIDE DEF entry
      <4>. QED BY ONLY <1>a, <2>1
    <3>2. entry(n + 1) = IF list[n + 1] \in site.kept THEN Append(kept[n], list[n + 1]) ELSE kept[n]
      BY ONLY <2>1
    <3>. HIDE DEF entry
    <3>. QED BY <3>1, <3>2
  <2>4. {list[k] : k \in 1..(n + 1)} = {list[k] : k \in 1..n} \cup {list[n + 1]}
    <3>1. 1..(n + 1) = (1..n) \cup {n + 1}
      BY IntervalNext
    <3>. QED BY <3>1
  <2>5. list[n + 1] \in Files
    BY <1>0, <2>1
  <2>6. /\ Append(kept[n], list[n + 1]) \in Seq(Files)
        /\ Range(Append(kept[n], list[n + 1])) = Range(kept[n]) \cup {list[n + 1]}
    <3>1. PICK s \in Seq(Files) : s = kept[n]
      BY <2>2
    <3>2. PICK e \in Files : e = list[n + 1]
      BY <2>5
    <3>a. \A t \in Seq(Files), d \in Files :
            Append(t, d) \in Seq(Files) /\ Range(Append(t, d)) = Range(t) \cup {d}
      BY AppendRange, Zenon
    <3>3. Append(s, e) \in Seq(Files) /\ Range(Append(s, e)) = Range(s) \cup {e}
      BY ONLY <3>1, <3>2, <3>a
    <3>. QED BY ONLY <3>1, <3>2, <3>3
  <2>7. CASE list[n + 1] \in site.kept
    BY ONLY <2>2, <2>3, <2>4, <2>6, <2>7
  <2>8. CASE list[n + 1] \notin site.kept
    BY <2>2, <2>3, <2>4, <2>8
  <2>. QED BY <2>7, <2>8
<1>9. Nat \subseteq T
  <2>. HIDE DEF T
  <2>. QED BY <1>7, <1>8, SetInduction
<1>10. /\ kept[Len(list)] \in Seq(Files)
       /\ Range(kept[Len(list)]) = {list[k] : k \in 1..Len(list)} \cap site.kept
  <2>1. Len(list) \in 0..Len(list)
    BY <1>0
  <2>. QED BY <1>0, <1>9, <2>1
<1>11. Range(list) = {list[k] : k \in 1..Len(list)}
  BY DEF Range
<1>. QED BY <1>6, <1>10, <1>11

-----------------------------------------------------------------------------
(* What has been read; what indexes among it list; what is still on a list.*)
ReadFiles == seenFiles \ failedFiles
ReadIn(files) ==
  UNION {Range(site.nested[f]) \cap site.kept :
           f \in {g \in files \cap ReadFiles : site.kind[g] = "index"}}
Pending(f) == \E k \in DOMAIN stack : f \in Range(stack[k])
Accounted(f) == f \in seenFiles \/ Pending(f)

(* Levels that account for the depth of every file met: each is at most an *)
(* index that has been read below the one before.                          *)
Levels(r) ==
  /\ r \in [Nat -> SUBSET Files]
  /\ \A n, m \in Nat : n <= m => r[n] \subseteq r[m]
  /\ r[0] \subseteq Range(roots)
  /\ \A n \in Nat : r[n + 1] \subseteq r[n] \cup ReadIn(r[n])
  /\ \A k \in DOMAIN stack : Range(stack[k]) \subseteq r[k - 1]
  /\ seenFiles \subseteq r[maxDepth]

Heights ==
  /\ Len(stack) <= maxDepth + 1 /\ Len(stack) <= Cardinality(seenFiles) + 1
  /\ finding # "walk" => stack = <<>>
  /\ finding \notin {"walk", "done"} => seenFiles = {} /\ roots = <<>> /\ collected = <<>>

Collecting ==
  IsInjective(collected) /\ Range(collected) = {f \in ReadFiles : site.kind[f] = "pages"}

NothingForgotten ==
  filesFound < maxFiles /\ maxDepth = Unlimited =>
    /\ \A f \in Range(roots) : Accounted(f)
    /\ \A f \in ReadFiles : site.kind[f] = "index"
         => \A g \in Range(site.nested[f]) \cap site.kept : Accounted(g)

DiscoveryInv ==
  /\ DiscoveryTypes /\ Heights /\ Collecting /\ NothingForgotten
  /\ \E r : Levels(r)

LEMMA HeadAndTail ==
  ASSUME NEW V PROVE \A s \in Seq(V) : s # <<>> =>
    /\ Head(s) \in V /\ Tail(s) \in Seq(V) /\ Range(s) = {Head(s)} \cup Range(Tail(s))
<1>. SUFFICES ASSUME NEW s \in Seq(V), s # <<>>
              PROVE  /\ Head(s) \in V /\ Tail(s) \in Seq(V)
                     /\ Range(s) = {Head(s)} \cup Range(Tail(s))
  OBVIOUS
<1>1. /\ Head(s) \in V /\ Tail(s) \in Seq(V) /\ Head(s) = s[1]
      /\ Len(s) \in Nat /\ Len(s) >= 1
      /\ DOMAIN s = 1..Len(s) /\ DOMAIN Tail(s) = 1..(Len(s) - 1)
      /\ \A k \in 1..(Len(s) - 1) : Tail(s)[k] = s[k + 1]
  OBVIOUS
<1>2. ASSUME NEW x \in Range(s) PROVE x \in {Head(s)} \cup Range(Tail(s))
  <2>1. PICK k \in 1..Len(s) : x = s[k]
    BY <1>1 DEF Range
  <2>2. CASE k = 1
    BY <1>1, <2>1, <2>2
  <2>3. CASE k # 1
    <3>1. k - 1 \in 1..(Len(s) - 1) /\ k - 1 + 1 = k
      BY <1>1, <2>3
    <3>2. x = Tail(s)[k - 1]
      BY <1>1, <2>1, <3>1
    <3>. QED BY <1>1, <3>1, <3>2 DEF Range
  <2>. QED BY <2>2, <2>3
<1>3. ASSUME NEW x \in {Head(s)} \cup Range(Tail(s)) PROVE x \in Range(s)
  <2>1. CASE x = Head(s)
    <3>1. 1 \in DOMAIN s
      BY <1>1
    <3>. QED BY <1>1, <2>1, <3>1 DEF Range
  <2>2. CASE x \in Range(Tail(s))
    <3>1. PICK k \in 1..(Len(s) - 1) : x = Tail(s)[k]
      BY <1>1, <2>2 DEF Range
    <3>2. k + 1 \in DOMAIN s /\ x = s[k + 1]
      BY <1>1, <3>1
    <3>. QED BY <3>2 DEF Range
  <2>. QED BY <1>3, <2>1, <2>2
<1>. QED BY <1>1, <1>2, <1>3

LEMMA RangeWithin == ASSUME NEW V PROVE \A s \in Seq(V) : Range(s) \subseteq V
BY DEF Range

(* The innermost list, and what is left of the stack without its head.     *)
LEMMA StackOps ==
  ASSUME DiscoveryTypes, stack # <<>>
  PROVE  /\ Len(stack) \in Nat /\ Len(stack) >= 1 /\ DOMAIN stack = 1..Len(stack)
         /\ Last(stack) \in Seq(Files) /\ Last(stack) = stack[Len(stack)]
         /\ Callers \in Seq(Seq(Files)) /\ DOMAIN Callers = 1..(Len(stack) - 1)
         /\ Len(Callers) = Len(stack) - 1
         /\ \A k \in 1..(Len(stack) - 1) : Callers[k] = stack[k]
<1>1. stack \in Seq(Seq(Files))
  BY DEF DiscoveryTypes
<1>2. /\ Len(stack) \in Nat /\ Len(stack) >= 1 /\ DOMAIN stack = 1..Len(stack)
      /\ stack[Len(stack)] \in Seq(Files)
  BY <1>1
<1>3. Callers = SubSeq(stack, 1, Len(stack) - 1)
  BY DEF Callers, Front
<1>4. /\ SubSeq(stack, 1, Len(stack) - 1) \in Seq(Seq(Files))
      /\ Len(SubSeq(stack, 1, Len(stack) - 1)) = Len(stack) - 1
      /\ DOMAIN SubSeq(stack, 1, Len(stack) - 1) = 1..(Len(stack) - 1)
      /\ \A k \in 1..(Len(stack) - 1) : SubSeq(stack, 1, Len(stack) - 1)[k] = stack[k]
  BY <1>1, <1>2
<1>. QED BY <1>2, <1>3, <1>4 DEF Last

LEMMA RestOps ==
  ASSUME DiscoveryTypes, stack # <<>>, Last(stack) # <<>>
  PROVE  /\ Url \in Files /\ Rest \in Seq(Seq(Files))
         /\ Len(Rest) = Len(stack) /\ DOMAIN Rest = 1..Len(stack)
         /\ \A k \in 1..(Len(stack) - 1) : Rest[k] = stack[k]
         /\ Range(stack[Len(stack)]) = {Url} \cup Range(Rest[Len(stack)])
<1>1. /\ Len(stack) \in Nat /\ Len(stack) >= 1
      /\ Last(stack) \in Seq(Files) /\ Last(stack) = stack[Len(stack)]
      /\ Callers \in Seq(Seq(Files)) /\ Len(Callers) = Len(stack) - 1
      /\ \A k \in 1..(Len(stack) - 1) : Callers[k] = stack[k]
  BY StackOps
<1>2. \A s \in Seq(Files) : s # <<>> =>
        /\ Head(s) \in Files /\ Tail(s) \in Seq(Files) /\ Range(s) = {Head(s)} \cup Range(Tail(s))
  BY HeadAndTail, Zenon
<1>3. PICK t \in Seq(Files) : t = Tail(Last(stack))
  BY <1>1, <1>2
<1>4. Rest = Append(Callers, t)
  BY <1>3 DEF Rest
<1>5. /\ Append(Callers, t) \in Seq(Seq(Files)) /\ Len(Append(Callers, t)) = Len(stack)
      /\ DOMAIN Append(Callers, t) = 1..Len(stack)
      /\ \A k \in 1..(Len(stack) - 1) : Append(Callers, t)[k] = Callers[k]
      /\ Append(Callers, t)[Len(stack)] = t
  BY <1>1
<1>. QED BY <1>1, <1>2, <1>3, <1>4, <1>5 DEF Url

LEMMA LevelsKept ==
  ASSUME NEW r, DiscoveryTypes, Levels(r), UNCHANGED <<site, maxDepth, roots>>,
         ReadFiles \subseteq ReadFiles',
         \A k \in DOMAIN stack' : Range(stack'[k]) \subseteq r[k - 1],
         seenFiles' \subseteq r[maxDepth]
  PROVE  Levels(r)'
<1>1. \A files : ReadIn(files) \subseteq ReadIn(files)'
  BY DEF ReadIn
<1>2. \A n \in Nat : r[n + 1] \subseteq r[n] \cup ReadIn(r[n])'
  BY <1>1 DEF Levels
<1>. QED BY <1>2 DEF Levels

LEMMA RestAccounts ==
  ASSUME DiscoveryTypes, stack # <<>>, Last(stack) # <<>>, stack' = Rest,
         seenFiles \subseteq seenFiles', Url \in seenFiles'
  PROVE  \A f : Accounted(f) => Accounted(f)'
<1>. SUFFICES ASSUME NEW f, Accounted(f), f \notin seenFiles' PROVE Pending(f)'
  BY DEF Accounted
<1>1. Pending(f) /\ f # Url
  BY DEF Accounted
<1>2. PICK k \in DOMAIN stack : f \in Range(stack[k])
  BY <1>1 DEF Pending
<1>3. k \in DOMAIN Rest /\ f \in Range(Rest[k])
  <2>1. /\ k \in 1..Len(stack) /\ DOMAIN Rest = 1..Len(stack) /\ Len(stack) \in Nat
        /\ \A n \in 1..(Len(stack) - 1) : Rest[n] = stack[n]
        /\ Range(stack[Len(stack)]) = {Url} \cup Range(Rest[Len(stack)])
    BY <1>2, StackOps, RestOps
  <2>2. CASE k = Len(stack)
    BY <1>1, <1>2, <2>1, <2>2
  <2>3. CASE k # Len(stack)
    <3>1. k \in 1..(Len(stack) - 1)
      BY <2>1, <2>3
    <3>. QED BY <1>2, <2>1, <3>1
  <2>. QED BY <2>2, <2>3
<1>. QED BY <1>3 DEF Pending

LEMMA RestLevels ==
  ASSUME NEW r, DiscoveryTypes, Heights, Levels(r), stack # <<>>, Last(stack) # <<>>
  PROVE  /\ \A k \in DOMAIN Rest : Range(Rest[k]) \subseteq r[k - 1]
         /\ Depth \in Nat /\ Depth <= maxDepth /\ Url \in r[Depth] /\ Url \in r[maxDepth]
<1>1. /\ DOMAIN stack = 1..Len(stack) /\ DOMAIN Rest = 1..Len(stack)
      /\ Len(stack) \in Nat /\ Len(stack) >= 1
      /\ \A n \in 1..(Len(stack) - 1) : Rest[n] = stack[n]
      /\ Range(stack[Len(stack)]) = {Url} \cup Range(Rest[Len(stack)])
  BY StackOps, RestOps
<1>2. \A k \in 1..Len(stack) : Range(stack[k]) \subseteq r[k - 1]
  BY <1>1 DEF Levels
<1>3. ASSUME NEW k \in 1..Len(stack) PROVE Range(Rest[k]) \subseteq r[k - 1]
  <2>1. CASE k = Len(stack)
    BY <1>1, <1>2, <2>1
  <2>2. CASE k # Len(stack)
    <3>1. k \in 1..(Len(stack) - 1)
      BY <1>1, <2>2, LastOrBefore
    <3>. QED BY <1>1, <1>2, <3>1
  <2>. QED BY <2>1, <2>2
<1>4. Depth \in Nat /\ Depth <= maxDepth /\ maxDepth \in Nat
  BY <1>1 DEF Depth, Heights, DiscoveryTypes
<1>5. Len(stack) \in 1..Len(stack)
  BY <1>1
<1>6. Url \in r[Depth]
  BY <1>1, <1>2, <1>5 DEF Depth
<1>7. Url \in r[maxDepth]
  BY <1>4, <1>6 DEF Levels
<1>. QED BY <1>1, <1>3, <1>4, <1>6, <1>7

(* A file that is skipped, cannot be fetched or is no index to follow:     *)
(* the walk goes on with what is left of the list.                         *)
LEMMA RestInv ==
  ASSUME DiscoveryInv, AtFile, stack' = Rest, UNCHANGED <<siteVars, finding, roots>>,
         seenFiles' = seenFiles \cup {Url}, failedFiles' \subseteq seenFiles',
         ReadFiles \subseteq ReadFiles', filesFound' \in Nat, filesFound <= filesFound',
         collected' \in Seq(Files), Collecting',
         \A f \in ReadFiles' \ ReadFiles :
           site.kind[f] = "index" => ~(filesFound' < maxFiles /\ maxDepth = Unlimited)
  PROVE  DiscoveryInv'
<1>0. DiscoveryTypes /\ Heights /\ NothingForgotten /\ stack # <<>> /\ Last(stack) # <<>>
  BY DEF DiscoveryInv, AtFile, Walking
<1>. USE <1>0
<1>1. Url \in Files /\ Rest \in Seq(Seq(Files)) /\ Len(Rest) = Len(stack)
  BY RestOps
<1>2. DiscoveryTypes'
  BY <1>1 DEF DiscoveryTypes, siteVars
<1>3. Heights'
  <2>1. Cardinality(seenFiles) <= Cardinality(seenFiles')
    <3>1. seenFiles \subseteq seenFiles' /\ seenFiles' \subseteq Files
      BY <1>1 DEF DiscoveryTypes
    <3>2. IsFiniteSet(seenFiles')
      BY <3>1, FilesFinite, FS_Subset
    <3>. QED BY <3>1, <3>2, FS_Subset
  <2>2. Cardinality(seenFiles) \in Nat /\ Cardinality(seenFiles') \in Nat /\ Len(stack) \in Nat
    <3>1. seenFiles \subseteq Files /\ seenFiles' \subseteq Files
      BY <1>1 DEF DiscoveryTypes
    <3>2. IsFiniteSet(seenFiles) /\ IsFiniteSet(seenFiles')
      BY <3>1, FilesFinite, FS_Subset
    <3>. QED BY <3>2, FS_CardinalityType, StackOps
  <2>3. Len(stack') <= Cardinality(seenFiles') + 1
    BY <1>1, <2>1, <2>2 DEF Heights
  <2>. QED BY <1>1, <2>3 DEF Heights, AtFile, Walking, siteVars
<1>4. \A f : Accounted(f) => Accounted(f)'
  BY RestAccounts
<1>5. NothingForgotten'
  <2>1. SUFFICES ASSUME filesFound' < maxFiles, maxDepth = Unlimited
                 PROVE  /\ \A f \in Range(roots) : Accounted(f)'
                        /\ \A f \in ReadFiles' : site.kind[f] = "index"
                             => \A g \in Range(site.nested[f]) \cap site.kept : Accounted(g)'
    BY DEF NothingForgotten, siteVars
  <2>2. filesFound < maxFiles
    BY <2>1 DEF DiscoveryTypes
  <2>. QED BY <1>4, <2>1, <2>2 DEF NothingForgotten
<1>6. PICK r : Levels(r)
  BY DEF DiscoveryInv
<1>7. Levels(r)'
  <2>1. /\ \A k \in DOMAIN Rest : Range(Rest[k]) \subseteq r[k - 1]
        /\ Url \in r[maxDepth]
    BY <1>6, RestLevels
  <2>2. seenFiles' \subseteq r[maxDepth]
    BY <1>6, <2>1 DEF Levels
  <2>. QED BY <1>6, <2>1, <2>2, LevelsKept DEF siteVars
<1>. QED BY <1>2, <1>3, <1>5, <1>7 DEF DiscoveryInv

LEMMA SkipInv == ASSUME DiscoveryInv, SkipSeen PROVE DiscoveryInv'
<1>1. /\ AtFile /\ Url \in seenFiles /\ stack' = Rest
      /\ UNCHANGED <<siteVars, finding, seenFiles, failedFiles, collected, filesFound, roots>>
  BY DEF SkipSeen
<1>2. seenFiles' = seenFiles \cup {Url} /\ ReadFiles' = ReadFiles
  BY <1>1 DEF ReadFiles
<1>3. Collecting'
  BY <1>1, <1>2 DEF DiscoveryInv, Collecting, siteVars
<1>4. failedFiles' \subseteq seenFiles' /\ filesFound' \in Nat /\ collected' \in Seq(Files)
  BY <1>1 DEF DiscoveryInv, DiscoveryTypes
<1>5. filesFound <= filesFound'
  BY <1>1 DEF DiscoveryInv, DiscoveryTypes
<1>. QED BY <1>1, <1>2, <1>3, <1>4, <1>5, RestInv

LEMMA FetchFailsInv == ASSUME DiscoveryInv, FetchFails PROVE DiscoveryInv'
<1>1. /\ AtFile /\ Url \notin seenFiles /\ stack' = Rest
      /\ seenFiles' = seenFiles \cup {Url} /\ failedFiles' = failedFiles \cup {Url}
      /\ UNCHANGED <<siteVars, finding, collected, filesFound, roots>>
  BY DEF FetchFails
<1>2. ReadFiles' = ReadFiles
  BY <1>1 DEF ReadFiles
<1>3. Collecting'
  BY <1>1, <1>2 DEF DiscoveryInv, Collecting, siteVars
<1>4. failedFiles' \subseteq seenFiles' /\ filesFound' \in Nat /\ collected' \in Seq(Files)
      /\ filesFound <= filesFound'
  BY <1>1 DEF DiscoveryInv, DiscoveryTypes
<1>. QED BY <1>1, <1>2, <1>3, <1>4, RestInv

(* A file that is read is collected if it is a set of pages. *)
LEMMA ReadCollects ==
  ASSUME DiscoveryInv, ReadFile
  PROVE  /\ Collecting' /\ collected' \in Seq(Files) /\ filesFound' \in Nat
         /\ filesFound < filesFound' /\ failedFiles' \subseteq seenFiles'
         /\ ReadFiles' = ReadFiles \cup {Url} /\ Url \notin ReadFiles
<1>0. DiscoveryTypes /\ Collecting /\ stack # <<>> /\ Last(stack) # <<>>
  BY DEF DiscoveryInv, ReadFile, AtFile, Walking
<1>1. /\ Url \notin seenFiles /\ seenFiles' = seenFiles \cup {Url} /\ filesFound' = filesFound + 1
      /\ collected' = IF site.kind[Url] = "pages" THEN Append(collected, Url) ELSE collected
      /\ failedFiles' = failedFiles /\ site' = site
  BY DEF ReadFile, siteVars
<1>2. Url \in Files /\ filesFound \in Nat /\ failedFiles \subseteq seenFiles
      /\ collected \in Seq(Files)
  BY <1>0, RestOps DEF DiscoveryTypes
<1>3. ReadFiles' = ReadFiles \cup {Url} /\ Url \notin ReadFiles
  BY <1>1, <1>2 DEF ReadFiles
<1>4. CASE site.kind[Url] # "pages"
  <2>1. collected' = collected
    BY <1>1, <1>4
  <2>2. Collecting'
    BY <1>0, <1>1, <1>3, <1>4, <2>1 DEF Collecting
  <2>. QED BY <1>1, <1>2, <1>3, <2>1, <2>2
<1>5. CASE site.kind[Url] = "pages"
  <2>1. PICK u \in Files : u = Url
    BY <1>2
  <2>2. collected' = Append(collected, u)
    BY <1>1, <1>5, <2>1
  <2>3. \A t \in Seq(Files), d \in Files :
          Append(t, d) \in Seq(Files) /\ Range(Append(t, d)) = Range(t) \cup {d}
    BY AppendRange, Zenon
  <2>4. collected' \in Seq(Files) /\ Range(collected') = Range(collected) \cup {u}
    BY <1>2, <2>2, <2>3
  <2>5. u \notin Range(collected)
    BY <1>0, <1>3, <2>1 DEF Collecting
  <2>6. IsInjective(collected')
    <3>1. /\ DOMAIN collected = 1..Len(collected) /\ Len(collected) \in Nat
          /\ DOMAIN Append(collected, u) = 1..(Len(collected) + 1)
          /\ Append(collected, u)[Len(collected) + 1] = u
          /\ \A k \in 1..Len(collected) : Append(collected, u)[k] = collected[k]
      BY <1>2
    <3>2. 1..(Len(collected) + 1) = (1..Len(collected)) \cup {Len(collected) + 1}
      BY <3>1, IntervalNext
    <3>3. \A k \in 1..Len(collected) : collected[k] # u
      BY <2>5, <3>1 DEF Range
    <3>4. \A a, b \in 1..Len(collected) : collected[a] = collected[b] => a = b
      BY <1>0, <3>1 DEF Collecting, IsInjective
    <3>. QED BY <2>2, <3>1, <3>2, <3>3, <3>4 DEF IsInjective
  <2>7. Range(collected') = {f \in ReadFiles' : site'.kind[f] = "pages"}
    BY <1>0, <1>1, <1>3, <1>5, <2>1, <2>4 DEF Collecting
  <2>. QED BY <1>1, <1>2, <1>3, <2>4, <2>6, <2>7 DEF Collecting
<1>. QED BY <1>4, <1>5

(* An index that is followed: its list is innermost now, and a level down. *)
LEMMA FollowInv ==
  ASSUME DiscoveryInv, ReadFile, site.kind[Url] = "index", Depth < maxDepth
  PROVE  DiscoveryInv'
<1>0. DiscoveryTypes /\ Heights /\ NothingForgotten /\ stack # <<>> /\ Last(stack) # <<>>
  BY DEF DiscoveryInv, ReadFile, AtFile, Walking
<1>. USE <1>0
<1>. DEFINE kids == Filtered(site.nested[Url])
<1>1. /\ Url \notin seenFiles /\ seenFiles' = seenFiles \cup {Url}
      /\ stack' = Append(Rest, kids) /\ failedFiles' = failedFiles
      /\ UNCHANGED <<site, maxFiles, maxDepth, finding, roots>> /\ finding = "walk"
  BY DEF ReadFile, AtFile, Walking, siteVars
<1>2. /\ Url \in Files /\ Rest \in Seq(Seq(Files)) /\ Len(Rest) = Len(stack)
      /\ DOMAIN Rest = 1..Len(stack) /\ Len(stack) \in Nat /\ Len(stack) >= 1
  BY RestOps, StackOps
<1>3. kids \in Seq(Files) /\ Range(kids) = Range(site.nested[Url]) \cap site.kept
  BY <1>2, SiteTypes, FilteredRange
<1>. HIDE DEF kids
<1>4. /\ Collecting' /\ collected' \in Seq(Files) /\ filesFound' \in Nat
      /\ filesFound < filesFound' /\ failedFiles' \subseteq seenFiles'
      /\ ReadFiles' = ReadFiles \cup {Url}
  BY ReadCollects
<1>5. /\ stack' \in Seq(Seq(Files)) /\ DOMAIN stack' = 1..(Len(stack) + 1)
      /\ Len(stack') = Len(stack) + 1 /\ stack'[Len(stack) + 1] = kids
      /\ \A k \in 1..Len(stack) : stack'[k] = Rest[k]
  BY <1>1, <1>2, <1>3
<1>6. DiscoveryTypes'
  BY <1>1, <1>2, <1>4, <1>5 DEF DiscoveryTypes
<1>7. Heights'
  <2>1. IsFiniteSet(seenFiles)
    BY FilesFinite, FS_Subset DEF DiscoveryTypes
  <2>2. Cardinality(seenFiles') = Cardinality(seenFiles) + 1 /\ Cardinality(seenFiles) \in Nat
    BY <1>1, <2>1, FS_AddElement, FS_CardinalityType
  <2>3. Len(stack') <= Cardinality(seenFiles') + 1
    BY <1>2, <1>5, <2>2 DEF Heights
  <2>4. Len(stack') <= maxDepth' + 1
    BY <1>1, <1>2, <1>5 DEF Depth, DiscoveryTypes
  <2>. QED BY <1>1, <2>3, <2>4 DEF Heights
<1>8. 1..(Len(stack) + 1) = (1..Len(stack)) \cup {Len(stack) + 1}
  BY <1>2, IntervalNext
<1>9. ASSUME NEW f, Accounted(f) PROVE Accounted(f)'
  <2>1. SUFFICES ASSUME f \notin seenFiles' PROVE Pending(f)'
    BY DEF Accounted
  <2>2. Pending(f) /\ f # Url
    BY <1>1, <1>9, <2>1 DEF Accounted
  <2>3. PICK k \in 1..Len(stack) : f \in Range(stack[k])
    BY <2>2, StackOps DEF Pending
  <2>4. f \in Range(Rest[k])
    <3>1. /\ \A n \in 1..(Len(stack) - 1) : Rest[n] = stack[n]
          /\ Range(stack[Len(stack)]) = {Url} \cup Range(Rest[Len(stack)])
      BY RestOps
    <3>2. k = Len(stack) \/ k \in 1..(Len(stack) - 1)
      BY <1>2, <2>3, LastOrBefore
    <3>. QED BY <2>2, <2>3, <3>1, <3>2
  <2>. QED BY <1>5, <1>8, <2>3, <2>4 DEF Pending
<1>10. \A f \in Range(kids) : Accounted(f)'
  <2>1. Len(stack) + 1 \in DOMAIN stack'
    BY <1>2, <1>5
  <2>. QED BY <1>5, <2>1 DEF Accounted, Pending
<1>11. NothingForgotten'
  <2>1. SUFFICES ASSUME filesFound' < maxFiles, maxDepth = Unlimited
                 PROVE  /\ \A f \in Range(roots) : Accounted(f)'
                        /\ \A f \in ReadFiles' : site.kind[f] = "index"
                             => \A g \in Range(site.nested[f]) \cap site.kept : Accounted(g)'
    BY <1>1 DEF NothingForgotten
  <2>2. filesFound < maxFiles
    BY <1>4, <2>1 DEF DiscoveryTypes
  <2>. QED BY <1>3, <1>4, <1>9, <1>10, <2>1, <2>2 DEF NothingForgotten
<1>12. PICK r : Levels(r)
  BY DEF DiscoveryInv
<1>. DEFINE deeper == [n \in Nat |-> IF n <= Depth THEN r[n] ELSE r[n] \cup Range(kids)]
<1>13. /\ \A k \in DOMAIN Rest : Range(Rest[k]) \subseteq r[k - 1]
       /\ Depth \in Nat /\ Depth <= maxDepth /\ Url \in r[Depth] /\ Url \in r[maxDepth]
  BY <1>12, RestLevels
<1>14. /\ r \in [Nat -> SUBSET Files]
       /\ \A n, m \in Nat : n <= m => r[n] \subseteq r[m]
       /\ r[0] \subseteq Range(roots)
       /\ \A n \in Nat : r[n + 1] \subseteq r[n] \cup ReadIn(r[n])
       /\ seenFiles \subseteq r[maxDepth]
  BY <1>12 DEF Levels
<1>15. Range(kids) \subseteq Files
  BY <1>3 DEF Range
<1>16. PICK s : /\ s \in [Nat -> SUBSET Files]
                 /\ \A n \in Nat : s[n] = IF n <= Depth THEN r[n] ELSE r[n] \cup Range(kids)
  <2>1. /\ deeper \in [Nat -> SUBSET Files]
        /\ \A n \in Nat : deeper[n] = IF n <= Depth THEN r[n] ELSE r[n] \cup Range(kids)
    BY <1>14, <1>15
  <2>. HIDE DEF deeper
  <2>. QED BY <2>1
<1>17. \A n, m \in Nat : n <= m => s[n] \subseteq s[m]
  <2>. SUFFICES ASSUME NEW n \in Nat, NEW m \in Nat, n <= m PROVE s[n] \subseteq s[m]
    OBVIOUS
  <2>1. r[n] \subseteq r[m] /\ (m <= Depth => n <= Depth)
    BY <1>13, <1>14
  <2>. QED BY <1>16, <2>1
<1>18. s[0] \subseteq Range(roots)
  BY <1>13, <1>14, <1>16
<1>19. \A n \in Nat : s[n + 1] \subseteq s[n] \cup ReadIn(s[n])'
  <2>. SUFFICES ASSUME NEW n \in Nat PROVE s[n + 1] \subseteq s[n] \cup ReadIn(s[n])'
    OBVIOUS
  <2>1. ReadIn(r[n]) \subseteq ReadIn(s[n])'
    <3>1. r[n] \subseteq s[n]
      BY <1>16
    <3>. QED BY <1>1, <1>4, <3>1 DEF ReadIn
  <2>2. n = Depth => Range(kids) \subseteq ReadIn(s[n])'
    <3>1. SUFFICES ASSUME n = Depth PROVE Range(kids) \subseteq ReadIn(s[n])'
      OBVIOUS
    <3>2. Url \in s[n] \cap ReadFiles' /\ site'.kind[Url] = "index"
      BY <1>1, <1>4, <1>13, <1>16, <3>1
    <3>3. Range(site'.nested[Url]) \cap site'.kept = Range(kids)
      BY <1>1, <1>3
    <3>. QED BY <3>2, <3>3 DEF ReadIn
  <2>3. s[n + 1] \subseteq r[n + 1] \cup Range(kids) /\ (n + 1 <= Depth => s[n + 1] = r[n + 1])
    BY <1>16
  <2>4. r[n + 1] \subseteq r[n] \cup ReadIn(r[n]) /\ r[n] \subseteq s[n]
    BY <1>14, <1>16
  <2>5. CASE n + 1 <= Depth
    BY <2>1, <2>3, <2>4, <2>5
  <2>6. CASE n = Depth
    BY <2>1, <2>2, <2>3, <2>4, <2>6
  <2>7. CASE n > Depth
    <3>1. ~(n <= Depth)
      BY <1>13, <2>7
    <3>2. Range(kids) \subseteq s[n]
      BY <1>16, <3>1
    <3>. QED BY <2>1, <2>3, <2>4, <3>2
  <2>. QED BY <1>13, <2>5, <2>6, <2>7
<1>20. \A k \in DOMAIN stack' : Range(stack'[k]) \subseteq s[k - 1]
  <2>. SUFFICES ASSUME NEW k \in 1..(Len(stack) + 1) PROVE Range(stack'[k]) \subseteq s[k - 1]
    BY <1>5
  <2>0. k - 1 \in Nat /\ Depth = Len(stack) - 1
    BY <1>2 DEF Depth
  <2>1. CASE k = Len(stack) + 1
    <3>1. ~(k - 1 <= Depth)
      BY <1>2, <2>0, <2>1
    <3>. QED BY <1>5, <1>16, <2>0, <2>1, <3>1
  <2>2. CASE k \in 1..Len(stack)
    <3>1. Range(stack'[k]) \subseteq r[k - 1]
      BY <1>2, <1>5, <1>13, <2>2
    <3>. QED BY <1>16, <2>0, <3>1
  <2>. QED BY <1>8, <2>1, <2>2
<1>21. seenFiles' \subseteq s[maxDepth]
  <2>1. maxDepth \in Nat
    BY DEF DiscoveryTypes
  <2>. QED BY <1>1, <1>13, <1>14, <1>16, <2>1
<1>22. Levels(s)'
  BY <1>1, <1>16, <1>17, <1>18, <1>19, <1>20, <1>21 DEF Levels
<1>. QED BY <1>4, <1>6, <1>7, <1>11, <1>22 DEF DiscoveryInv

(* With no limit on depth every index is followed. *)
LEMMA DeepEnough ==
  ASSUME DiscoveryTypes, Heights, stack # <<>>, maxDepth = Unlimited PROVE Depth < maxDepth
<1>1. seenFiles \subseteq Files /\ IsFiniteSet(Files)
  BY FilesFinite DEF DiscoveryTypes
<1>2. IsFiniteSet(seenFiles) /\ Cardinality(seenFiles) <= Cardinality(Files)
  BY <1>1, FS_Subset
<1>3. Cardinality(seenFiles) \in Nat /\ Len(stack) \in Nat
  BY <1>2, FS_CardinalityType, StackOps
<1>. QED BY <1>2, <1>3, FilesFinite DEF Heights, Depth

LEMMA ReadFileInv == ASSUME DiscoveryInv, ReadFile PROVE DiscoveryInv'
<1>1. CASE site.kind[Url] = "index" /\ Depth < maxDepth
  BY <1>1, FollowInv
<1>2. CASE ~(site.kind[Url] = "index" /\ Depth < maxDepth)
  <2>1. /\ AtFile /\ stack' = Rest /\ seenFiles' = seenFiles \cup {Url}
        /\ UNCHANGED <<siteVars, finding, roots>>
    BY <1>2 DEF ReadFile
  <2>2. /\ Collecting' /\ collected' \in Seq(Files) /\ filesFound' \in Nat
        /\ filesFound < filesFound' /\ failedFiles' \subseteq seenFiles'
        /\ ReadFiles' = ReadFiles \cup {Url}
    BY ReadCollects
  <2>3. ReadFiles \subseteq ReadFiles'
    BY <2>2
  <2>4. filesFound <= filesFound'
    BY <2>2 DEF DiscoveryInv, DiscoveryTypes
  <2>5. \A f \in ReadFiles' \ ReadFiles : site.kind[f] = "index" => maxDepth # Unlimited
    <3>1. \A f \in ReadFiles' \ ReadFiles : f = Url
      BY <2>2
    <3>2. DiscoveryTypes /\ Heights /\ stack # <<>>
      BY <2>1 DEF DiscoveryInv, AtFile, Walking
    <3>. QED BY <1>2, <3>1, <3>2, DeepEnough
  <2>. QED BY <2>1, <2>2, <2>3, <2>4, <2>5, RestInv
<1>. QED BY <1>1, <1>2

LEMMA ReturnInv == ASSUME DiscoveryInv, ReturnToCaller PROVE DiscoveryInv'
<1>0. DiscoveryTypes /\ Heights /\ NothingForgotten /\ Collecting /\ stack # <<>>
  BY DEF DiscoveryInv, ReturnToCaller, Walking
<1>. USE <1>0
<1>1. /\ stack' = Callers /\ (Last(stack) = <<>> \/ filesFound >= maxFiles) /\ finding = "walk"
      /\ UNCHANGED <<site, maxFiles, maxDepth, finding, seenFiles, failedFiles, collected,
                     filesFound, roots>>
  BY DEF ReturnToCaller, Walking, siteVars
<1>2. /\ Len(stack) \in Nat /\ Len(stack) >= 1 /\ DOMAIN stack = 1..Len(stack)
      /\ Last(stack) = stack[Len(stack)]
      /\ Callers \in Seq(Seq(Files)) /\ DOMAIN Callers = 1..(Len(stack) - 1)
      /\ Len(Callers) = Len(stack) - 1
      /\ \A k \in 1..(Len(stack) - 1) : Callers[k] = stack[k]
  BY StackOps
<1>3. DiscoveryTypes'
  BY <1>1, <1>2 DEF DiscoveryTypes
<1>4. Heights'
  <2>1. Len(stack') <= Len(stack)
    BY <1>1, <1>2
  <2>2. IsFiniteSet(seenFiles)
    BY FilesFinite, FS_Subset DEF DiscoveryTypes
  <2>3. Cardinality(seenFiles) \in Nat /\ maxDepth \in Nat /\ Len(stack') \in Nat
    BY <1>1, <1>2, <2>2, FS_CardinalityType DEF DiscoveryTypes
  <2>4. Len(stack') <= maxDepth + 1 /\ Len(stack') <= Cardinality(seenFiles) + 1
    BY <1>2, <2>1, <2>3 DEF Heights
  <2>. QED BY <1>1, <2>4 DEF Heights
<1>5. Collecting' /\ ReadFiles' = ReadFiles
  BY <1>1 DEF Collecting, ReadFiles
<1>6. NothingForgotten'
  <2>1. SUFFICES ASSUME filesFound < maxFiles, maxDepth = Unlimited
                 PROVE  /\ \A f \in Range(roots) : Accounted(f)'
                        /\ \A f \in ReadFiles : site.kind[f] = "index"
                             => \A g \in Range(site.nested[f]) \cap site.kept : Accounted(g)'
    BY <1>1, <1>5 DEF NothingForgotten
  <2>2. stack[Len(stack)] = <<>>
    BY <1>1, <1>2, <2>1 DEF DiscoveryTypes
  <2>3. ASSUME NEW f, Accounted(f) PROVE Accounted(f)'
    <3>1. SUFFICES ASSUME f \notin seenFiles PROVE Pending(f)'
      BY <1>1 DEF Accounted
    <3>2. PICK k \in 1..Len(stack) : f \in Range(stack[k])
      BY <1>2, <2>3, <3>1 DEF Accounted, Pending
    <3>3. k # Len(stack)
      BY <2>2, <3>2, EmptyRange
    <3>4. k \in 1..(Len(stack) - 1)
      BY <1>2, <3>2, <3>3, LastOrBefore
    <3>. QED BY <1>1, <1>2, <3>2, <3>4 DEF Pending
  <2>. QED BY <2>1, <2>3 DEF NothingForgotten
<1>7. PICK r : Levels(r)
  BY DEF DiscoveryInv
<1>8. Levels(r)'
  <2>1. \A k \in 1..(Len(stack) - 1) : Range(stack'[k]) \subseteq r[k - 1]
    <3>1. \A k \in 1..(Len(stack) - 1) : k \in 1..Len(stack)
      BY <1>2
    <3>. QED BY <1>1, <1>2, <1>7, <3>1 DEF Levels
  <2>. QED BY <1>1, <1>2, <1>5, <1>7, <2>1, LevelsKept DEF Levels
<1>. QED BY <1>3, <1>4, <1>5, <1>6, <1>8 DEF DiscoveryInv

(* The roots are found: the first list of the walk. *)
LEMMA ResolveInv ==
  ASSUME DiscoveryInv, finding \notin {"walk", "done"}, NEW list \in Seq(Files), Resolve(list)
  PROVE  DiscoveryInv'
<1>0. DiscoveryTypes /\ Heights /\ Collecting /\ seenFiles = {} /\ collected = <<>>
  BY DEF DiscoveryInv, Heights
<1>1. /\ roots' = list /\ stack' = <<list>> /\ finding' = "walk"
      /\ UNCHANGED <<site, maxFiles, maxDepth, seenFiles, failedFiles, collected, filesFound>>
  BY DEF Resolve, siteVars
<1>2. stack' \in Seq(Seq(Files)) /\ Len(stack') = 1 /\ DOMAIN stack' = 1..1 /\ stack'[1] = list
  BY <1>1
<1>3. DiscoveryTypes'
  BY <1>0, <1>1, <1>2 DEF DiscoveryTypes
<1>4. Heights'
  <2>1. Cardinality(seenFiles') = 0 /\ maxDepth \in Nat
    BY <1>0, <1>1, FS_EmptySet DEF DiscoveryTypes
  <2>. QED BY <1>1, <1>2, <2>1 DEF Heights
<1>5. Collecting' /\ ReadFiles' = {}
  BY <1>0, <1>1 DEF Collecting, ReadFiles
<1>6. NothingForgotten'
  <2>1. 1 \in DOMAIN stack'
    BY <1>2
  <2>. QED BY <1>1, <1>2, <1>5, <2>1 DEF NothingForgotten, Accounted, Pending
<1>7. \E r : Levels(r)'
  <2>1. Range(list) \subseteq Files
    BY DEF Range
  <2>2. PICK r : r = [n \in Nat |-> Range(list)]
    OBVIOUS
  <2>3. r \in [Nat -> SUBSET Files] /\ \A n \in Nat : r[n] = Range(list)
    BY <2>1, <2>2
  <2>4. \A k \in 1..1 : k = 1 /\ k - 1 \in Nat
    OBVIOUS
  <2>5. Levels(r)'
    BY <1>0, <1>1, <1>2, <2>3, <2>4 DEF Levels
  <2>. QED BY <2>5
<1>. QED BY <1>3, <1>4, <1>5, <1>6, <1>7 DEF DiscoveryInv

LEMMA LookFurtherInv ==
  ASSUME DiscoveryInv, NEW where \in {"robots", "standard", "done"}, LookFurther(where),
         stack = <<>>, where # "done" => finding \notin {"walk", "done"}
  PROVE  DiscoveryInv'
<1>1. /\ finding' = where
      /\ UNCHANGED <<site, maxFiles, maxDepth, stack, seenFiles, failedFiles, collected,
                     filesFound, roots>>
  BY DEF LookFurther, siteVars, walkVars
<1>2. PICK r : Levels(r)
  BY DEF DiscoveryInv
<1>3. Levels(r)'
  BY <1>1, <1>2 DEF Levels, ReadIn, ReadFiles
<1>4. DiscoveryTypes'
  BY <1>1 DEF DiscoveryInv, DiscoveryTypes
<1>5. Heights'
  BY <1>1 DEF DiscoveryInv, Heights
<1>6. Collecting' /\ NothingForgotten'
  BY <1>1 DEF DiscoveryInv, Collecting, NothingForgotten, ReadFiles, Accounted, Pending
<1>. QED BY <1>3, <1>4, <1>5, <1>6 DEF DiscoveryInv

LEMMA DiscoveryStep == DiscoveryInv /\ [DiscoveryNext]_discoveryVars => DiscoveryInv'
<1>. SUFFICES ASSUME DiscoveryInv, [DiscoveryNext]_discoveryVars PROVE DiscoveryInv'
  OBVIOUS
<1>0. DiscoveryTypes /\ Heights
  BY DEF DiscoveryInv
<1>1. CASE Configured
  <2>1. finding = "configuration" /\ stack = <<>>
    BY <1>0, <1>1 DEF Configured, Heights
  <2>2. CASE site.explicit # {}
    <3>1. SetToSeq(site.explicit) \in Seq(Files) /\ Resolve(SetToSeq(site.explicit))
      BY <1>0, <1>1, <2>2, OnlyRoot DEF Configured
    <3>. QED BY <2>1, <3>1, ResolveInv
  <2>3. CASE site.explicit = {}
    BY <1>1, <2>1, <2>3, LookFurtherInv DEF Configured
  <2>. QED BY <2>2, <2>3
<1>2. CASE ReadRobots
  <2>1. finding = "robots" /\ stack = <<>> /\ site.listed \in Seq(Files)
    BY <1>0, <1>2, SiteTypes DEF ReadRobots, Heights
  <2>2. Resolve(site.listed) \/ LookFurther("standard")
    BY <1>2 DEF ReadRobots
  <2>. QED BY <2>1, <2>2, ResolveInv, LookFurtherInv
<1>3. CASE TryStandard
  <2>1. finding = "standard" /\ stack = <<>> /\ site.standard \in Seq(Files)
    BY <1>0, <1>3, SiteTypes DEF TryStandard, Heights
  <2>2. CASE LookFurther("done")
    BY <2>1, <2>2, LookFurtherInv
  <2>3. CASE \E n \in DOMAIN site.standard : Resolve(<<site.standard[n]>>)
    <3>1. PICK n \in DOMAIN site.standard : Resolve(<<site.standard[n]>>)
      BY <2>3
    <3>2. site.standard[n] \in Files
      BY <2>1
    <3>3. PICK list : list = <<site.standard[n]>>
      OBVIOUS
    <3>4. list \in Seq(Files) /\ Resolve(list)
      BY <3>1, <3>2, <3>3
    <3>. QED BY <2>1, <3>4, ResolveInv
  <2>. QED BY <1>3, <2>2, <2>3 DEF TryStandard
<1>4. CASE WalkEnds
  BY <1>4, LookFurtherInv DEF WalkEnds
<1>5. CASE UNCHANGED discoveryVars
  <2>1. UNCHANGED <<site, maxFiles, maxDepth, finding, stack, seenFiles, failedFiles, collected,
                    filesFound, roots>>
    BY <1>5 DEF discoveryVars, siteVars, walkVars
  <2>2. PICK r : Levels(r)
    BY DEF DiscoveryInv
  <2>3. Levels(r)'
    BY <2>1, <2>2 DEF Levels, ReadIn, ReadFiles
  <2>4. DiscoveryTypes' /\ Heights' /\ Collecting' /\ NothingForgotten'
    BY <2>1 DEF DiscoveryInv, DiscoveryTypes, Heights, Collecting, NothingForgotten, ReadFiles,
                Accounted, Pending
  <2>. QED BY <2>3, <2>4 DEF DiscoveryInv
<1>. QED BY <1>1, <1>2, <1>3, <1>4, <1>5, ReturnInv, SkipInv, FetchFailsInv, ReadFileInv
         DEF DiscoveryNext

LEMMA DiscoveryStart == DiscoveryInit => DiscoveryInv
<1>. SUFFICES ASSUME DiscoveryInit PROVE DiscoveryInv
  OBVIOUS
<1>1. maxDepth \in Nat /\ maxFiles \in Nat
  <2>1. PICK limit \in DepthLimits : maxDepth = IF limit = 0 THEN Unlimited ELSE limit
    BY DEF DiscoveryInit
  <2>. QED BY <2>1, SiteAssumption, FilesFinite DEF DiscoveryInit
<1>2. DiscoveryTypes
  BY <1>1 DEF DiscoveryInit, DiscoveryTypes
<1>3. /\ stack = <<>> /\ roots = <<>> /\ collected = <<>> /\ seenFiles = {}
      /\ finding = "configuration"
  BY DEF DiscoveryInit
<1>4. Heights
  <2>1. Cardinality(seenFiles) = 0 /\ Len(stack) = 0
    BY <1>3, FS_EmptySet
  <2>. QED BY <1>1, <1>3, <2>1 DEF Heights
<1>5. Collecting /\ NothingForgotten
  BY <1>3, EmptyRange DEF Collecting, NothingForgotten, ReadFiles, IsInjective
<1>6. \E r : Levels(r)
  <2>1. PICK r : r = [n \in Nat |-> {}]
    OBVIOUS
  <2>2. r \in [Nat -> SUBSET Files] /\ \A n \in Nat : r[n] = {}
    BY <2>1
  <2>3. Levels(r)
    BY <1>1, <1>3, <2>2 DEF Levels
  <2>. QED BY <2>3
<1>. QED BY <1>2, <1>4, <1>5, <1>6 DEF DiscoveryInv

-----------------------------------------------------------------------------
(* The levels of the reference definition. *)
LEMMA WithinEquations ==
  ASSUME DiscoveryTypes
  PROVE  /\ ReachableWithin \in [Nat -> SUBSET Files]
         /\ ReachableWithin[0] = Range(roots)
         /\ \A n \in Nat : ReachableWithin[n + 1]
                             = ReachableWithin[n] \cup NestedIn(ReachableWithin[n])
<1>. DEFINE V == SUBSET Files
            F == [c \in Nat \X V |-> c[2] \cup NestedIn(c[2])]
            base == Range(roots)
<1>1. base \in V
  BY DEF DiscoveryTypes, Range
<1>2. \A files : NestedIn(files) \in V
  BY SiteTypes DEF NestedIn
<1>3. IsStep(F, V) /\ \A n \in Nat, files \in V : F[<<n, files>>] = files \cup NestedIn(files)
  BY <1>2 DEF IsStep
<1>. HIDE DEF F, V, base
<1>4. PICK f : Recurs(f, base, F, V)
  BY <1>1, <1>3, Recursion
<1>5. f \in [Nat -> V] /\ f[0] = base /\ \A n \in Nat : f[n + 1] = f[n] \cup NestedIn(f[n])
  BY <1>3, <1>4 DEF Recurs
<1>. DEFINE body(w, n) == IF n = 0 THEN Range(roots) ELSE w[n - 1] \cup NestedIn(w[n - 1])
<1>6. f = [n \in Nat |-> body(f, n)]
  <2>1. ASSUME NEW n \in Nat PROVE f[n] = body(f, n)
    <3>1. CASE n = 0
      BY <1>5, <3>1 DEF base
    <3>2. CASE n # 0
      <4>1. n - 1 \in Nat /\ n - 1 + 1 = n
        BY <3>2
      <4>. QED BY <1>5, <3>2, <4>1
    <3>. QED BY <3>1, <3>2
  <2>. HIDE DEF body
  <2>. QED BY <1>5, <2>1
<1>7. ReachableWithin = [n \in Nat |-> body(ReachableWithin, n)]
  <2>1. ReachableWithin = CHOOSE w : w = [n \in Nat |-> body(w, n)]
    BY DEF ReachableWithin
  <2>. HIDE DEF body
  <2>. QED BY <1>6, <2>1
<1>8. \A n \in Nat : ReachableWithin[n] = body(ReachableWithin, n)
  <2>. HIDE DEF body
  <2>. QED BY <1>7
<1>9. \A n \in Nat : ReachableWithin[n + 1]
                       = ReachableWithin[n] \cup NestedIn(ReachableWithin[n])
  <2>. SUFFICES ASSUME NEW n \in Nat
                PROVE  ReachableWithin[n + 1] = ReachableWithin[n] \cup NestedIn(ReachableWithin[n])
    OBVIOUS
  <2>1. n + 1 \in Nat /\ n + 1 # 0 /\ n + 1 - 1 = n
    OBVIOUS
  <2>2. ReachableWithin[n + 1] = body(ReachableWithin, n + 1)
    <3>. HIDE DEF body
    <3>. QED BY <1>8, <2>1
  <2>3. body(ReachableWithin, n + 1) = ReachableWithin[n] \cup NestedIn(ReachableWithin[n])
    BY ONLY <2>1
  <2>. HIDE DEF body
  <2>. QED BY <2>2, <2>3
<1>10. ReachableWithin[0] = base
  BY <1>8 DEF base
<1>11. Nat \subseteq {n \in Nat : ReachableWithin[n] \in V}
  <2>. DEFINE T == {n \in Nat : ReachableWithin[n] \in V}
  <2>1. 0 \in T
    BY <1>1, <1>10
  <2>2. \A n \in Nat : n \in T => n + 1 \in T
    BY <1>2, <1>9 DEF V
  <2>. HIDE DEF T
  <2>3. Nat \subseteq T
    BY <2>1, <2>2, SetInduction
  <2>. QED BY <2>3 DEF T
<1>12. DOMAIN ReachableWithin = Nat
  <2>. HIDE DEF body
  <2>. QED BY <1>7
<1>13. ReachableWithin = [n \in Nat |-> ReachableWithin[n]]
  <2>. HIDE DEF body
  <2>. QED BY <1>7
<1>. QED BY <1>9, <1>10, <1>11, <1>13 DEF base, V

(* What is met lies where the reference definition has it; and with no     *)
(* limit in the way, what the reference definition has is met.             *)
LEMMA LevelsSound ==
  ASSUME DiscoveryTypes, NEW r, Levels(r), NEW n \in Nat
  PROVE  r[n] \subseteq ReachableWithin[n]
<1>. DEFINE T == {k \in Nat : r[k] \subseteq ReachableWithin[k]}
<1>1. 0 \in T
  BY WithinEquations DEF Levels
<1>2. ASSUME NEW k \in Nat, k \in T PROVE k + 1 \in T
  <2>1. r[k + 1] \subseteq r[k] \cup ReadIn(r[k]) /\ r[k] \subseteq ReachableWithin[k]
    BY <1>2 DEF Levels
  <2>2. ReadIn(r[k]) \subseteq NestedIn(ReachableWithin[k])
    BY <2>1 DEF ReadIn, NestedIn, ReadFiles
  <2>. QED BY <2>1, <2>2, WithinEquations
<1>. HIDE DEF T
<1>3. Nat \subseteq T
  BY <1>1, <1>2, SetInduction
<1>. QED BY <1>3 DEF T

LEMMA AllMet ==
  ASSUME DiscoveryInv, finding = "done", filesFound < maxFiles, maxDepth = Unlimited,
         NEW n \in Nat
  PROVE  ReachableWithin[n] \subseteq seenFiles
<1>0. DiscoveryTypes /\ stack = <<>>
  BY DEF DiscoveryInv, Heights
<1>1. \A f : Accounted(f) => f \in seenFiles
  BY <1>0 DEF Accounted, Pending
<1>. DEFINE T == {k \in Nat : ReachableWithin[k] \subseteq seenFiles}
<1>2. 0 \in T
  BY <1>0, <1>1, WithinEquations DEF DiscoveryInv, NothingForgotten
<1>3. ASSUME NEW k \in Nat, k \in T PROVE k + 1 \in T
  <2>1. ReachableWithin[k] \subseteq seenFiles
    BY <1>3
  <2>2. NestedIn(ReachableWithin[k]) \subseteq seenFiles
    BY <1>1, <2>1 DEF DiscoveryInv, NothingForgotten, NestedIn, ReadFiles
  <2>. QED BY <1>0, <2>1, <2>2, WithinEquations
<1>. HIDE DEF T
<1>4. Nat \subseteq T
  BY <1>2, <1>3, SetInduction
<1>. QED BY <1>4 DEF T

(* Every set of pages that failures leave reachable is collected, once, on *)
(* cyclic and on shared sitemaps, unless a limit cuts the walk; and never  *)
(* one from below the limit on depth.                                      *)
THEOREM TheReachableCollected == DiscoverySpec => []CollectsTheReachable
<1>1. DiscoveryInv => CollectsTheReachable
  <2>. SUFFICES ASSUME DiscoveryInv PROVE CollectsTheReachable
    OBVIOUS
  <2>1. PICK r : Levels(r)
    BY DEF DiscoveryInv
  <2>2. /\ DiscoveryTypes /\ maxDepth \in Nat /\ IsInjective(collected)
        /\ Range(collected) = {f \in ReadFiles : site.kind[f] = "pages"}
    BY DEF DiscoveryInv, DiscoveryTypes, Collecting
  <2>3. seenFiles \subseteq Reachable
    BY <2>1, <2>2, LevelsSound DEF Levels, Reachable
  <2>4. finding = "done" /\ filesFound < maxFiles /\ maxDepth = Unlimited
          => Reachable \subseteq seenFiles
    BY <2>2, AllMet DEF Reachable
  <2>. QED BY <2>2, <2>3, <2>4 DEF CollectsTheReachable, ReadFiles
<1>. QED BY <1>1, DiscoveryStart, DiscoveryStep, PTL DEF DiscoverySpec

-----------------------------------------------------------------------------
(* The searches.                                                           *)

LEMMA Containing ==
  ASSUME NEW V
  PROVE  \A s \in Seq(V), e \in V :
           /\ Contains(s, e) <=> e \in Range(s)
           /\ IsInjective(s) /\ ~Contains(s, e) => IsInjective(Append(s, e))
<1>. SUFFICES ASSUME NEW s \in Seq(V), NEW e \in V
              PROVE  /\ Contains(s, e) <=> e \in Range(s)
                     /\ IsInjective(s) /\ ~Contains(s, e) => IsInjective(Append(s, e))
  OBVIOUS
<1>1. /\ DOMAIN Append(s, e) = 1..(Len(s) + 1) /\ DOMAIN s = 1..Len(s) /\ Len(s) \in Nat
      /\ Append(s, e)[Len(s) + 1] = e /\ \A k \in 1..Len(s) : Append(s, e)[k] = s[k]
  OBVIOUS
<1>2. 1..(Len(s) + 1) = (1..Len(s)) \cup {Len(s) + 1}
  BY <1>1, IntervalNext
<1>3. Contains(s, e) <=> e \in Range(s)
  BY <1>1 DEF Contains, Range
<1>4. ASSUME IsInjective(s), ~Contains(s, e) PROVE IsInjective(Append(s, e))
  <2>1. SUFFICES ASSUME NEW a \in 1..(Len(s) + 1), NEW b \in 1..(Len(s) + 1),
                        Append(s, e)[a] = Append(s, e)[b]
                 PROVE  a = b
    BY <1>1 DEF IsInjective
  <2>2. \A k \in 1..Len(s) : Append(s, e)[k] # e
    BY <1>1, <1>4 DEF Contains
  <2>. QED BY <1>1, <1>2, <1>4, <2>1, <2>2 DEF IsInjective
<1>. QED BY <1>3, <1>4

(* Each URL is kept where it comes first: once.                            *)
LEMMA FirstsFacts ==
  ASSUME NEW V, NEW list \in Seq(V)
  PROVE  /\ Firsts(list) \in Seq(V) /\ IsInjective(Firsts(list))
         /\ Range(Firsts(list)) = Range(list)
<1>. DEFINE F == [c \in Nat \X Seq(V) |->
                    IF c[1] + 1 \in 1..Len(list) /\ ~Contains(c[2], list[c[1] + 1])
                    THEN Append(c[2], list[c[1] + 1]) ELSE c[2]]
            firsts == CHOOSE firsts : firsts = [n \in 0..Len(list) |->
              IF n = 0 THEN <<>>
              ELSE IF Contains(firsts[n - 1], list[n]) THEN firsts[n - 1]
              ELSE Append(firsts[n - 1], list[n])]
            N == Len(list)
<1>0. N \in Nat /\ DOMAIN list = 1..N /\ \A n \in 1..N : list[n] \in V
  OBVIOUS
<1>1. F \in [Nat \X Seq(V) -> Seq(V)]
  BY <1>0
<1>2. \A n \in 1..N, s \in Seq(V) :
        F[<<n - 1, s>>] = IF Contains(s, list[n]) THEN s ELSE Append(s, list[n])
  <2>. SUFFICES ASSUME NEW n \in 1..N, NEW s \in Seq(V)
                PROVE F[<<n - 1, s>>] = IF Contains(s, list[n]) THEN s ELSE Append(s, list[n])
    OBVIOUS
  <2>1. n - 1 \in Nat /\ n - 1 + 1 = n
    BY <1>0
  <2>2. F[<<n - 1, s>>] = IF n - 1 + 1 \in 1..N /\ ~Contains(s, list[n - 1 + 1])
                          THEN Append(s, list[n - 1 + 1]) ELSE s
    BY <2>1
  <2>. HIDE DEF F, N
  <2>. QED BY <2>1, <2>2
<1>3. PICK g \in [0..N -> Seq(V)] :
        g[0] = <<>> /\ \A n \in 1..N : g[n] = F[<<n - 1, g[n - 1]>>]
  <2>. DEFINE W == Seq(V)
              base == <<>>
  <2>1. base \in W /\ IsStep(F, W)
    BY <1>1 DEF IsStep
  <2>. HIDE DEF F, N, W, base
  <2>2. \E g : IsTable(g, base, F, W, N)
    BY <1>0, <2>1, Table
  <2>. QED BY <2>2 DEF W, base, IsTable
<1>. HIDE DEF F
<1>. DEFINE entry(h, n) == IF n = 0 THEN <<>>
                           ELSE IF Contains(h[n - 1], list[n]) THEN h[n - 1]
                           ELSE Append(h[n - 1], list[n])
<1>4. g = [n \in 0..N |-> entry(g, n)]
  <2>1. ASSUME NEW n \in 0..N PROVE g[n] = entry(g, n)
    <3>1. CASE n = 0
      BY <1>3, <3>1
    <3>2. CASE n # 0
      <4>1. n \in 1..N /\ n - 1 \in 0..N
        BY <1>0, <3>2
      <4>2. g[n - 1] \in Seq(V)
        BY <1>3, <4>1
      <4>. HIDE DEF N
      <4>. QED BY <1>2, <1>3, <3>2, <4>1, <4>2
    <3>. QED BY <3>1, <3>2
  <2>. HIDE DEF entry, N
  <2>. QED BY <1>3, <2>1
<1>5. firsts = [n \in 0..N |-> entry(firsts, n)]
  <2>1. firsts = CHOOSE h : h = [n \in 0..N |-> entry(h, n)]
    OBVIOUS
  <2>. HIDE DEF entry, firsts, N
  <2>. QED BY <1>4, <2>1
<1>6. Firsts(list) = firsts[N]
  BY DEF Firsts
<1>. HIDE DEF firsts
<1>7. \A n \in 0..N : firsts[n] = entry(firsts, n)
  <2>. HIDE DEF entry, N
  <2>. QED BY <1>5
<1>. DEFINE T == {n \in Nat : n \in 0..N =>
                    /\ firsts[n] \in Seq(V) /\ IsInjective(firsts[n])
                    /\ Range(firsts[n]) = {list[k] : k \in 1..n}}
<1>8. 0 \in T
  <2>1. 0 \in 0..N
    BY <1>0
  <2>2. firsts[0] = <<>>
    BY <1>7, <2>1
  <2>3. <<>> \in Seq(V) /\ IsInjective(<<>>) /\ {list[k] : k \in 1..0} = {}
    BY DEF IsInjective
  <2>. QED BY <2>2, <2>3, EmptyRange
<1>9. ASSUME NEW n \in Nat, n \in T PROVE n + 1 \in T
  <2>. SUFFICES ASSUME n + 1 \in 0..N
                PROVE  /\ firsts[n + 1] \in Seq(V) /\ IsInjective(firsts[n + 1])
                       /\ Range(firsts[n + 1]) = {list[k] : k \in 1..(n + 1)}
    OBVIOUS
  <2>1. n \in 0..N /\ n + 1 \in 1..N /\ n + 1 # 0 /\ n + 1 - 1 = n
    BY <1>0
  <2>2. /\ firsts[n] \in Seq(V) /\ IsInjective(firsts[n])
        /\ Range(firsts[n]) = {list[k] : k \in 1..n}
    BY <1>9, <2>1
  <2>3. firsts[n + 1] = IF Contains(firsts[n], list[n + 1]) THEN firsts[n]
                        ELSE Append(firsts[n], list[n + 1])
    <3>1. firsts[n + 1] = entry(firsts, n + 1)
      <4>. HIDE DEF entry, N
      <4>. QED BY <1>7
    <3>2. entry(firsts, n + 1) = IF Contains(firsts[n], list[n + 1]) THEN firsts[n]
                                 ELSE Append(firsts[n], list[n + 1])
      BY ONLY <2>1
    <3>. HIDE DEF entry
    <3>. QED BY <3>1, <3>2
  <2>4. {list[k] : k \in 1..(n + 1)} = {list[k] : k \in 1..n} \cup {list[n + 1]}
    <3>1. 1..(n + 1) = (1..n) \cup {n + 1}
      BY IntervalNext
    <3>. QED BY <3>1
  <2>5. list[n + 1] \in V
    BY <1>0, <2>1
  <2>6. CASE Contains(firsts[n], list[n + 1])
    <3>1. list[n + 1] \in Range(firsts[n])
      BY <2>2, <2>5, <2>6, Containing
    <3>. QED BY <2>2, <2>3, <2>4, <2>6, <3>1
  <2>7. CASE ~Contains(firsts[n], list[n + 1])
    <3>1. /\ Append(firsts[n], list[n + 1]) \in Seq(V)
          /\ Range(Append(firsts[n], list[n + 1])) = Range(firsts[n]) \cup {list[n + 1]}
      <4>1. \A s \in Seq(V), e \in V :
              Append(s, e) \in Seq(V) /\ Range(Append(s, e)) = Range(s) \cup {e}
        BY AppendRange
      <4>. QED BY ONLY <2>2, <2>5, <4>1
    <3>2. IsInjective(Append(firsts[n], list[n + 1]))
      BY <2>2, <2>5, <2>7, Containing, Zenon
    <3>. QED BY <2>2, <2>3, <2>4, <2>7, <3>1, <3>2
  <2>. QED BY <2>6, <2>7
<1>10. N \in T
  <2>. HIDE DEF T, N
  <2>. QED BY <1>0, <1>8, <1>9, SetInduction
<1>11. {list[k] : k \in 1..N} = Range(list)
  BY <1>0 DEF Range
<1>12. N \in 0..N
  BY <1>0
<1>13. /\ firsts[N] \in Seq(V) /\ IsInjective(firsts[N])
       /\ Range(firsts[N]) = {list[k] : k \in 1..N}
  <2>. HIDE DEF N
  <2>. QED BY <1>10, <1>12
<1>. QED BY <1>6, <1>11, <1>13

-----------------------------------------------------------------------------
(* The types of a search.                                                  *)
Urls == UNION {Range(answer) : answer \in Answers}
Match == [url : Urls, rank : Nat]
Outcomes == Answers \cup {<<>>, Panic}

FusionTypes ==
  /\ asking \in {"reverse", "image"} /\ most \in Nat
  /\ joined \in Seq(Match) /\ ended \in Seq(Outcomes)

JoinedUrls == {joined[k].url : k \in DOMAIN joined}

LEMMA PointsType == ASSUME NEW rank \in Nat PROVE Points(rank) \in Int
<1>1. Scale \in Nat /\ RankOffset + rank \in Nat /\ RankOffset + rank > 0
  BY FusionAssumption DEF RankOffset
<1>. QED BY <1>1 DEF Points

LEMMA ScoreType == ASSUME FusionTypes, NEW u PROVE Score(u) \in Int
<1>. DEFINE N == Len(joined)
            due(n) == IF joined[n].url = u THEN Points(joined[n].rank) ELSE 0
            F == [c \in Nat \X Int |-> c[2] + (IF c[1] + 1 \in 1..N THEN due(c[1] + 1) ELSE 0)]
            sum == CHOOSE sum : sum = [n \in 0..N |->
              IF n = 0 THEN 0
              ELSE sum[n - 1] + (IF joined[n].url = u THEN Points(joined[n].rank) ELSE 0)]
<1>0. N \in Nat /\ \A n \in 1..N : joined[n] \in Match
  BY DEF FusionTypes
<1>1. \A n \in 1..N : due(n) \in Int
  BY <1>0, PointsType DEF Match
<1>. HIDE DEF due
<1>2. F \in [Nat \X Int -> Int]
  BY <1>0, <1>1
<1>3. \A n \in 1..N, i \in Int : F[<<n - 1, i>>] = i + due(n)
  <2>. SUFFICES ASSUME NEW n \in 1..N, NEW i \in Int PROVE F[<<n - 1, i>>] = i + due(n)
    OBVIOUS
  <2>1. n - 1 \in Nat /\ n - 1 + 1 = n
    BY <1>0
  <2>2. F[<<n - 1, i>>] = i + (IF n - 1 + 1 \in 1..N THEN due(n - 1 + 1) ELSE 0)
    BY <2>1
  <2>. HIDE DEF F, N
  <2>. QED BY <2>1, <2>2
<1>4. PICK g : IsTable(g, 0, F, Int, N)
  <2>1. 0 \in Int /\ IsStep(F, Int)
    BY <1>2 DEF IsStep
  <2>. HIDE DEF F, N
  <2>. QED BY <1>0, <2>1, Table
<1>5. g \in [0..N -> Int] /\ g[0] = 0 /\ \A n \in 1..N : g[n] = F[<<n - 1, g[n - 1]>>]
  BY <1>4 DEF IsTable
<1>. HIDE DEF F
<1>. DEFINE entry(h, n) == IF n = 0 THEN 0 ELSE h[n - 1] + due(n)
<1>6. g = [n \in 0..N |-> entry(g, n)]
  <2>1. ASSUME NEW n \in 0..N PROVE g[n] = entry(g, n)
    <3>1. CASE n = 0
      BY <1>5, <3>1
    <3>2. CASE n # 0
      <4>1. n \in 1..N /\ n - 1 \in 0..N
        BY <1>0, <3>2
      <4>2. g[n - 1] \in Int
        BY <1>5, <4>1
      <4>. HIDE DEF N
      <4>. QED BY <1>3, <1>5, <3>2, <4>1, <4>2
    <3>. QED BY <3>1, <3>2
  <2>. HIDE DEF entry, N
  <2>. QED BY <1>5, <2>1
<1>7. sum = [n \in 0..N |-> entry(sum, n)]
  <2>1. sum = CHOOSE h : h = [n \in 0..N |-> entry(h, n)]
    BY DEF due
  <2>. HIDE DEF entry, sum, N
  <2>. QED BY <1>6, <2>1
<1>8. Score(u) = sum[N]
  BY DEF Score
<1>. HIDE DEF sum
<1>9. \A n \in 0..N : sum[n] = entry(sum, n)
  <2>. HIDE DEF entry, N
  <2>. QED BY <1>7
<1>. DEFINE T == {n \in Nat : n \in 0..N => sum[n] \in Int}
<1>10. 0 \in T
  <2>1. 0 \in 0..N
    BY <1>0
  <2>. QED BY <1>9, <2>1
<1>11. ASSUME NEW n \in Nat, n \in T PROVE n + 1 \in T
  <2>. SUFFICES ASSUME n + 1 \in 0..N PROVE sum[n + 1] \in Int
    OBVIOUS
  <2>1. n \in 0..N /\ n + 1 \in 1..N /\ n + 1 # 0 /\ n + 1 - 1 = n
    BY <1>0
  <2>2. sum[n + 1] = entry(sum, n + 1)
    <3>. HIDE DEF entry, N
    <3>. QED BY <1>9
  <2>3. entry(sum, n + 1) = sum[n] + due(n + 1)
    BY ONLY <2>1
  <2>4. sum[n] \in Int /\ due(n + 1) \in Int
    <3>. HIDE DEF N
    <3>. QED BY <1>1, <1>11, <2>1
  <2>. HIDE DEF entry
  <2>. QED BY <2>2, <2>3, <2>4
<1>12. N \in T
  <2>. HIDE DEF T, N
  <2>. QED BY <1>0, <1>10, <1>11, SetInduction
<1>13. N \in 0..N
  BY <1>0
<1>. HIDE DEF N
<1>. QED BY <1>8, <1>12, <1>13

-----------------------------------------------------------------------------
(* Counting those before it gives each of N weights a place of its own.    *)
Earlier(w, N, n) == {m \in 1..N : w[m] > w[n] \/ (w[m] = w[n] /\ m < n)}

LEMMA EarlierCounts ==
  ASSUME NEW N \in Nat, NEW w \in [1..N -> Int], NEW n \in 1..N
  PROVE  /\ IsFiniteSet(Earlier(w, N, n)) /\ Cardinality(Earlier(w, N, n)) \in Nat
         /\ Cardinality(Earlier(w, N, n)) + 1 <= N
<1>. DEFINE E == Earlier(w, N, n)
<1>1. n \notin E /\ E \cup {n} \subseteq 1..N /\ E \subseteq 1..N
  BY DEF Earlier
<1>2. IsFiniteSet(1..N) /\ Cardinality(1..N) = N
  BY FS_Interval
<1>. HIDE DEF E
<1>3. IsFiniteSet(E) /\ Cardinality(E) \in Nat
  BY <1>1, <1>2, FS_Subset, FS_CardinalityType
<1>4. Cardinality(E \cup {n}) = Cardinality(E) + 1
  BY <1>1, <1>3, FS_AddElement
<1>5. Cardinality(E \cup {n}) <= N
  BY <1>1, <1>2, FS_Subset
<1>. QED BY <1>3, <1>4, <1>5 DEF E

LEMMA EarlierGrows ==
  ASSUME NEW N \in Nat, NEW w \in [1..N -> Int], NEW m \in 1..N, NEW n \in 1..N,
         m \in Earlier(w, N, n)
  PROVE  Cardinality(Earlier(w, N, m)) < Cardinality(Earlier(w, N, n))
<1>. DEFINE A == Earlier(w, N, m)
            B == Earlier(w, N, n)
<1>1. m \notin A /\ A \cup {m} \subseteq B
  BY DEF Earlier
<1>2. /\ IsFiniteSet(A) /\ Cardinality(A) \in Nat
      /\ IsFiniteSet(B) /\ Cardinality(B) \in Nat
  BY EarlierCounts
<1>. HIDE DEF A, B
<1>3. Cardinality(A \cup {m}) = Cardinality(A) + 1
  BY <1>1, <1>2, FS_AddElement
<1>4. Cardinality(A \cup {m}) <= Cardinality(B)
  BY <1>1, <1>2, FS_Subset
<1>5. Cardinality(A) < Cardinality(B)
  BY <1>2, <1>3, <1>4
<1>. QED BY <1>5 DEF A, B

IsPlacing(P, w, N) ==
  /\ P \in [1..N -> 1..N] /\ \A m, n \in 1..N : P[m] = P[n] => m = n
  /\ \A k \in 1..N : \E n \in 1..N : P[n] = k
  /\ \A m, n \in 1..N : P[m] < P[n] => w[m] >= w[n]

LEMMA Placing ==
  ASSUME NEW N \in Nat, NEW w \in [1..N -> Int]
  PROVE  IsPlacing([n \in 1..N |-> Cardinality(Earlier(w, N, n)) + 1], w, N)
<1>. DEFINE P == [n \in 1..N |-> Cardinality(Earlier(w, N, n)) + 1]
<1>1. P \in [1..N -> 1..N]
  <2>1. ASSUME NEW n \in 1..N PROVE Cardinality(Earlier(w, N, n)) + 1 \in 1..N
    <3>1. Cardinality(Earlier(w, N, n)) \in Nat /\ Cardinality(Earlier(w, N, n)) + 1 <= N
      BY ONLY N \in Nat, w \in [1..N -> Int], n \in 1..N, EarlierCounts
    <3>. QED BY ONLY N \in Nat, <3>1
  <2>. QED BY <2>1
<1>2. \A m, n \in 1..N : m # n => m \in Earlier(w, N, n) \/ n \in Earlier(w, N, m)
  BY DEF Earlier
<1>3. ASSUME NEW m \in 1..N, NEW n \in 1..N, m \in Earlier(w, N, n) PROVE P[m] < P[n]
  <2>1. Cardinality(Earlier(w, N, m)) < Cardinality(Earlier(w, N, n))
    BY <1>3, EarlierGrows
  <2>2. Cardinality(Earlier(w, N, m)) \in Nat /\ Cardinality(Earlier(w, N, n)) \in Nat
    BY EarlierCounts
  <2>. QED BY <2>1, <2>2
<1>. HIDE DEF P
<1>4. \A m, n \in 1..N : P[m] = P[n] => m = n
  <2>1. SUFFICES ASSUME NEW m \in 1..N, NEW n \in 1..N, P[m] = P[n], m # n PROVE FALSE
    OBVIOUS
  <2>2. P[m] < P[n] \/ P[n] < P[m]
    BY <1>2, <1>3, <2>1
  <2>3. P[m] \in Nat /\ P[n] \in Nat
    BY <1>1
  <2>. QED BY <2>1, <2>2, <2>3
<1>5. ASSUME NEW k \in 1..N PROVE \E n \in 1..N : P[n] = k
  <2>1. P \in Injection(1..N, 1..N)
    BY <1>1, <1>4 DEF Injection, IsInjective
  <2>2. IsFiniteSet(1..N)
    BY FS_Interval
  <2>3. P \in Surjection(1..N, 1..N)
    BY <2>1, <2>2, FS_Injection
  <2>. QED BY <2>3 DEF Surjection
<1>6. ASSUME NEW m \in 1..N, NEW n \in 1..N, P[m] < P[n] PROVE w[m] >= w[n]
  <2>0. P[m] \in Nat /\ P[n] \in Nat
    BY <1>1
  <2>1. m # n /\ ~(P[n] < P[m])
    BY <1>6, <2>0
  <2>2. m \in Earlier(w, N, n)
    BY <1>2, <1>3, <2>1
  <2>. QED BY <2>2 DEF Earlier
<1>7. IsPlacing(P, w, N)
  BY <1>1, <1>4, <1>5, <1>6 DEF IsPlacing
<1>. QED BY <1>7 DEF P

(* The ranking has the same URLs, once each, the best first.               *)
LEMMA RankedFacts ==
  ASSUME FusionTypes, NEW V, NEW list \in Seq(V), IsInjective(list)
  PROVE  /\ Ranked(list) \in Seq(V) /\ IsInjective(Ranked(list))
         /\ Range(Ranked(list)) = Range(list) /\ Len(Ranked(list)) = Len(list)
         /\ \A m, n \in 1..Len(list) : m < n => Score(Ranked(list)[m]) >= Score(Ranked(list)[n])
<1>. DEFINE N == Len(list)
            w == [n \in 1..N |-> Score(list[n])]
            P == [n \in 1..N |-> Cardinality(Earlier(w, N, n)) + 1]
            q == [k \in 1..N |-> CHOOSE n \in 1..N : P[n] = k]
<1>0. N \in Nat /\ DOMAIN list = 1..N /\ \A n \in 1..N : list[n] \in V
  OBVIOUS
<1>1. w \in [1..N -> Int]
  BY ScoreType
<1>2. IsPlacing(P, w, N)
  <2>. HIDE DEF w, N
  <2>. QED BY <1>0, <1>1, Placing
<1>3. Ranked(list) = [k \in 1..N |-> list[q[k]]]
  <2>1. ASSUME NEW n \in 1..N
        PROVE  Cardinality({m \in 1..N : \/ Score(list[m]) > Score(list[n])
                                         \/ Score(list[m]) = Score(list[n]) /\ m < n}) + 1 = P[n]
    <3>1. {m \in 1..N : \/ Score(list[m]) > Score(list[n])
                        \/ Score(list[m]) = Score(list[n]) /\ m < n} = Earlier(w, N, n)
      BY DEF Earlier
    <3>. HIDE DEF w, N
    <3>. QED BY <3>1
  <2>2. ASSUME NEW k \in 1..N
        PROVE  (CHOOSE n \in 1..N :
                  Cardinality({m \in 1..N : \/ Score(list[m]) > Score(list[n])
                                            \/ Score(list[m]) = Score(list[n]) /\ m < n}) + 1 = k)
                 = (CHOOSE n \in 1..N : P[n] = k)
    <3>. HIDE DEF P, N
    <3>. QED BY <2>1
  <2>3. Ranked(list) = [k \in 1..N |-> list[CHOOSE n \in 1..N :
                  Cardinality({m \in 1..N : \/ Score(list[m]) > Score(list[n])
                                            \/ Score(list[m]) = Score(list[n]) /\ m < n}) + 1 = k]]
    BY <1>0 DEF Ranked
  <2>. HIDE DEF P, N
  <2>. QED BY <2>2, <2>3
<1>. HIDE DEF P
<1>4. /\ P \in [1..N -> 1..N] /\ \A m, n \in 1..N : P[m] = P[n] => m = n
      /\ \A k \in 1..N : \E n \in 1..N : P[n] = k
      /\ \A m, n \in 1..N : P[m] < P[n] => w[m] >= w[n]
  <2>. HIDE DEF w, N
  <2>. QED BY <1>2 DEF IsPlacing
<1>5. /\ q \in [1..N -> 1..N] /\ \A k \in 1..N : P[q[k]] = k
      /\ \A n \in 1..N : q[P[n]] = n
  <2>. HIDE DEF w, N
  <2>. QED BY <1>4
<1>. HIDE DEF q, w
<1>. DEFINE R == [k \in 1..N |-> list[q[k]]]
<1>6. R \in Seq(V) /\ Len(R) = N /\ DOMAIN R = 1..N
  BY <1>0, <1>5
<1>7. IsInjective(R)
  <2>1. SUFFICES ASSUME NEW m \in 1..N, NEW n \in 1..N, R[m] = R[n] PROVE m = n
    BY <1>6 DEF IsInjective
  <2>2. q[m] \in 1..N /\ q[n] \in 1..N /\ list[q[m]] = list[q[n]]
    BY <1>5, <2>1
  <2>3. q[m] = q[n]
    BY <1>0, <2>2 DEF IsInjective
  <2>. QED BY <1>5, <2>3
<1>8. Range(R) = Range(list)
  <2>1. ASSUME NEW n \in 1..N PROVE P[n] \in 1..N /\ R[P[n]] = list[n]
    BY <1>4, <1>5
  <2>2. ASSUME NEW k \in 1..N PROVE q[k] \in 1..N /\ R[k] = list[q[k]]
    BY <1>5
  <2>. HIDE DEF R, N
  <2>3. ASSUME NEW x \in Range(R) PROVE x \in Range(list)
    <3>1. PICK k \in 1..N : x = R[k]
      BY <1>6 DEF Range
    <3>. QED BY <1>0, <2>2, <3>1 DEF Range
  <2>4. ASSUME NEW x \in Range(list) PROVE x \in Range(R)
    <3>1. PICK n \in 1..N : x = list[n]
      BY <1>0 DEF Range
    <3>. QED BY <1>6, <2>1, <3>1 DEF Range
  <2>. QED BY <2>3, <2>4
<1>9. ASSUME NEW m \in 1..N, NEW n \in 1..N, m < n PROVE Score(R[m]) >= Score(R[n])
  <2>1. q[m] \in 1..N /\ q[n] \in 1..N /\ P[q[m]] = m /\ P[q[n]] = n
    BY <1>5
  <2>2. w[q[m]] >= w[q[n]]
    <3>1. P[q[m]] < P[q[n]]
      BY <1>9, <2>1
    <3>. HIDE DEF N
    <3>. QED BY <1>4, <2>1, <3>1
  <2>3. w[q[m]] = Score(list[q[m]]) /\ w[q[n]] = Score(list[q[n]])
    BY <2>1 DEF w
  <2>. QED BY <2>2, <2>3
<1>. HIDE DEF R
<1>. QED BY <1>3, <1>6, <1>7, <1>8, <1>9 DEF R

LEMMA UptoFacts ==
  ASSUME NEW V, NEW list \in Seq(V), NEW n \in Nat
  PROVE  /\ Upto(n, list) \in Seq(V)
         /\ Len(Upto(n, list)) = IF Len(list) < n THEN Len(list) ELSE n
         /\ \A k \in 1..Len(Upto(n, list)) : k \in 1..Len(list) /\ Upto(n, list)[k] = list[k]
         /\ Range(Upto(n, list)) \subseteq Range(list)
         /\ IsInjective(list) => IsInjective(Upto(n, list))
<1>. DEFINE m == IF Len(list) < n THEN Len(list) ELSE n
            U == Upto(n, list)
<1>1. m \in Nat /\ m <= Len(list) /\ 1 \in Int /\ m \in Int /\ DOMAIN list = 1..Len(list)
  OBVIOUS
<1>2. \A k \in 1..m : k \in 1..Len(list) /\ list[k] \in V /\ 1 + k - 1 = k
  BY <1>1
<1>3. U = SubSeq(list, 1, m)
  BY DEF Upto
<1>. HIDE DEF U, m
<1>4. /\ U \in Seq(V) /\ Len(U) = IF 1 <= m THEN m - 1 + 1 ELSE 0
      /\ \A k \in 1..(m - 1 + 1) : U[k] = list[1 + k - 1]
  BY <1>1, <1>2, <1>3, SubSeqProperties
<1>5. Len(U) = m /\ DOMAIN U = 1..m /\ \A k \in 1..m : k \in 1..Len(list) /\ U[k] = list[k]
  <2>1. Len(U) = m /\ DOMAIN U = 1..Len(U) /\ m - 1 + 1 = m
    BY <1>1, <1>4
  <2>. QED BY <1>2, <1>4, <2>1
<1>6. Range(U) \subseteq Range(list)
  BY <1>1, <1>5 DEF Range
<1>7. IsInjective(list) => IsInjective(U)
  BY <1>1, <1>5 DEF IsInjective
<1>. QED BY <1>4, <1>5, <1>6, <1>7 DEF U, m

(* A list without repetitions is as long as its range.                     *)
LEMMA LengthIsCardinality ==
  ASSUME NEW V, NEW list \in Seq(V), IsInjective(list)
  PROVE  Len(list) = Cardinality(Range(list))
<1>1. Len(list) \in Nat /\ DOMAIN list = 1..Len(list) /\ list \in [1..Len(list) -> V]
  OBVIOUS
<1>2. list \in [1..Len(list) -> Range(list)]
  BY <1>1 DEF Range
<1>3. \A x \in Range(list) : \E k \in 1..Len(list) : list[k] = x
  BY <1>1 DEF Range
<1>4. list \in Bijection(1..Len(list), Range(list))
  BY <1>2, <1>3 DEF Bijection, Injection, Surjection
<1>5. ExistsBijection(1..Len(list), Range(list))
  BY <1>4 DEF ExistsBijection
<1>. QED BY <1>1, <1>5, FS_CountingElements

(* What the result of a search is made of.                                 *)
LEMMA ResultFacts ==
  ASSUME FusionTypes
  PROVE  LET n == Cardinality(JoinedUrls) IN
         /\ IsInjective(Result) /\ Range(Result) \subseteq JoinedUrls
         /\ Len(Result) = IF n < most THEN n ELSE most
         /\ asking = "image" =>
              /\ \A u \in Range(Result), v \in JoinedUrls \ Range(Result) : Score(u) >= Score(v)
              /\ \A i, j \in DOMAIN Result : i < j => Score(Result[i]) >= Score(Result[j])
<1>. DEFINE list == Firsts(AllJoined)
            n == Cardinality(JoinedUrls)
<1>1. AllJoined \in Seq(JoinedUrls) /\ Range(AllJoined) = JoinedUrls
  <2>1. joined \in Seq(Match) /\ DOMAIN joined = 1..Len(joined) /\ Len(joined) \in Nat
    BY DEF FusionTypes
  <2>2. AllJoined \in [1..Len(joined) -> JoinedUrls]
    BY <2>1 DEF AllJoined, JoinedUrls
  <2>3. Range(AllJoined) = JoinedUrls
    BY DEF AllJoined, JoinedUrls, Range
  <2>. QED BY <2>1, <2>2, <2>3, SeqDef
<1>2. list \in Seq(JoinedUrls) /\ IsInjective(list) /\ Range(list) = JoinedUrls
  BY <1>1, FirstsFacts
<1>3. Len(list) = n
  BY <1>2, LengthIsCardinality
<1>4. most \in Nat
  BY DEF FusionTypes
<1>. HIDE DEF list, n
<1>5. CASE asking # "image"
  <2>1. Result = Upto(most, list)
    BY <1>5 DEF Result, list
  <2>. QED BY <1>2, <1>3, <1>4, <1>5, <2>1, UptoFacts DEF n
<1>6. CASE asking = "image"
  <2>. DEFINE R == Ranked(list)
              U == Upto(most, R)
              m == Len(U)
  <2>1. Result = U
    BY <1>6 DEF Result, list
  <2>2. /\ R \in Seq(JoinedUrls) /\ IsInjective(R) /\ Range(R) = JoinedUrls /\ Len(R) = n
        /\ \A i, j \in 1..n : i < j => Score(R[i]) >= Score(R[j])
    BY <1>2, <1>3, RankedFacts
  <2>. HIDE DEF R
  <2>3. /\ U \in Seq(JoinedUrls) /\ m = IF n < most THEN n ELSE most
        /\ \A k \in 1..m : k \in 1..n /\ U[k] = R[k]
        /\ Range(U) \subseteq Range(R) /\ IsInjective(U) /\ DOMAIN U = 1..m /\ m \in Nat
    BY <1>4, <2>2, UptoFacts
  <2>4. DOMAIN R = 1..n /\ n \in Nat
    BY <2>2
  <2>. HIDE DEF U, m
  <2>5. ASSUME NEW u \in Range(U), NEW v \in JoinedUrls \ Range(U) PROVE Score(u) >= Score(v)
    <3>1. PICK i \in 1..m : u = U[i]
      BY <2>3 DEF Range
    <3>2. PICK j \in 1..n : v = R[j]
      BY <2>2, <2>4 DEF Range
    <3>3. j \notin 1..m
      <4>1. SUFFICES ASSUME j \in 1..m PROVE v \in Range(U)
        OBVIOUS
      <4>. QED BY <2>3, <3>2, <4>1 DEF Range
    <3>4. i < j
      BY <2>3, <2>4, <3>3
    <3>. QED BY <2>2, <2>3, <3>1, <3>2, <3>4
  <2>6. \A i, j \in 1..m : i < j => Score(U[i]) >= Score(U[j])
    BY <2>2, <2>3
  <2>. QED BY <2>1, <2>2, <2>3, <2>5, <2>6 DEF n, m
<1>. QED BY <1>5, <1>6 DEF n

-----------------------------------------------------------------------------
(* Nothing is given that is not joined or waits to be, until a panic.      *)
EndedUrls == UNION {Range(ended[k]) : k \in {j \in DOMAIN ended : ended[j] # Panic}}

GivenInv ==
  /\ JoinedUrls \subseteq given
  /\ ~panicked => given = JoinedUrls \cup EndedUrls
  /\ fused # NoResult => running = {} /\ ended = <<>>

FusionInv == FusionTypes /\ GivenInv /\ NothingLostWithoutPanic

LEMMA SearchStarts == FusionInit => FusionInv
<1>. SUFFICES ASSUME FusionInit PROVE FusionInv
  OBVIOUS
<1>1. FusionTypes
  BY FusionAssumption DEF FusionInit, FusionTypes
<1>2. JoinedUrls = {} /\ EndedUrls = {} /\ given = {} /\ fused = NoResult
  BY DEF FusionInit, JoinedUrls, EndedUrls
<1>. QED BY <1>1, <1>2 DEF FusionInv, GivenInv, NothingLostWithoutPanic

LEMMA EngineEndsInv ==
  ASSUME FusionInv, NEW e \in Engines, NEW o \in Outcomes, EngineEnds(e, o)
  PROVE  FusionInv'
<1>1. /\ fused = NoResult /\ fused' = NoResult /\ joined' = joined /\ panicked' = panicked
      /\ ended' = Append(ended, o) /\ asking' = asking /\ most' = most
      /\ given' = IF o = Panic THEN given ELSE given \cup Range(o)
  BY DEF EngineEnds, FusionInv, GivenInv
<1>2. ended \in Seq(Outcomes)
  BY DEF FusionInv, FusionTypes
<1>3. FusionTypes'
  BY <1>1, <1>2 DEF FusionInv, FusionTypes
<1>4. JoinedUrls' = JoinedUrls
  BY <1>1 DEF JoinedUrls
<1>5. EndedUrls' = IF o = Panic THEN EndedUrls ELSE EndedUrls \cup Range(o)
  <2>. DEFINE A == Append(ended, o)
              n == Len(ended)
  <2>1. /\ DOMAIN ended = 1..n /\ DOMAIN A = 1..(n + 1) /\ A[n + 1] = o /\ n \in Nat
        /\ \A k \in 1..n : A[k] = ended[k]
    BY <1>2
  <2>2. 1..(n + 1) = (1..n) \cup {n + 1}
    BY <2>1, IntervalNext
  <2>3. EndedUrls' = UNION {Range(A[k]) : k \in {j \in DOMAIN A : A[j] # Panic}}
    BY <1>1 DEF EndedUrls
  <2>. HIDE DEF A, n
  <2>. QED BY <2>1, <2>2, <2>3 DEF EndedUrls
<1>6. GivenInv'
  BY <1>1, <1>4, <1>5 DEF FusionInv, GivenInv
<1>. QED BY <1>1, <1>3, <1>6 DEF FusionInv, NothingLostWithoutPanic

LEMMA PlacesFacts ==
  ASSUME NEW o \in Outcomes, o # Panic
  PROVE  /\ Places(o) \in Seq(Match)
         /\ {Places(o)[k].url : k \in DOMAIN Places(o)} = Range(o)
<1>1. o \in Seq(Urls)
  <2>1. CASE o \in Answers
    <3>1. o \in Seq(Range(o)) /\ Range(o) \subseteq Urls
      BY <2>1, FusionAssumption DEF Urls
    <3>. QED BY <3>1
  <2>2. CASE o = <<>>
    BY <2>2
  <2>. QED BY <2>1, <2>2 DEF Outcomes
<1>2. DOMAIN o = 1..Len(o) /\ Len(o) \in Nat /\ \A k \in 1..Len(o) : o[k] \in Urls /\ k - 1 \in Nat
  BY <1>1
<1>3. Places(o) \in [1..Len(o) -> Match]
  BY <1>2 DEF Places, Match
<1>4. {Places(o)[k].url : k \in DOMAIN Places(o)} = Range(o)
  BY <1>2 DEF Places, Range
<1>. QED BY <1>2, <1>3, <1>4, SeqDef

LEMMA JoinInv == ASSUME FusionInv, JoinNext PROVE FusionInv'
<1>. DEFINE h == Head(ended)
            t == Tail(ended)
            n == Len(t)
<1>1. /\ fused = NoResult /\ fused' = NoResult /\ ~panicked /\ ended # <<>> /\ ended' = t
      /\ asking' = asking /\ most' = most /\ given' = given
      /\ h = Panic => panicked' /\ joined' = joined
      /\ h # Panic => joined' = joined \o Places(h) /\ ~panicked'
  BY DEF JoinNext
<1>2. ended \in Seq(Outcomes) /\ joined \in Seq(Match)
  BY DEF FusionInv, FusionTypes
<1>3. /\ h \in Outcomes /\ t \in Seq(Outcomes) /\ n \in Nat /\ Len(ended) = n + 1
      /\ DOMAIN ended = 1..(n + 1) /\ DOMAIN t = 1..n
      /\ h = ended[1] /\ \A k \in 1..n : t[k] = ended[k + 1]
  BY <1>1, <1>2
<1>. HIDE DEF h, t, n
<1>4. EndedUrls \subseteq EndedUrls' \cup (IF h = Panic THEN {} ELSE Range(h))
  <2>1. SUFFICES ASSUME NEW k \in 1..(n + 1), ended[k] # Panic, NEW x \in Range(ended[k])
                 PROVE  x \in EndedUrls' \cup (IF h = Panic THEN {} ELSE Range(h))
    BY <1>3 DEF EndedUrls
  <2>2. CASE k = 1
    BY <1>3, <2>1, <2>2
  <2>3. CASE k # 1
    <3>1. k - 1 \in 1..n /\ k - 1 + 1 = k
      BY <1>3, <2>3
    <3>2. t[k - 1] = ended[k]
      BY <1>3, <3>1
    <3>. QED BY <1>1, <1>3, <2>1, <3>1, <3>2 DEF EndedUrls
  <2>. QED BY <2>2, <2>3
<1>5. EndedUrls' \subseteq EndedUrls
  <2>1. SUFFICES ASSUME NEW k \in 1..n, t[k] # Panic, NEW x \in Range(t[k]) PROVE x \in EndedUrls
    BY <1>1, <1>3 DEF EndedUrls
  <2>2. k + 1 \in 1..(n + 1) /\ t[k] = ended[k + 1]
    BY <1>3
  <2>. QED BY <1>3, <2>1, <2>2 DEF EndedUrls
<1>6. h # Panic => Range(h) \subseteq EndedUrls
  <2>1. 1 \in 1..(n + 1)
    BY <1>3
  <2>. QED BY <1>3, <2>1 DEF EndedUrls
<1>7. CASE h = Panic
  <2>1. FusionTypes'
    BY <1>1, <1>2, <1>3, <1>7 DEF FusionInv, FusionTypes
  <2>2. JoinedUrls' = JoinedUrls
    BY <1>1, <1>7 DEF JoinedUrls
  <2>3. GivenInv'
    BY <1>1, <1>7, <2>2 DEF FusionInv, GivenInv
  <2>. QED BY <1>1, <2>1, <2>3 DEF FusionInv, NothingLostWithoutPanic
<1>8. CASE h # Panic
  <2>. DEFINE p == Places(h)
              a == Len(joined)
              b == Len(p)
              j == joined \o p
  <2>1. p \in Seq(Match) /\ {p[k].url : k \in DOMAIN p} = Range(h)
    BY <1>3, <1>8, PlacesFacts
  <2>2. joined' = j
    BY <1>1, <1>8
  <2>. HIDE DEF p
  <2>3. /\ j \in Seq(Match) /\ a \in Nat /\ b \in Nat /\ DOMAIN j = 1..(a + b)
        /\ DOMAIN joined = 1..a /\ DOMAIN p = 1..b
        /\ \A k \in 1..a : k \in 1..(a + b) /\ j[k] = joined[k]
        /\ \A k \in 1..b : a + k \in 1..(a + b) /\ j[a + k] = p[k]
    BY <1>2, <2>1
  <2>4. FusionTypes'
    BY <1>1, <1>3, <2>2, <2>3 DEF FusionInv, FusionTypes
  <2>5. \A k \in 1..(a + b) : k \in 1..a \/ (k - a \in 1..b /\ a + (k - a) = k)
    BY <2>3
  <2>. HIDE DEF a, b, j
  <2>6. JoinedUrls' = JoinedUrls \cup Range(h)
    <3>1. JoinedUrls' = {j[k].url : k \in DOMAIN j}
      BY <2>2 DEF JoinedUrls
    <3>2. ASSUME NEW k \in 1..(a + b) PROVE j[k].url \in JoinedUrls \cup Range(h)
      <4>1. CASE k \in 1..a
        BY <2>3, <4>1 DEF JoinedUrls
      <4>2. CASE k - a \in 1..b /\ a + (k - a) = k
        <5>1. j[k] = p[k - a]
          BY <2>3, <4>2
        <5>. QED BY <2>1, <2>3, <4>2, <5>1
      <4>. QED BY <2>5, <4>1, <4>2
    <3>3. ASSUME NEW x \in JoinedUrls PROVE x \in {j[k].url : k \in DOMAIN j}
      <4>1. PICK k \in 1..a : x = joined[k].url
        BY <2>3 DEF JoinedUrls
      <4>. QED BY <2>3, <4>1
    <3>4. ASSUME NEW x \in Range(h) PROVE x \in {j[k].url : k \in DOMAIN j}
      <4>1. PICK k \in 1..b : x = p[k].url
        BY <2>1, <2>3
      <4>. QED BY <2>3, <4>1
    <3>. QED BY <2>3, <3>1, <3>2, <3>3, <3>4
  <2>7. GivenInv'
    BY <1>1, <1>4, <1>5, <1>6, <1>8, <2>6 DEF FusionInv, GivenInv
  <2>. QED BY <1>1, <2>4, <2>7 DEF FusionInv, NothingLostWithoutPanic
<1>. QED BY <1>7, <1>8

LEMMA AnswersInv == ASSUME FusionInv, FusionAnswers PROVE FusionInv'
<1>1. /\ fused' = Result /\ running' = {} /\ ended' = <<>> /\ joined' = joined
      /\ asking' = asking /\ most' = most /\ given' = given /\ panicked' = panicked
      /\ ~panicked => ended = <<>>
  BY DEF FusionAnswers
<1>2. FusionTypes'
  BY <1>1 DEF FusionInv, FusionTypes
<1>3. JoinedUrls' = JoinedUrls /\ EndedUrls' = {} /\ (ended = <<>> => EndedUrls = {})
  BY <1>1 DEF JoinedUrls, EndedUrls
<1>4. GivenInv'
  BY <1>1, <1>3 DEF FusionInv, GivenInv
<1>5. \A u : Score(u)' = Score(u)
  BY <1>1 DEF Score
<1>6. JoinedUrls \subseteq given /\ (~panicked => given = JoinedUrls)
  BY <1>1, <1>3 DEF FusionInv, GivenInv
<1>7. /\ IsInjective(Result) /\ Range(Result) \subseteq JoinedUrls
      /\ Len(Result) = IF Cardinality(JoinedUrls) < most THEN Cardinality(JoinedUrls) ELSE most
      /\ asking = "image" =>
           /\ \A u \in Range(Result), v \in JoinedUrls \ Range(Result) : Score(u) >= Score(v)
           /\ \A i, j \in DOMAIN Result : i < j => Score(Result[i]) >= Score(Result[j])
  BY ResultFacts DEF FusionInv
<1>8. NothingLostWithoutPanic'
  <2>1. Range(Result) \subseteq given
    BY <1>6, <1>7
  <2>2. ~panicked => Len(Result) = IF Cardinality(given) < most THEN Cardinality(given) ELSE most
    BY <1>6, <1>7
  <2>3. ~panicked /\ asking = "image" =>
          \A u \in Range(Result), v \in given \ Range(Result) : Score(u) >= Score(v)
    BY <1>6, <1>7
  <2>. QED BY <1>1, <1>5, <1>7, <2>1, <2>2, <2>3 DEF NothingLostWithoutPanic
<1>. QED BY <1>2, <1>4, <1>8 DEF FusionInv

LEMMA FusionStep == FusionInv /\ [FusionNext]_fusionVars => FusionInv'
<1>. SUFFICES ASSUME FusionInv, [FusionNext]_fusionVars PROVE FusionInv'
  OBVIOUS
<1>1. ASSUME NEW e \in Engines, NEW o \in Answers \cup {<<>>, Panic}, EngineEnds(e, o)
      PROVE  FusionInv'
  BY <1>1, EngineEndsInv DEF Outcomes
<1>2. CASE UNCHANGED fusionVars
  <2>1. \A u : Score(u)' = Score(u)
    BY <1>2 DEF fusionVars, Score
  <2>2. FusionTypes' /\ GivenInv'
    BY <1>2 DEF fusionVars, FusionInv, FusionTypes, GivenInv, JoinedUrls, EndedUrls
  <2>3. NothingLostWithoutPanic'
    BY <1>2, <2>1 DEF fusionVars, FusionInv, NothingLostWithoutPanic
  <2>. QED BY <2>2, <2>3 DEF FusionInv
<1>. QED BY <1>1, <1>2, JoinInv, AnswersInv DEF FusionNext

(* In whatever order the engines finish, fail or panic, for every limit    *)
(* and any answers: unless one panics, no URL given is lost that the limit *)
(* has room for or that ranks above one which is there.                    *)
THEOREM NoAnswerLost == FusionSpec => []NothingLostWithoutPanic
<1>1. FusionInv => NothingLostWithoutPanic
  BY DEF FusionInv
<1>. QED BY <1>1, SearchStarts, FusionStep, PTL DEF FusionSpec
=============================================================================
