---------------------------- MODULE LlmTextProofs -----------------------------
(***************************************************************************)
(* Proofs about LlmText, for every set of words, every page put together   *)
(* from any pieces and every length of a prefix.                           *)
(*                                                                         *)
(* TextOfCode: unless a fence goes with a repeated heading, no word of     *)
(* code ends up outside code and no word of the text in it.  Every pass is *)
(* shown to make of a document one that Sub relates to it; Sub is          *)
(* transitive and goes through concatenation, so a pass that works line by *)
(* line, block by block or by a walk is settled by what it does in one     *)
(* place.                                                                  *)
(*                                                                         *)
(* ParagraphsStay: what a paragraph opens with is in the text, in a        *)
(* heading, or goes with a repeated heading.  A line of prose that begins  *)
(* a paragraph (Opening) is followed through the passes; where one is      *)
(* dropped as a repetition, another with the same first words stays        *)
(* (Vouched), and from there on words are followed (Tells, Said).          *)
(***************************************************************************)
EXTENDS LlmText, CollectionProofs

Docs == Seq(Line)
OutWords(doc) == WordsAt(doc, TRUE)
InWords(doc) == WordsAt(doc, FALSE)

(* Lines and documents. *)
LEMMA LineIs ==
  ASSUME NEW line \in Line
  PROVE  /\ line.mark \in Mark /\ line.words \in Seq(Words)
         /\ line = [mark |-> line.mark, words |-> line.words]
BY DEF Line

LEMMA MakeLine ==
  ASSUME NEW mark \in Mark, NEW words \in Seq(Words)
  PROVE  [mark |-> mark, words |-> words] \in Line
BY DEF Line

LEMMA BlankIs == Blank \in Line /\ ~IsFence(Blank) /\ ~IsHeading(Blank) /\ Blank.words = <<>> /\ Blank.mark = "text"
BY DEF Blank, Line, Mark, IsFence, IsHeading, Level

LEMMA Marks == {"#", "##", "text", "-", "list", "fence", "image"} = Mark /\ DOMAIN Level = {"#", "##"}
BY DEF Mark, Level

LEMMA HeadingNoFence == ASSUME NEW line, IsHeading(line) PROVE ~IsFence(line)
BY Marks DEF IsHeading, IsFence

(* Where a document is outside code. *)
LEMMA OutsideFirst == ASSUME NEW doc PROVE Outside(doc, 1)
<1>1. {m \in 1..(1 - 1) : IsFence(doc[m])} = {}
  OBVIOUS
<1>. QED BY <1>1, FS_EmptySet DEF Outside

LEMMA OutsideNext ==
  ASSUME NEW doc, NEW n \in Nat \ {0}
  PROVE  Outside(doc, n + 1) <=> (Outside(doc, n) <=> ~IsFence(doc[n]))
<1>. DEFINE before == {m \in 1..(n - 1) : IsFence(doc[m])}
            upto == {m \in 1..n : IsFence(doc[m])}
<1>1. n \in Nat /\ n + 1 - 1 = n /\ 1..n = (1..(n - 1)) \cup {n} /\ n \notin 1..(n - 1)
  OBVIOUS
<1>2. IsFiniteSet(before) /\ Cardinality(before) \in Nat
  <2>1. IsFiniteSet(1..(n - 1))
    BY FS_Interval
  <2>2. before \subseteq 1..(n - 1)
    OBVIOUS
  <2>. QED BY <2>1, <2>2, FS_Subset, FS_CardinalityType
<1>3. Outside(doc, n) <=> Cardinality(before) % 2 = 0
  BY DEF Outside
<1>4. Outside(doc, n + 1) <=> Cardinality(upto) % 2 = 0
  BY <1>1 DEF Outside
<1>5. CASE IsFence(doc[n])
  <2>1. upto = before \cup {n} /\ n \notin before
    BY <1>1, <1>5
  <2>. HIDE DEF upto, before
  <2>2. Cardinality(upto) = Cardinality(before) + 1
    BY <1>2, <2>1, FS_AddElement
  <2>. QED BY <1>2, <1>3, <1>4, <1>5, <2>2
<1>6. CASE ~IsFence(doc[n])
  <2>1. upto = before
    BY <1>1, <1>6
  <2>. HIDE DEF upto, before
  <2>. QED BY <1>3, <1>4, <1>6, <2>1
<1>. QED BY <1>5, <1>6

LEMMA OutsideSame ==
  ASSUME NEW a, NEW b, NEW n \in Nat, \A m \in 1..n : IsFence(a[m]) <=> IsFence(b[m])
  PROVE  Outside(a, n + 1) <=> Outside(b, n + 1)
<1>1. {m \in 1..n : IsFence(a[m])} = {m \in 1..n : IsFence(b[m])} /\ n + 1 - 1 = n
  OBVIOUS
<1>2. 1..(n + 1 - 1) = 1..n
  BY <1>1
<1>. QED BY <1>1, <1>2 DEF Outside

LEMMA ConcatIs ==
  ASSUME NEW V, NEW a \in Seq(V), NEW b \in Seq(V)
  PROVE  /\ a \o b \in Seq(V) /\ Len(a \o b) = Len(a) + Len(b)
         /\ Len(a) \in Nat /\ Len(b) \in Nat
         /\ DOMAIN a = 1..Len(a) /\ DOMAIN b = 1..Len(b) /\ DOMAIN (a \o b) = 1..(Len(a) + Len(b))
         /\ \A n \in 1..Len(a) : (a \o b)[n] = a[n]
         /\ \A n \in 1..Len(b) : (a \o b)[Len(a) + n] = b[n]
OBVIOUS

LEMMA OutsideConcat ==
  ASSUME NEW a \in Docs, NEW b \in Docs, NEW k \in Nat, k <= Len(b)
  PROVE  Outside(a \o b, Len(a) + (k + 1)) <=> (EndsOutside(a) <=> Outside(b, k + 1))
<1>. DEFINE T == {n \in Nat : n <= Len(b) =>
                   (Outside(a \o b, Len(a) + (n + 1)) <=> (EndsOutside(a) <=> Outside(b, n + 1)))}
<1>0. /\ Len(a) \in Nat /\ Len(b) \in Nat
      /\ \A n \in 1..Len(a) : (a \o b)[n] = a[n]
      /\ \A n \in 1..Len(b) : (a \o b)[Len(a) + n] = b[n]
  BY ConcatIs DEF Docs
<1>1. 0 \in T
  <2>1. \A m \in 1..Len(a) : IsFence((a \o b)[m]) <=> IsFence(a[m])
    BY <1>0
  <2>2. Outside(a \o b, Len(a) + 1) <=> Outside(a, Len(a) + 1)
    BY <1>0, <2>1, OutsideSame
  <2>3. Outside(b, 0 + 1) /\ Len(a) + (0 + 1) = Len(a) + 1
    BY <1>0, OutsideFirst
  <2>. QED BY <2>2, <2>3 DEF EndsOutside
<1>2. ASSUME NEW n \in Nat, n \in T PROVE n + 1 \in T
  <2>. SUFFICES ASSUME n + 1 <= Len(b)
                PROVE  Outside(a \o b, Len(a) + (n + 1 + 1)) <=> (EndsOutside(a) <=> Outside(b, n + 1 + 1))
    OBVIOUS
  <2>1. /\ n <= Len(b) /\ n + 1 \in 1..Len(b) /\ n + 1 \in Nat \ {0} /\ Len(a) + (n + 1) \in Nat \ {0}
        /\ Len(a) + (n + 1 + 1) = Len(a) + (n + 1) + 1
    BY <1>0
  <2>2. Outside(a \o b, Len(a) + (n + 1)) <=> (EndsOutside(a) <=> Outside(b, n + 1))
    BY <1>2, <2>1
  <2>3. Outside(b, n + 1 + 1) <=> (Outside(b, n + 1) <=> ~IsFence(b[n + 1]))
    BY <2>1, OutsideNext
  <2>4. Outside(a \o b, Len(a) + (n + 1) + 1)
          <=> (Outside(a \o b, Len(a) + (n + 1)) <=> ~IsFence((a \o b)[Len(a) + (n + 1)]))
    BY <2>1, OutsideNext
  <2>5. (a \o b)[Len(a) + (n + 1)] = b[n + 1]
    BY <1>0, <2>1
  <2>. QED BY <2>1, <2>2, <2>3, <2>4, <2>5
<1>. HIDE DEF T
<1>3. k \in T
  BY <1>1, <1>2, SetInduction
<1>. QED BY <1>3 DEF T

(* The words on either side of the fences. *)
LEMMA SidesAre ==
  ASSUME NEW doc, NEW w
  PROVE  /\ w \in OutWords(doc) <=> \E n \in DOMAIN doc : ~IsFence(doc[n]) /\ Outside(doc, n) /\ w \in Range(doc[n].words)
         /\ w \in InWords(doc) <=> \E n \in DOMAIN doc : ~IsFence(doc[n]) /\ ~Outside(doc, n) /\ w \in Range(doc[n].words)
<1>. DEFINE outs == {m \in DOMAIN doc : ~IsFence(doc[m]) /\ Outside(doc, m)}
            ins == {m \in DOMAIN doc : ~IsFence(doc[m]) /\ ~Outside(doc, m)}
<1>1. {m \in DOMAIN doc : ~IsFence(doc[m]) /\ Outside(doc, m) = TRUE} = outs
  BY DEF Outside
<1>2. {m \in DOMAIN doc : ~IsFence(doc[m]) /\ Outside(doc, m) = FALSE} = ins
  BY DEF Outside
<1>3. OutWords(doc) = UNION {Range(doc[n].words) : n \in outs}
  BY <1>1 DEF OutWords, WordsAt
<1>4. InWords(doc) = UNION {Range(doc[n].words) : n \in ins}
  BY <1>2 DEF InWords, WordsAt
<1>. QED BY <1>3, <1>4

LEMMA SaidAre ==
  ASSUME NEW doc, NEW w
  PROVE  w \in Said(doc) <=> \E n \in DOMAIN doc : ~IsFence(doc[n]) /\ w \in Range(doc[n].words)
BY SidesAre DEF Said, OutWords, InWords

LEMMA BothSides ==
  ASSUME NEW doc PROVE \A outside \in BOOLEAN : WordsAt(doc, outside) = IF outside THEN OutWords(doc) ELSE InWords(doc)
BY DEF OutWords, InWords

LEMMA DocIs ==
  ASSUME NEW doc \in Docs
  PROVE  /\ Len(doc) \in Nat /\ DOMAIN doc = 1..Len(doc)
         /\ \A n \in 1..Len(doc) : doc[n] \in Line
BY DEF Docs

LEMMA EndsConcat ==
  ASSUME NEW a \in Docs, NEW b \in Docs
  PROVE  /\ a \o b \in Docs
         /\ EndsOutside(a \o b) <=> (EndsOutside(a) <=> EndsOutside(b))
<1>1. a \in Seq(Line) /\ b \in Seq(Line)
  BY DEF Docs
<1>2. a \o b \in Docs /\ Len(a \o b) = Len(a) + Len(b) /\ Len(a) \in Nat /\ Len(b) \in Nat
  BY <1>1, ConcatIs DEF Docs
<1>3. Len(a \o b) + 1 = Len(a) + (Len(b) + 1) /\ Len(b) <= Len(b)
  BY <1>2
<1>4. Outside(a \o b, Len(a) + (Len(b) + 1)) <=> (EndsOutside(a) <=> Outside(b, Len(b) + 1))
  BY <1>2, <1>3, OutsideConcat
<1>. QED BY <1>2, <1>3, <1>4 DEF EndsOutside

LEMMA OutsideFirstPart ==
  ASSUME NEW a \in Docs, NEW b \in Docs, NEW n \in 1..Len(a)
  PROVE  Outside(a \o b, n) <=> Outside(a, n)
<1>1. \A m \in 1..Len(a) : (a \o b)[m] = a[m]
  BY ConcatIs DEF Docs
<1>2. Len(a) \in Nat
  BY DocIs
<1>3. n - 1 \in Nat /\ n - 1 + 1 = n /\ \A m \in 1..(n - 1) : m \in 1..Len(a)
  BY <1>2
<1>4. \A m \in 1..(n - 1) : IsFence((a \o b)[m]) <=> IsFence(a[m])
  BY <1>1, <1>3
<1>5. Outside(a \o b, n - 1 + 1) <=> Outside(a, n - 1 + 1)
  BY ONLY <1>3, <1>4, OutsideSame
<1>. QED BY <1>3, <1>5

LEMMA SidesConcat ==
  ASSUME NEW a \in Docs, NEW b \in Docs
  PROVE  /\ EndsOutside(a) => /\ OutWords(a \o b) = OutWords(a) \cup OutWords(b)
                              /\ InWords(a \o b) = InWords(a) \cup InWords(b)
         /\ ~EndsOutside(a) => /\ OutWords(a \o b) = OutWords(a) \cup InWords(b)
                               /\ InWords(a \o b) = InWords(a) \cup OutWords(b)
<1>. DEFINE c == a \o b
            has(doc, n, w) == ~IsFence(doc[n]) /\ w \in Range(doc[n].words)
<1>1. /\ c \in Docs /\ Len(c) = Len(a) + Len(b) /\ Len(a) \in Nat /\ Len(b) \in Nat
      /\ DOMAIN a = 1..Len(a) /\ DOMAIN b = 1..Len(b) /\ DOMAIN c = 1..(Len(a) + Len(b))
      /\ \A n \in 1..Len(a) : c[n] = a[n]
      /\ \A n \in 1..Len(b) : c[Len(a) + n] = b[n]
  BY ConcatIs DEF Docs
<1>2. \A n \in 1..Len(a) : Outside(c, n) <=> Outside(a, n)
  BY OutsideFirstPart
<1>3. \A n \in 1..Len(b) : Outside(c, Len(a) + n) <=> (EndsOutside(a) <=> Outside(b, n))
  <2>. SUFFICES ASSUME NEW n \in 1..Len(b)
                PROVE  Outside(c, Len(a) + n) <=> (EndsOutside(a) <=> Outside(b, n))
    OBVIOUS
  <2>1. n - 1 \in Nat /\ n - 1 <= Len(b) /\ n - 1 + 1 = n
    BY <1>1
  <2>2. Outside(c, Len(a) + (n - 1 + 1)) <=> (EndsOutside(a) <=> Outside(b, n - 1 + 1))
    BY <2>1, OutsideConcat
  <2>. QED BY <2>1, <2>2
<1>4. \A n \in 1..(Len(a) + Len(b)) : n \in 1..Len(a) \/ \E m \in 1..Len(b) : n = Len(a) + m
  <2>1. ASSUME NEW n \in 1..(Len(a) + Len(b)), n \notin 1..Len(a)
        PROVE  n - Len(a) \in 1..Len(b) /\ n = Len(a) + (n - Len(a))
    BY <1>1, <2>1
  <2>. QED BY <2>1
<1>5. /\ \A n \in 1..Len(a) : n \in 1..(Len(a) + Len(b))
      /\ \A m \in 1..Len(b) : Len(a) + m \in 1..(Len(a) + Len(b))
  BY <1>1
<1>6. ASSUME NEW w
      PROVE  /\ w \in OutWords(c) <=> \/ \E n \in 1..Len(a) : has(a, n, w) /\ Outside(a, n)
                                      \/ \E n \in 1..Len(b) : has(b, n, w) /\ (EndsOutside(a) <=> Outside(b, n))
             /\ w \in InWords(c) <=> \/ \E n \in 1..Len(a) : has(a, n, w) /\ ~Outside(a, n)
                                     \/ \E n \in 1..Len(b) : has(b, n, w) /\ ~(EndsOutside(a) <=> Outside(b, n))
  <2>1. /\ w \in OutWords(c) <=> \E n \in DOMAIN c : has(c, n, w) /\ Outside(c, n)
        /\ w \in InWords(c) <=> \E n \in DOMAIN c : has(c, n, w) /\ ~Outside(c, n)
    BY SidesAre
  <2>2. \A n \in 1..Len(a) : has(c, n, w) <=> has(a, n, w)
    BY <1>1
  <2>3. \A n \in 1..Len(b) : has(c, Len(a) + n, w) <=> has(b, n, w)
    BY <1>1
  <2>. HIDE DEF c, has
  <2>4. ASSUME w \in OutWords(c)
        PROVE  \/ \E n \in 1..Len(a) : has(a, n, w) /\ Outside(a, n)
               \/ \E n \in 1..Len(b) : has(b, n, w) /\ (EndsOutside(a) <=> Outside(b, n))
    <3>1. PICK n \in 1..(Len(a) + Len(b)) : has(c, n, w) /\ Outside(c, n)
      BY <1>1, <2>1, <2>4
    <3>2. CASE n \in 1..Len(a)
      BY <1>2, <2>2, <3>1, <3>2
    <3>3. CASE n \notin 1..Len(a)
      <4>1. PICK m \in 1..Len(b) : n = Len(a) + m
        BY <1>4, <3>3
      <4>. QED BY <1>3, <2>3, <3>1, <4>1
    <3>. QED BY <3>2, <3>3
  <2>5. ASSUME NEW n \in 1..Len(a), has(a, n, w), Outside(a, n) PROVE w \in OutWords(c)
    <3>1. n \in 1..(Len(a) + Len(b)) /\ has(c, n, w) /\ Outside(c, n)
      BY <1>2, <1>5, <2>2, <2>5
    <3>. QED BY <1>1, <2>1, <3>1
  <2>6. ASSUME NEW n \in 1..Len(b), has(b, n, w), (EndsOutside(a) <=> Outside(b, n))
        PROVE  w \in OutWords(c)
    <3>1. Len(a) + n \in 1..(Len(a) + Len(b)) /\ has(c, Len(a) + n, w) /\ Outside(c, Len(a) + n)
      BY <1>3, <1>5, <2>3, <2>6
    <3>. QED BY <1>1, <2>1, <3>1
  <2>7. ASSUME w \in InWords(c)
        PROVE  \/ \E n \in 1..Len(a) : has(a, n, w) /\ ~Outside(a, n)
               \/ \E n \in 1..Len(b) : has(b, n, w) /\ ~(EndsOutside(a) <=> Outside(b, n))
    <3>1. PICK n \in 1..(Len(a) + Len(b)) : has(c, n, w) /\ ~Outside(c, n)
      BY <1>1, <2>1, <2>7
    <3>2. CASE n \in 1..Len(a)
      BY <1>2, <2>2, <3>1, <3>2
    <3>3. CASE n \notin 1..Len(a)
      <4>1. PICK m \in 1..Len(b) : n = Len(a) + m
        BY <1>4, <3>3
      <4>. QED BY <1>3, <2>3, <3>1, <4>1
    <3>. QED BY <3>2, <3>3
  <2>8. ASSUME NEW n \in 1..Len(a), has(a, n, w), ~Outside(a, n) PROVE w \in InWords(c)
    <3>1. n \in 1..(Len(a) + Len(b)) /\ has(c, n, w) /\ ~Outside(c, n)
      BY <1>2, <1>5, <2>2, <2>8
    <3>. QED BY <1>1, <2>1, <3>1
  <2>9. ASSUME NEW n \in 1..Len(b), has(b, n, w), ~(EndsOutside(a) <=> Outside(b, n))
        PROVE  w \in InWords(c)
    <3>1. Len(a) + n \in 1..(Len(a) + Len(b)) /\ has(c, Len(a) + n, w) /\ ~Outside(c, Len(a) + n)
      BY <1>3, <1>5, <2>3, <2>9
    <3>. QED BY <1>1, <2>1, <3>1
  <2>. QED BY <2>4, <2>5, <2>6, <2>7, <2>8, <2>9
<1>7. ASSUME NEW w
      PROVE  /\ w \in OutWords(a) <=> \E n \in 1..Len(a) : has(a, n, w) /\ Outside(a, n)
             /\ w \in InWords(a) <=> \E n \in 1..Len(a) : has(a, n, w) /\ ~Outside(a, n)
             /\ w \in OutWords(b) <=> \E n \in 1..Len(b) : has(b, n, w) /\ Outside(b, n)
             /\ w \in InWords(b) <=> \E n \in 1..Len(b) : has(b, n, w) /\ ~Outside(b, n)
  BY <1>1, SidesAre
<1>. HIDE DEF c, has
<1>8. CASE EndsOutside(a)
  <2>1. OutWords(c) = OutWords(a) \cup OutWords(b)
    BY <1>6, <1>7, <1>8
  <2>2. InWords(c) = InWords(a) \cup InWords(b)
    BY <1>6, <1>7, <1>8
  <2>. QED BY <1>8, <2>1, <2>2 DEF c
<1>9. CASE ~EndsOutside(a)
  <2>1. OutWords(c) = OutWords(a) \cup InWords(b)
    BY <1>6, <1>7, <1>9
  <2>2. InWords(c) = InWords(a) \cup OutWords(b)
    BY <1>6, <1>7, <1>9
  <2>. QED BY <1>9, <2>1, <2>2 DEF c
<1>. QED BY <1>8, <1>9

(* One document that is, on either side of the fences, made of another.    *)
Sub(out, doc) ==
  /\ EndsOutside(out) <=> EndsOutside(doc)
  /\ OutWords(out) \subseteq OutWords(doc) /\ InWords(out) \subseteq InWords(doc)

LEMMA SubSelf == ASSUME NEW doc PROVE Sub(doc, doc)
BY DEF Sub

LEMMA SubTrans == ASSUME NEW a, NEW b, NEW c, Sub(a, b), Sub(b, c) PROVE Sub(a, c)
BY DEF Sub

LEMMA SubConcat ==
  ASSUME NEW a \in Docs, NEW b \in Docs, NEW c \in Docs, NEW d \in Docs, Sub(a, c), Sub(b, d)
  PROVE  Sub(a \o b, c \o d)
<1>1. /\ EndsOutside(a \o b) <=> (EndsOutside(a) <=> EndsOutside(b))
      /\ EndsOutside(c \o d) <=> (EndsOutside(c) <=> EndsOutside(d))
  BY EndsConcat
<1>2. CASE EndsOutside(a)
  <2>1. /\ OutWords(a \o b) = OutWords(a) \cup OutWords(b) /\ InWords(a \o b) = InWords(a) \cup InWords(b)
        /\ OutWords(c \o d) = OutWords(c) \cup OutWords(d) /\ InWords(c \o d) = InWords(c) \cup InWords(d)
    BY <1>2, SidesConcat DEF Sub
  <2>. QED BY <1>1, <2>1 DEF Sub
<1>3. CASE ~EndsOutside(a)
  <2>1. /\ OutWords(a \o b) = OutWords(a) \cup InWords(b) /\ InWords(a \o b) = InWords(a) \cup OutWords(b)
        /\ OutWords(c \o d) = OutWords(c) \cup InWords(d) /\ InWords(c \o d) = InWords(c) \cup OutWords(d)
    BY <1>3, SidesConcat DEF Sub
  <2>. QED BY <1>1, <2>1 DEF Sub
<1>. QED BY <1>2, <1>3

(* Without a fence all is outside. *)
LEMMA NoFence ==
  ASSUME NEW doc \in Docs, \A n \in 1..Len(doc) : ~IsFence(doc[n])
  PROVE  /\ EndsOutside(doc) /\ InWords(doc) = {}
         /\ \A w : w \in OutWords(doc) <=> \E n \in 1..Len(doc) : w \in Range(doc[n].words)
<1>. DEFINE T == {k \in Nat : k <= Len(doc) => Outside(doc, k + 1)}
<1>0. Len(doc) \in Nat /\ DOMAIN doc = 1..Len(doc)
  BY DocIs
<1>1. 0 \in T
  BY OutsideFirst
<1>2. ASSUME NEW k \in Nat, k \in T PROVE k + 1 \in T
  <2>. SUFFICES ASSUME k + 1 <= Len(doc) PROVE Outside(doc, k + 1 + 1)
    OBVIOUS
  <2>1. k <= Len(doc) /\ k + 1 \in Nat \ {0} /\ k + 1 \in 1..Len(doc)
    BY <1>0
  <2>2. Outside(doc, k + 1) /\ ~IsFence(doc[k + 1])
    BY <1>2, <2>1
  <2>. QED BY <2>1, <2>2, OutsideNext
<1>. HIDE DEF T
<1>3. \A k \in Nat : k \in T
  BY <1>1, <1>2, SetInduction
<1>4. \A k \in Nat : k <= Len(doc) => Outside(doc, k + 1)
  BY <1>3 DEF T
<1>5. EndsOutside(doc)
  BY <1>0, <1>4 DEF EndsOutside
<1>6. \A n \in 1..Len(doc) : Outside(doc, n)
  <2>. SUFFICES ASSUME NEW n \in 1..Len(doc) PROVE Outside(doc, n)
    OBVIOUS
  <2>1. n - 1 \in Nat /\ n - 1 <= Len(doc) /\ n - 1 + 1 = n
    BY <1>0
  <2>. QED BY <1>4, <2>1
<1>. QED BY <1>0, <1>5, <1>6, SidesAre

LEMMA SubNoFence ==
  ASSUME NEW a \in Docs, NEW b \in Docs,
         \A n \in 1..Len(a) : ~IsFence(a[n]), \A n \in 1..Len(b) : ~IsFence(b[n]),
         \A n \in 1..Len(a) : \A w \in Range(a[n].words) : \E m \in 1..Len(b) : w \in Range(b[m].words)
  PROVE  Sub(a, b)
BY NoFence DEF Sub

LEMMA NoneIs == <<>> \in Docs /\ Len(<<>>) = 0
BY DEF Docs

LEMMA SubNone ==
  ASSUME NEW doc \in Docs, \A n \in 1..Len(doc) : ~IsFence(doc[n])
  PROVE  Sub(<<>>, doc)
<1>1. <<>> \in Docs /\ Len(<<>>) = 0 /\ 1..0 = {}
  BY NoneIs
<1>. DEFINE none == <<>>
<1>2. none \in Docs /\ Len(none) = 0 /\ 1..Len(none) = {}
  BY <1>1
<1>. HIDE DEF none
<1>3. Sub(none, doc)
  BY <1>2, SubNoFence
<1>. QED BY <1>3 DEF none

LEMMA OneIs ==
  ASSUME NEW V, NEW e \in V
  PROVE  <<e>> \in Seq(V) /\ Len(<<e>>) = 1 /\ DOMAIN <<e>> = {1} /\ <<e>>[1] = e /\ 1..1 = {1}
OBVIOUS

LEMMA FencePair ==
  ASSUME NEW doc \in Docs, NEW k \in Nat, Len(doc) = k + 1, k >= 1,
         IsFence(doc[1]), IsFence(doc[k + 1]), \A n \in 2..k : ~IsFence(doc[n])
  PROVE  EndsOutside(doc)
<1>. DEFINE T == {n \in Nat : n + 1 <= k => ~Outside(doc, n + 1 + 1)}
<1>1. 0 \in T
  <2>1. 1 \in Nat \ {0} /\ Outside(doc, 1) /\ IsFence(doc[1]) /\ 0 + 1 = 1
    BY OutsideFirst
  <2>2. ~Outside(doc, 1 + 1)
    BY <2>1, OutsideNext
  <2>. QED BY <2>1, <2>2
<1>2. ASSUME NEW n \in Nat, n \in T PROVE n + 1 \in T
  <2>. SUFFICES ASSUME n + 1 + 1 <= k PROVE ~Outside(doc, n + 1 + 1 + 1)
    OBVIOUS
  <2>1. n + 1 <= k /\ n + 1 + 1 \in Nat \ {0} /\ n + 1 + 1 \in 2..k
    OBVIOUS
  <2>2. ~Outside(doc, n + 1 + 1) /\ ~IsFence(doc[n + 1 + 1])
    BY <1>2, <2>1
  <2>. QED BY <2>1, <2>2, OutsideNext
<1>. HIDE DEF T
<1>3. \A n \in Nat : n \in T
  BY <1>1, <1>2, SetInduction
<1>4. k - 1 \in Nat /\ k - 1 + 1 = k /\ k - 1 + 1 + 1 = k + 1 /\ k <= k /\ k + 1 \in Nat \ {0}
  OBVIOUS
<1>5. ~Outside(doc, k + 1)
  BY <1>3, <1>4 DEF T
<1>6. Outside(doc, k + 1 + 1)
  BY <1>4, <1>5, OutsideNext
<1>. QED BY <1>6 DEF EndsOutside

(* What a recursion upwards, or one downwards, makes. *)
Upwards(g, base, S, V, N) ==
  g \in [0..N -> V] /\ g[0] = base /\ \A n \in 1..N : g[n] = S[<<n, g[n - 1]>>]

LEMMA UpwardsIs ==
  ASSUME NEW V, NEW N \in Nat, NEW base \in V, NEW S \in [(1..N) \X V -> V]
  PROVE  \E g : Upwards(g, base, S, V, N)
<1>. DEFINE F == [c \in Nat \X V |-> IF c[1] + 1 \in 1..N THEN S[<<c[1] + 1, c[2]>>] ELSE c[2]]
<1>1. F \in [Nat \X V -> V]
  OBVIOUS
<1>2. \A n \in 1..N, x \in V : F[<<n - 1, x>>] = S[<<n, x>>]
  <2>. SUFFICES ASSUME NEW n \in 1..N, NEW x \in V PROVE F[<<n - 1, x>>] = S[<<n, x>>]
    OBVIOUS
  <2>1. n - 1 \in Nat /\ n - 1 + 1 = n
    OBVIOUS
  <2>2. F[<<n - 1, x>>] = IF n - 1 + 1 \in 1..N THEN S[<<n - 1 + 1, x>>] ELSE x
    BY <2>1
  <2>. HIDE DEF F
  <2>. QED BY <2>1, <2>2
<1>3. PICK g : IsTable(g, base, F, V, N)
  <2>1. IsStep(F, V)
    BY <1>1 DEF IsStep
  <2>. HIDE DEF F
  <2>. QED BY <2>1, Table
<1>. HIDE DEF F
<1>4. g \in [0..N -> V] /\ g[0] = base /\ \A n \in 1..N : g[n] = F[<<n - 1, g[n - 1]>>]
  BY <1>3 DEF IsTable
<1>5. ASSUME NEW n \in 1..N PROVE g[n] = S[<<n, g[n - 1]>>]
  <2>1. n - 1 \in 0..N
    OBVIOUS
  <2>. QED BY <1>2, <1>4, <2>1
<1>. QED BY <1>4, <1>5 DEF Upwards

Local(E, V, N) ==
  \A n \in 1..(N + 1) : \A g, h \in [1..(N + 1) -> V] :
    (\A m \in (n + 1)..(N + 1) : g[m] = h[m]) => E[<<n, g>>] = E[<<n, h>>]
Downwards(g, E, V, N) ==
  g \in [1..(N + 1) -> V] /\ \A n \in 1..(N + 1) : g[n] = E[<<n, g>>]

LEMMA DownwardsIs ==
  ASSUME NEW V, NEW N \in Nat, NEW any \in V,
         NEW E \in [(1..(N + 1)) \X [1..(N + 1) -> V] -> V], Local(E, V, N)
  PROVE  \E g : Downwards(g, E, V, N)
<1>. DEFINE W == [1..(N + 1) -> V]
            put(k, g) == [m \in 1..(N + 1) |-> IF m = N + 2 - k THEN E[<<N + 2 - k, g>>] ELSE g[m]]
            S == [c \in (1..(N + 1)) \X W |-> put(c[1], c[2])]
            base == [m \in 1..(N + 1) |-> any]
<1>1. N + 1 \in Nat /\ base \in W /\ \A k \in 1..(N + 1) : N + 2 - k \in 1..(N + 1)
  OBVIOUS
<1>2. \A k \in 1..(N + 1), g \in W : put(k, g) \in W
  BY <1>1
<1>3. S \in [(1..(N + 1)) \X W -> W]
  <2>. HIDE DEF put, W
  <2>. QED BY <1>2
<1>4. \A k \in 1..(N + 1), g \in W : S[<<k, g>>] = put(k, g)
  <2>. HIDE DEF put, W
  <2>. QED OBVIOUS
<1>. HIDE DEF S
<1>5. PICK f : Upwards(f, base, S, W, N + 1)
  <2>. DEFINE M == N + 1
  <2>1. M \in Nat /\ base \in W /\ S \in [(1..M) \X W -> W]
    BY <1>1, <1>3
  <2>. HIDE DEF base, M, W
  <2>2. \E f : Upwards(f, base, S, W, M)
    BY <2>1, UpwardsIs
  <2>. QED BY <2>2 DEF M
<1>. HIDE DEF base
<1>6. \A k \in 0..(N + 1) : f[k] \in W
  BY <1>5 DEF Upwards
<1>7. \A k \in 1..(N + 1) : f[k] = put(k, f[k - 1])
  <2>. SUFFICES ASSUME NEW k \in 1..(N + 1) PROVE f[k] = put(k, f[k - 1])
    OBVIOUS
  <2>1. k - 1 \in 0..(N + 1)
    OBVIOUS
  <2>2. f[k] = S[<<k, f[k - 1]>>] /\ f[k - 1] \in W
    BY <1>5, <1>6, <2>1 DEF Upwards
  <2>. HIDE DEF put, W
  <2>. QED BY <1>4, <2>2
<1>. DEFINE after(k) == /\ f[k][N + 2 - k] = E[<<N + 2 - k, f[k - 1]>>]
                        /\ \A m \in 1..(N + 1) : m # N + 2 - k => f[k][m] = f[k - 1][m]
            done(k) == k <= N + 1 => \A m \in (N + 2 - k)..(N + 1) : f[k][m] = E[<<m, f[k]>>]
            T == {k \in Nat : done(k)}
<1>8. ASSUME NEW k \in 1..(N + 1) PROVE after(k)
  <2>1. N + 2 - k \in 1..(N + 1) /\ k - 1 \in 0..(N + 1)
    BY <1>1
  <2>2. f[k] = put(k, f[k - 1]) /\ f[k - 1] \in [1..(N + 1) -> V]
    BY <1>6, <1>7, <2>1
  <2>. QED BY <2>1, <2>2
<1>. HIDE DEF put
<1>9. 0 \in T
  <2>1. (N + 2 - 0)..(N + 1) = {}
    OBVIOUS
  <2>. QED BY <2>1
<1>10. ASSUME NEW k \in Nat, k \in T PROVE k + 1 \in T
  <2>0. k + 1 \in Nat
    OBVIOUS
  <2>. SUFFICES done(k + 1)
    <3>. HIDE DEF done
    <3>. QED BY <2>0
  <2>. HAVE k + 1 <= N + 1
  <2>. SUFFICES ASSUME NEW m \in (N + 2 - (k + 1))..(N + 1) PROVE f[k + 1][m] = E[<<m, f[k + 1]>>]
    OBVIOUS
  <2>. DEFINE at == N + 2 - (k + 1)
  <2>1. /\ k \in 0..(N + 1) /\ k + 1 \in 1..(N + 1) /\ k + 1 - 1 = k /\ k <= N + 1
        /\ at \in 1..(N + 1) /\ m \in 1..(N + 1) /\ m >= at /\ k + 1 \in 0..(N + 1)
    OBVIOUS
  <2>2. /\ f[k + 1][at] = E[<<at, f[k]>>]
        /\ \A j \in 1..(N + 1) : j # at => f[k + 1][j] = f[k][j]
        /\ f[k] \in W /\ f[k + 1] \in W
    <3>. HIDE DEF W
    <3>1. f[k] \in W /\ f[k + 1] \in W
      BY <1>6, <2>1
    <3>2. /\ f[k + 1][at] = E[<<at, f[k + 1 - 1]>>]
          /\ \A j \in 1..(N + 1) : j # at => f[k + 1][j] = f[k + 1 - 1][j]
      <4>1. after(k + 1)
        <5>. HIDE DEF after
        <5>. QED BY <1>8, <2>1
      <4>. QED BY <4>1
    <3>. QED BY <2>1, <3>1, <3>2
  <2>3. E[<<m, f[k]>>] = E[<<m, f[k + 1]>>]
    <3>1. \A j \in (m + 1)..(N + 1) : j \in 1..(N + 1) /\ j # at
      BY <2>1
    <3>. HIDE DEF at
    <3>2. \A j \in (m + 1)..(N + 1) : f[k][j] = f[k + 1][j]
      BY <2>2, <3>1
    <3>3. m \in 1..(N + 1) /\ f[k] \in W /\ f[k + 1] \in W
      BY <2>1, <2>2
    <3>. QED BY <3>2, <3>3 DEF Local
  <2>4. CASE m = at
    BY <2>2, <2>3, <2>4
  <2>5. CASE m # at
    <3>1. m \in (N + 2 - k)..(N + 1)
      BY <2>1, <2>5
    <3>2. f[k][m] = E[<<m, f[k]>>]
      BY <1>10, <2>1, <3>1
    <3>. HIDE DEF at
    <3>. QED BY <2>1, <2>2, <2>3, <2>5, <3>2
  <2>. QED BY <2>4, <2>5
<1>11. N + 1 \in T
  <2>. HIDE DEF T
  <2>1. \A k \in Nat : k \in T
    BY <1>9, <1>10, SetInduction
  <2>. QED BY <2>1
<1>12. \A m \in 1..(N + 1) : f[N + 1][m] = E[<<m, f[N + 1]>>]
  <2>1. \A m \in 1..(N + 1) : m \in (N + 2 - (N + 1))..(N + 1)
    OBVIOUS
  <2>2. \A m \in (N + 2 - (N + 1))..(N + 1) : f[N + 1][m] = E[<<m, f[N + 1]>>]
    <3>. HIDE DEF W
    <3>1. N + 1 <= N + 1
      OBVIOUS
    <3>. QED BY <1>11, <3>1
  <2>. HIDE DEF T, W
  <2>. QED BY <2>1, <2>2
<1>13. f[N + 1] \in W
  BY <1>6
<1>. QED BY <1>12, <1>13 DEF Downwards

(* What Keep does, place by place. *)
KeepSteps(up, s, places) ==
  /\ up[0] = <<>>
  /\ \A n \in 1..Len(s) : up[n] = IF n \in places THEN Append(up[n - 1], s[n]) ELSE up[n - 1]

LEMMA KeepUp ==
  ASSUME NEW V, NEW s \in Seq(V), NEW places
  PROVE  \E up : /\ KeepSteps(up, s, places) /\ Keep(s, places) = up[Len(s)]
                 /\ \A n \in 0..Len(s) : up[n] \in Seq(V)
<1>. DEFINE N == Len(s)
            step(n, x) == IF n \in places THEN Append(x, s[n]) ELSE x
            entry(h, n) == IF n = 0 THEN <<>> ELSE IF n \in places THEN Append(h[n - 1], s[n]) ELSE h[n - 1]
            S == [c \in (1..N) \X Seq(V) |-> step(c[1], c[2])]
            up == CHOOSE h : h = [n \in 0..Len(s) |-> entry(h, n)]
<1>1. N \in Nat /\ <<>> \in Seq(V)
  OBVIOUS
<1>2. \A n \in 1..N, x \in Seq(V) : step(n, x) \in Seq(V)
  OBVIOUS
<1>3. S \in [(1..N) \X Seq(V) -> Seq(V)] /\ \A n \in 1..N, x \in Seq(V) : S[<<n, x>>] = step(n, x)
  <2>. HIDE DEF step, N
  <2>. QED BY <1>2
<1>. HIDE DEF S
<1>4. PICK g : Upwards(g, <<>>, S, Seq(V), N)
  <2>. DEFINE base == <<>>
              W == Seq(V)
  <2>1. base \in W /\ S \in [(1..N) \X W -> W]
    BY <1>1, <1>3
  <2>. HIDE DEF base, W, N
  <2>2. \E g : Upwards(g, base, S, W, N)
    BY <1>1, <2>1, UpwardsIs
  <2>. QED BY <2>2 DEF base, W
<1>5. \A n \in 0..N : g[n] \in Seq(V) /\ g[n] = entry(g, n)
  <2>1. g[0] = <<>> /\ \A n \in 0..N : g[n] \in Seq(V)
    BY <1>4 DEF Upwards
  <2>2. ASSUME NEW n \in 1..N PROVE g[n] = step(n, g[n - 1])
    <3>1. g[n] = S[<<n, g[n - 1]>>] /\ n - 1 \in 0..N
      BY <1>4 DEF Upwards
    <3>. HIDE DEF step, N
    <3>. QED BY <1>3, <2>1, <3>1
  <2>3. \A n \in 0..N : n = 0 \/ n \in 1..N
    BY <1>1
  <2>. HIDE DEF N
  <2>. QED BY <2>1, <2>2, <2>3
<1>6. g = [n \in 0..N |-> entry(g, n)]
  <2>1. DOMAIN g = 0..N /\ g = [n \in 0..N |-> g[n]]
    BY <1>4 DEF Upwards
  <2>. HIDE DEF N, entry
  <2>. QED BY <1>5, <2>1
<1>7. up = [n \in 0..N |-> entry(up, n)]
  <2>. HIDE DEF entry
  <2>. QED BY <1>6
<1>8. Keep(s, places) = up[N]
  BY DEF Keep
<1>. HIDE DEF up
<1>9. \A n \in 0..N : up[n] = entry(up, n)
  <2>. HIDE DEF entry, N
  <2>. QED BY <1>7
<1>. DEFINE T == {n \in Nat : n \in 0..N => up[n] \in Seq(V)}
<1>10. 0 \in T
  BY <1>1, <1>9
<1>11. ASSUME NEW n \in Nat, n \in T PROVE n + 1 \in T
  <2>. SUFFICES ASSUME n + 1 \in 0..N PROVE up[n + 1] \in Seq(V)
    OBVIOUS
  <2>1. n \in 0..N /\ n + 1 \in 1..N /\ n + 1 # 0 /\ n + 1 - 1 = n
    BY <1>1, OneBelow
  <2>2. up[n] \in Seq(V) /\ s[n + 1] \in V
    BY <1>11, <2>1
  <2>3. up[n + 1] = entry(up, n + 1)
    <3>. HIDE DEF N, entry
    <3>. QED BY <1>9, <2>1
  <2>. QED BY <2>1, <2>2, <2>3
<1>12. \A n \in 0..N : up[n] \in Seq(V)
  <2>. HIDE DEF T
  <2>1. \A n \in Nat : n \in T
    BY <1>10, <1>11, SetInduction
  <2>. QED BY <2>1 DEF T
<1>13. KeepSteps(up, s, places)
  <2>1. up[0] = <<>>
    BY <1>1, <1>9
  <2>2. ASSUME NEW n \in 1..Len(s)
        PROVE  up[n] = IF n \in places THEN Append(up[n - 1], s[n]) ELSE up[n - 1]
    BY <1>1, <1>9
  <2>. QED BY <2>1, <2>2 DEF KeepSteps
<1>. QED BY <1>8, <1>12, <1>13

Prefix(s, n) == SubSeq(s, 1, n)
Suffix(s, n) == SubSeq(s, n, Len(s))

LEMMA PrefixIs ==
  ASSUME NEW V, NEW s \in Seq(V)
  PROVE  /\ Prefix(s, 0) = <<>> /\ Prefix(s, Len(s)) = s
         /\ \A n \in 0..Len(s) : Prefix(s, n) \in Seq(V) /\ Len(Prefix(s, n)) = n
         /\ \A n \in 0..Len(s) : \A k \in 1..n : Prefix(s, n)[k] = s[k]
         /\ \A n \in Nat : n + 1 <= Len(s) => Prefix(s, n + 1) = Prefix(s, n) \o <<s[n + 1]>>
<1>1. Prefix(s, 0) = <<>>
  BY SubSeqEmpty DEF Prefix
<1>2. Prefix(s, Len(s)) = s
  BY SubSeqFull DEF Prefix
<1>3. \A n \in 0..Len(s) : /\ Prefix(s, n) \in Seq(V) /\ Len(Prefix(s, n)) = n
                           /\ \A k \in 1..n : Prefix(s, n)[k] = s[k]
  BY SubSeqProperties DEF Prefix
<1>4. ASSUME NEW n \in Nat, n + 1 <= Len(s)
      PROVE  Prefix(s, n + 1) = Prefix(s, n) \o <<s[n + 1]>>
  <2>1. 1 \in 1..Len(s) /\ n + 1 \in 1..Len(s) /\ n + 1 - 1 = n
    BY <1>4
  <2>. DEFINE m == n + 1
  <2>2. m \in 1..Len(s)
    BY <2>1
  <2>. HIDE DEF m
  <2>3. SubSeq(s, 1, m) = SubSeq(s, 1, m - 1) \o <<s[m]>>
    BY <2>1, <2>2, SubSeqRecursiveSecond
  <2>. QED BY <2>1, <2>3 DEF Prefix, m
<1>. QED BY <1>1, <1>2, <1>3, <1>4

LEMMA SuffixIs ==
  ASSUME NEW V, NEW s \in Seq(V)
  PROVE  /\ Suffix(s, 1) = s /\ Suffix(s, Len(s) + 1) = <<>>
         /\ \A n \in 1..(Len(s) + 1) : Suffix(s, n) \in Seq(V) /\ Len(Suffix(s, n)) = Len(s) + 1 - n
         /\ \A n \in 1..Len(s) : Suffix(s, n) = <<s[n]>> \o Suffix(s, n + 1)
         /\ \A n \in 1..(Len(s) + 1), m \in 1..(Len(s) + 1) :
              n <= m => Suffix(s, n) = SubSeq(s, n, m - 1) \o Suffix(s, m)
<1>0. Len(s) \in Nat
  OBVIOUS
<1>1. Suffix(s, 1) = s
  BY SubSeqFull DEF Suffix
<1>2. Suffix(s, Len(s) + 1) = <<>>
  BY <1>0, SubSeqEmpty DEF Suffix
<1>3. \A n \in 1..(Len(s) + 1) : Suffix(s, n) \in Seq(V) /\ Len(Suffix(s, n)) = Len(s) + 1 - n
  BY <1>0, SubSeqProperties DEF Suffix
<1>4. ASSUME NEW n \in 1..Len(s) PROVE Suffix(s, n) = <<s[n]>> \o Suffix(s, n + 1)
  <2>1. Len(s) \in n..Len(s)
    BY <1>0
  <2>. QED BY <2>1, SubSeqRecursiveFirst DEF Suffix
<1>5. ASSUME NEW n \in 1..(Len(s) + 1), NEW m \in 1..(Len(s) + 1), n <= m
      PROVE  Suffix(s, n) = SubSeq(s, n, m - 1) \o Suffix(s, m)
  <2>. DEFINE k == m - 1
  <2>1. k \in (n - 1)..Len(s) /\ Len(s) \in k..Len(s) /\ k + 1 = m
    BY <1>0, <1>5
  <2>. HIDE DEF k
  <2>2. SubSeq(s, n, k) \o SubSeq(s, k + 1, Len(s)) = SubSeq(s, n, Len(s))
    BY <2>1, ConcatAdjacentSubSeq
  <2>. QED BY <2>1, <2>2 DEF Suffix, k
<1>. QED BY <1>1, <1>2, <1>3, <1>4, <1>5

LEMMA PartIs ==
  ASSUME NEW V, NEW s \in Seq(V), NEW n \in 1..(Len(s) + 1), NEW m \in n..(Len(s) + 1)
  PROVE  /\ SubSeq(s, n, m - 1) \in Seq(V) /\ Len(SubSeq(s, n, m - 1)) = m - n
         /\ \A k \in 1..(m - n) : SubSeq(s, n, m - 1)[k] = s[n + k - 1]
         /\ \A k \in n..(m - 1) : k - n + 1 \in 1..(m - n) /\ SubSeq(s, n, m - 1)[k - n + 1] = s[k]
<1>0. Len(s) \in Nat /\ m - 1 \in Int /\ n \in Int /\ \A i \in n..(m - 1) : s[i] \in V
  OBVIOUS
<1>1. m - 1 - n + 1 = m - n /\ (~(n <= m - 1) => m - n = 0)
  BY <1>0
<1>2. /\ SubSeq(s, n, m - 1) \in Seq(V) /\ Len(SubSeq(s, n, m - 1)) = m - n
      /\ \A k \in 1..(m - n) : SubSeq(s, n, m - 1)[k] = s[n + k - 1]
  <2>. DEFINE k == m - 1
  <2>1. k \in Int /\ k - n + 1 = m - n /\ \A i \in n..k : s[i] \in V
    BY <1>0
  <2>2. /\ SubSeq(s, n, k) \in Seq(V) /\ Len(SubSeq(s, n, k)) = IF n <= k THEN k - n + 1 ELSE 0
        /\ \A i \in 1..(k - n + 1) : SubSeq(s, n, k)[i] = s[n + i - 1]
    <3>. HIDE DEF k
    <3>. QED BY <1>0, <2>1, SubSeqProperties
  <2>. QED BY <1>1, <2>1, <2>2
<1>3. ASSUME NEW k \in n..(m - 1)
      PROVE  k - n + 1 \in 1..(m - n) /\ SubSeq(s, n, m - 1)[k - n + 1] = s[k]
  <2>1. k - n + 1 \in 1..(m - n) /\ n + (k - n + 1) - 1 = k
    BY <1>0
  <2>. QED BY <1>2, <2>1
<1>. QED BY <1>2, <1>3

(* Where the members kept stand. *)
Placed(at, s, places, out) ==
  /\ at \in [0..Len(s) -> Nat] /\ at[0] = 0 /\ at[Len(s)] = Len(out)
  /\ \A n \in 1..Len(s) : at[n] = IF n \in places THEN at[n - 1] + 1 ELSE at[n - 1]
  /\ \A n \in 1..Len(s) : n \in places => at[n] \in 1..Len(out) /\ out[at[n]] = s[n]
  /\ \A k \in 1..Len(out) : \E n \in 1..Len(s) : n \in places /\ at[n] = k

LEMMA KeepPlaced ==
  ASSUME NEW V, NEW s \in Seq(V), NEW places
  PROVE  Keep(s, places) \in Seq(V) /\ \E at : Placed(at, s, places, Keep(s, places))
<1>1. PICK up : /\ KeepSteps(up, s, places) /\ Keep(s, places) = up[Len(s)]
                /\ \A n \in 0..Len(s) : up[n] \in Seq(V)
  BY KeepUp
<1>. DEFINE N == Len(s)
            at == [n \in 0..N |-> Len(up[n])]
            good(n) == /\ \A m \in 1..n : m \in places => at[m] \in 1..Len(up[n]) /\ up[n][at[m]] = s[m]
                       /\ \A k \in 1..Len(up[n]) : \E m \in 1..n : m \in places /\ at[m] = k
            T == {n \in Nat : n \in 0..N => good(n)}
<1>2. N \in Nat /\ \A n \in 1..N : s[n] \in V
  OBVIOUS
<1>3. \A n \in 0..N : up[n] \in Seq(V) /\ Len(up[n]) \in Nat /\ at[n] = Len(up[n])
  BY <1>1
<1>4. up[0] = <<>>
  BY <1>1 DEF KeepSteps
<1>5. \A n \in 1..N : up[n] = IF n \in places THEN Append(up[n - 1], s[n]) ELSE up[n - 1]
  BY <1>1 DEF KeepSteps
<1>6. 0 \in T
  <2>1. 1..0 = {} /\ Len(<<>>) = 0
    OBVIOUS
  <2>2. good(0)
    BY <1>4, <2>1
  <2>. QED BY <2>2
<1>7. ASSUME NEW n \in Nat, n \in T PROVE n + 1 \in T
  <2>0. n + 1 \in Nat
    OBVIOUS
  <2>. SUFFICES ASSUME n + 1 \in 0..N PROVE good(n + 1)
    <3>. HIDE DEF good
    <3>. QED BY <2>0
  <2>1. n \in 0..N /\ n + 1 \in 1..N /\ n + 1 # 0 /\ n + 1 - 1 = n
    BY <1>2, OneBelow
  <2>2. good(n) /\ up[n] \in Seq(V) /\ s[n + 1] \in V /\ up[n + 1] \in Seq(V)
    BY <1>2, <1>3, <1>7, <2>1
  <2>3. 1..(n + 1) = (1..n) \cup {n + 1}
    BY IntervalNext
  <2>4. \A m \in 1..n : m \in 0..N
    BY <1>2, <2>1
  <2>a. up[n + 1] = IF n + 1 \in places THEN Append(up[n], s[n + 1]) ELSE up[n]
    <3>. HIDE DEF N
    <3>1. up[n + 1] = IF n + 1 \in places THEN Append(up[n + 1 - 1], s[n + 1]) ELSE up[n + 1 - 1]
      BY <1>5, <2>1
    <3>. QED BY <2>1, <3>1
  <2>5. CASE n + 1 \in places
    <3>1. up[n + 1] = Append(up[n], s[n + 1])
      BY <2>5, <2>a
    <3>. HIDE DEF at, N
    <3>2. /\ Len(up[n + 1]) = Len(up[n]) + 1 /\ up[n + 1][Len(up[n]) + 1] = s[n + 1]
          /\ \A k \in 1..Len(up[n]) : up[n + 1][k] = up[n][k]
      BY <2>2, <3>1, AppendProperties
    <3>3. at[n + 1] = Len(up[n]) + 1 /\ Len(up[n]) \in Nat
      BY <1>3, <2>1, <3>2
    <3>4. ASSUME NEW m \in 1..(n + 1), m \in places
          PROVE  at[m] \in 1..Len(up[n + 1]) /\ up[n + 1][at[m]] = s[m]
      <4>1. CASE m = n + 1
        BY <3>2, <3>3, <4>1
      <4>2. CASE m \in 1..n
        <5>1. at[m] \in 1..Len(up[n]) /\ up[n][at[m]] = s[m]
          BY <2>2, <3>4, <4>2
        <5>. QED BY <3>2, <3>3, <5>1
      <4>. QED BY <2>3, <4>1, <4>2
    <3>5. ASSUME NEW k \in 1..Len(up[n + 1]) PROVE \E m \in 1..(n + 1) : m \in places /\ at[m] = k
      <4>1. CASE k = Len(up[n]) + 1
        BY <2>3, <2>5, <3>3, <4>1
      <4>2. CASE k # Len(up[n]) + 1
        <5>1. k \in 1..Len(up[n])
          BY <3>2, <3>3, <4>2
        <5>2. \E m \in 1..n : m \in places /\ at[m] = k
          BY <2>2, <5>1
        <5>. QED BY <2>3, <5>2
      <4>. QED BY <4>1, <4>2
    <3>. QED BY <3>4, <3>5
  <2>6. CASE n + 1 \notin places
    <3>1. up[n + 1] = up[n]
      BY <2>6, <2>a
    <3>. HIDE DEF at, N
    <3>. QED BY <2>2, <2>3, <2>6, <3>1
  <2>. QED BY <2>5, <2>6
<1>8. good(N)
  <2>. HIDE DEF good
  <2>1. \A n \in Nat : n \in T
    <3>. HIDE DEF T
    <3>. QED BY <1>6, <1>7, SetInduction
  <2>2. N \in 0..N
    BY <1>2
  <2>. QED BY <1>2, <2>1, <2>2
<1>9. ASSUME NEW n \in 1..N PROVE at[n] = IF n \in places THEN at[n - 1] + 1 ELSE at[n - 1]
  <2>1. n - 1 \in 0..N /\ n \in 0..N
    BY <1>2
  <2>2. up[n - 1] \in Seq(V) /\ s[n] \in V
    BY <1>2, <1>3, <2>1
  <2>3. Len(Append(up[n - 1], s[n])) = Len(up[n - 1]) + 1
    BY <2>2, AppendProperties
  <2>. HIDE DEF N
  <2>. QED BY <1>3, <1>5, <2>1, <2>3
<1>10. at \in [0..N -> Nat] /\ at[0] = 0 /\ at[N] = Len(up[N])
  <2>1. 0 \in 0..N /\ N \in 0..N
    BY <1>2
  <2>. QED BY <1>3, <1>4, <2>1
<1>11. Keep(s, places) = up[N] /\ up[N] \in Seq(V)
  <2>1. N \in 0..N
    BY <1>2
  <2>. QED BY <1>1, <2>1
<1>12. Placed(at, s, places, up[N])
  <2>. HIDE DEF at
  <2>. QED BY <1>8, <1>9, <1>10 DEF Placed
<1>. QED BY <1>11, <1>12

LEMMA KeepMembers ==
  ASSUME NEW V, NEW s \in Seq(V), NEW places
  PROVE  /\ Keep(s, places) \in Seq(V)
         /\ \A k \in 1..Len(Keep(s, places)) :
              \E n \in 1..Len(s) : n \in places /\ Keep(s, places)[k] = s[n]
         /\ \A n \in 1..Len(s) :
              n \in places => \E k \in 1..Len(Keep(s, places)) : Keep(s, places)[k] = s[n]
<1>1. Keep(s, places) \in Seq(V)
  BY KeepPlaced
<1>2. PICK at : Placed(at, s, places, Keep(s, places))
  BY KeepPlaced
<1>. DEFINE out == Keep(s, places)
<1>. HIDE DEF out
<1>3. /\ \A n \in 1..Len(s) : n \in places => at[n] \in 1..Len(out) /\ out[at[n]] = s[n]
      /\ \A k \in 1..Len(out) : \E n \in 1..Len(s) : n \in places /\ at[n] = k
  BY <1>2, Zenon DEF Placed, out
<1>4. ASSUME NEW k \in 1..Len(out) PROVE \E n \in 1..Len(s) : n \in places /\ out[k] = s[n]
  <2>1. PICK n \in 1..Len(s) : n \in places /\ at[n] = k
    BY <1>3
  <2>2. out[at[n]] = s[n]
    BY <1>3, <2>1
  <2>. QED BY <2>1, <2>2
<1>5. \A n \in 1..Len(s) : n \in places => \E k \in 1..Len(out) : out[k] = s[n]
  BY <1>3, Zenon
<1>. QED BY <1>1, <1>4, <1>5 DEF out

LEMMA KeepRange ==
  ASSUME NEW V, NEW s \in Seq(V), NEW places
  PROVE  Range(Keep(s, places)) \subseteq Range(s)
<1>. DEFINE out == Keep(s, places)
<1>1. out \in Seq(V) /\ \A k \in 1..Len(out) : \E n \in 1..Len(s) : out[k] = s[n]
  BY KeepMembers
<1>. HIDE DEF out
<1>2. /\ DOMAIN s = 1..Len(s) /\ DOMAIN out = 1..Len(out)
  BY <1>1
<1>3. Range(out) \subseteq Range(s)
  BY <1>1, <1>2 DEF Range
<1>. QED BY <1>3 DEF out

LEMMA OneMoreSub ==
  ASSUME NEW a \in Docs, NEW b \in Docs, NEW line \in Line, Sub(a, b)
  PROVE  /\ Append(a, line) \in Docs /\ b \o <<line>> \in Docs
         /\ Sub(Append(a, line), b \o <<line>>)
         /\ ~IsFence(line) => Sub(a, b \o <<line>>)
<1>. DEFINE one == <<line>>
            none == <<>>
<1>1. one \in Docs /\ none \in Docs /\ 1..Len(one) = {1} /\ one[1] = line
  BY OneIs, NoneIs DEF Docs
<1>2. Append(a, line) = a \o one /\ a \o none = a
  BY AppendIsConcat, ConcatEmptySeq DEF Docs
<1>3. a \o one \in Docs /\ b \o one \in Docs
  <2>. HIDE DEF one
  <2>. QED BY <1>1, EndsConcat
<1>4. Sub(one, one)
  BY SubSelf
<1>5. ASSUME ~IsFence(line) PROVE Sub(none, one)
  <2>. HIDE DEF one
  <2>. QED BY <1>1, <1>5, SubNone
<1>. HIDE DEF one, none
<1>6. Sub(a \o one, b \o one)
  BY <1>1, <1>4, SubConcat
<1>7. ASSUME ~IsFence(line) PROVE Sub(a, b \o one)
  <2>1. Sub(a \o none, b \o one)
    BY <1>1, <1>5, <1>7, SubConcat
  <2>. QED BY <1>2, <2>1
<1>. QED BY <1>2, <1>3, <1>6, <1>7 DEF one

LEMMA KeepSub ==
  ASSUME NEW doc \in Docs, NEW places, \A n \in 1..Len(doc) : IsFence(doc[n]) => n \in places
  PROVE  Keep(doc, places) \in Docs /\ Sub(Keep(doc, places), doc)
<1>1. PICK up : /\ KeepSteps(up, doc, places) /\ Keep(doc, places) = up[Len(doc)]
                /\ \A n \in 0..Len(doc) : up[n] \in Docs
  BY KeepUp DEF Docs
<1>. DEFINE N == Len(doc)
            T == {n \in Nat : n \in 0..N => Sub(up[n], Prefix(doc, n))}
<1>2. N \in Nat /\ \A n \in 1..N : doc[n] \in Line
  BY DocIs
<1>3. /\ Prefix(doc, 0) = <<>> /\ Prefix(doc, N) = doc /\ \A n \in 0..N : Prefix(doc, n) \in Docs
      /\ \A n \in Nat : n + 1 <= N => Prefix(doc, n + 1) = Prefix(doc, n) \o <<doc[n + 1]>>
  BY PrefixIs DEF Docs
<1>4. 0 \in T
  BY <1>1, <1>3, SubSelf DEF KeepSteps
<1>5. ASSUME NEW n \in Nat, n \in T PROVE n + 1 \in T
  <2>. SUFFICES ASSUME n + 1 \in 0..N PROVE Sub(up[n + 1], Prefix(doc, n + 1))
    OBVIOUS
  <2>1. n \in 0..N /\ n + 1 \in 1..N /\ n + 1 - 1 = n /\ n + 1 <= N
    BY <1>2, OneBelow
  <2>2. up[n] \in Docs /\ Prefix(doc, n) \in Docs /\ doc[n + 1] \in Line /\ Sub(up[n], Prefix(doc, n))
    BY <1>1, <1>2, <1>3, <1>5, <2>1
  <2>3. up[n + 1] = IF n + 1 \in places THEN Append(up[n], doc[n + 1]) ELSE up[n]
    <3>1. up[n + 1] = IF n + 1 \in places THEN Append(up[n + 1 - 1], doc[n + 1]) ELSE up[n + 1 - 1]
      BY <1>1, <2>1 DEF KeepSteps
    <3>. QED BY <2>1, <3>1
  <2>4. Prefix(doc, n + 1) = Prefix(doc, n) \o <<doc[n + 1]>>
    BY <1>3, <2>1
  <2>5. /\ Sub(Append(up[n], doc[n + 1]), Prefix(doc, n) \o <<doc[n + 1]>>)
        /\ ~IsFence(doc[n + 1]) => Sub(up[n], Prefix(doc, n) \o <<doc[n + 1]>>)
    BY <2>2, OneMoreSub
  <2>6. IsFence(doc[n + 1]) => n + 1 \in places
    BY <2>1
  <2>. QED BY <2>3, <2>4, <2>5, <2>6
<1>6. Sub(up[N], Prefix(doc, N)) /\ up[N] \in Docs
  <2>1. \A n \in Nat : n \in T
    <3>. HIDE DEF T
    <3>. QED BY <1>4, <1>5, SetInduction
  <2>2. N \in 0..N
    BY <1>2
  <2>. QED BY <1>1, <1>2, <2>1, <2>2
<1>. QED BY <1>1, <1>3, <1>6

(* Line for line. *)
LEMMA SubPointwise ==
  ASSUME NEW a \in Docs, NEW b \in Docs, Len(a) = Len(b),
         \A n \in 1..Len(b) : IsFence(a[n]) <=> IsFence(b[n]),
         \A n \in 1..Len(b) : ~IsFence(b[n]) => Range(a[n].words) \subseteq Range(b[n].words)
  PROVE  Sub(a, b)
<1>1. Len(b) \in Nat /\ DOMAIN a = 1..Len(b) /\ DOMAIN b = 1..Len(b)
  BY DocIs
<1>2. \A n \in 0..Len(b) : Outside(a, n + 1) <=> Outside(b, n + 1)
  <2>. SUFFICES ASSUME NEW n \in 0..Len(b) PROVE Outside(a, n + 1) <=> Outside(b, n + 1)
    OBVIOUS
  <2>1. n \in Nat /\ \A m \in 1..n : IsFence(a[m]) <=> IsFence(b[m])
    BY <1>1
  <2>. QED BY <2>1, OutsideSame
<1>3. \A n \in 1..Len(b) : Outside(a, n) <=> Outside(b, n)
  <2>. SUFFICES ASSUME NEW n \in 1..Len(b) PROVE Outside(a, n) <=> Outside(b, n)
    OBVIOUS
  <2>1. n - 1 \in 0..Len(b) /\ n - 1 + 1 = n
    BY <1>1
  <2>2. Outside(a, n - 1 + 1) <=> Outside(b, n - 1 + 1)
    BY <1>2, <2>1
  <2>. QED BY <2>1, <2>2
<1>4. EndsOutside(a) <=> EndsOutside(b)
  <2>1. Len(b) \in 0..Len(b)
    BY <1>1
  <2>. QED BY <1>2, <2>1 DEF EndsOutside
<1>5. OutWords(a) \subseteq OutWords(b)
  BY <1>1, <1>3, SidesAre
<1>6. InWords(a) \subseteq InWords(b)
  BY <1>1, <1>3, SidesAre
<1>. QED BY <1>4, <1>5, <1>6 DEF Sub

(* Concatenation of many. *)
Flat(up, ss) == up[0] = <<>> /\ \A n \in 1..Len(ss) : up[n] = up[n - 1] \o ss[n]

LEMMA FlattenUp ==
  ASSUME NEW V, NEW ss \in Seq(Seq(V))
  PROVE  \E up : /\ Flat(up, ss) /\ FlattenSeq(ss) = up[Len(ss)]
                 /\ \A n \in 0..Len(ss) : up[n] \in Seq(V)
<1>. DEFINE N == Len(ss)
            step(n, x) == x \o ss[n]
            entry(h, n) == IF n = 1 THEN ss[n] ELSE h[n - 1] \o ss[n]
            S == [c \in (1..N) \X Seq(V) |-> step(c[1], c[2])]
            flatten == CHOOSE h : h = [n \in 1..Len(ss) |-> entry(h, n)]
<1>1. N \in Nat /\ <<>> \in Seq(V) /\ \A n \in 1..N : ss[n] \in Seq(V)
  OBVIOUS
<1>2. \A n \in 1..N, x \in Seq(V) : step(n, x) \in Seq(V)
  BY <1>1, ConcatProperties
<1>3. S \in [(1..N) \X Seq(V) -> Seq(V)] /\ \A n \in 1..N, x \in Seq(V) : S[<<n, x>>] = step(n, x)
  <2>. HIDE DEF step, N
  <2>. QED BY <1>2
<1>. HIDE DEF S
<1>4. PICK g : Upwards(g, <<>>, S, Seq(V), N)
  <2>. DEFINE base == <<>>
              W == Seq(V)
  <2>1. base \in W /\ S \in [(1..N) \X W -> W]
    BY <1>1, <1>3
  <2>. HIDE DEF base, W, N
  <2>2. \E g : Upwards(g, base, S, W, N)
    BY <1>1, <2>1, UpwardsIs
  <2>. QED BY <2>2 DEF base, W
<1>5. g[0] = <<>> /\ (\A n \in 0..N : g[n] \in Seq(V)) /\ \A n \in 1..N : g[n] = g[n - 1] \o ss[n]
  <2>1. g[0] = <<>> /\ \A n \in 0..N : g[n] \in Seq(V)
    BY <1>4 DEF Upwards
  <2>2. ASSUME NEW n \in 1..N PROVE g[n] = step(n, g[n - 1])
    <3>1. g[n] = S[<<n, g[n - 1]>>] /\ n - 1 \in 0..N
      BY <1>4 DEF Upwards
    <3>. HIDE DEF step, N
    <3>. QED BY <1>3, <2>1, <3>1
  <2>. QED BY <2>1, <2>2
<1>. DEFINE f == [n \in 1..N |-> g[n]]
<1>6. f = [n \in 1..N |-> entry(f, n)]
  <2>1. ASSUME NEW n \in 1..N PROVE g[n] = entry(f, n)
    <3>1. CASE n = 1
      <4>0. 1 - 1 = 0 /\ 1 \in 1..N
        BY <3>1
      <4>1. g[1] = g[1 - 1] \o ss[1] /\ 1 - 1 = 0
        <5>. HIDE DEF N
        <5>. QED BY <1>5, <4>0
      <4>2. <<>> \o ss[1] = ss[1]
        BY <1>1, <4>0, ConcatEmptySeq
      <4>3. g[1] = ss[1]
        BY <1>5, <4>1, <4>2
      <4>. QED BY <3>1, <4>3
    <3>2. CASE n # 1
      <4>1. n - 1 \in 1..N
        BY <1>1, <3>2
      <4>2. f[n - 1] = g[n - 1]
        BY <4>1
      <4>. HIDE DEF f, N
      <4>. QED BY <1>5, <3>2, <4>2
    <3>. QED BY <3>1, <3>2
  <2>. HIDE DEF entry, N
  <2>. QED BY <2>1
<1>7. flatten = [n \in 1..N |-> entry(flatten, n)]
  <2>. HIDE DEF entry, f
  <2>. QED BY <1>6
<1>8. N # 0 => FlattenSeq(ss) = flatten[N]
  BY DEF FlattenSeq
<1>9. N = 0 => FlattenSeq(ss) = <<>>
  BY DEF FlattenSeq
<1>. HIDE DEF flatten
<1>10. \A n \in 1..N : flatten[n] = entry(flatten, n)
  <2>. HIDE DEF entry, N
  <2>. QED BY <1>7
<1>. DEFINE T == {n \in Nat : n \in 1..N => flatten[n] = g[n]}
            after(k) == g[k] = step(k, g[k - 1])
            later(k) == k # 1 => flatten[k] = step(k, flatten[k - 1])
<1>10a. \A k \in 1..N : later(k)
  <2>. HIDE DEF N
  <2>. QED BY <1>10
<1>5a. \A k \in 1..N : after(k)
  BY <1>5
<1>11. 0 \in T
  OBVIOUS
<1>12. ASSUME NEW n \in Nat, n \in T PROVE n + 1 \in T
  <2>. SUFFICES ASSUME n + 1 \in 1..N PROVE flatten[n + 1] = g[n + 1]
    OBVIOUS
  <2>0. N \in Nat
    BY <1>1
  <2>1. n + 1 - 1 = n /\ (n # 0 => n \in 1..N /\ n + 1 # 1)
    <3>. HIDE DEF N
    <3>. QED BY <2>0
  <2>2. g[n + 1] = step(n + 1, g[n])
    <3>1. after(n + 1)
      <4>. HIDE DEF after, N
      <4>. QED BY <1>5a
    <3>. HIDE DEF step
    <3>. QED BY <2>1, <3>1
  <2>3. flatten[n + 1] = entry(flatten, n + 1)
    <3>. HIDE DEF N, entry
    <3>. QED BY <1>10
  <2>4. CASE n = 0
    <3>1. n + 1 = 1
      BY <2>4
    <3>2. <<>> \o ss[n + 1] = ss[n + 1]
      BY <1>1, ConcatEmptySeq
    <3>3. flatten[n + 1] = ss[n + 1]
      BY <2>3, <3>1
    <3>. QED BY <1>5, <2>2, <2>4, <3>2, <3>3
  <2>5. CASE n # 0
    <3>1. later(n + 1)
      <4>. HIDE DEF later, N
      <4>. QED BY <1>10a
    <3>2. flatten[n + 1] = step(n + 1, flatten[n])
      <4>. HIDE DEF step
      <4>. QED BY <2>1, <2>5, <3>1
    <3>. HIDE DEF step
    <3>. QED BY <1>12, <2>1, <2>2, <2>5, <3>2
  <2>. QED BY <2>4, <2>5
<1>13. FlattenSeq(ss) = g[N]
  <2>1. CASE N = 0
    BY <1>5, <1>9, <2>1
  <2>2. CASE N # 0
    <3>1. N \in Nat /\ N \in 1..N
      BY <1>1, <2>2
    <3>2. N \in T
      <4>. HIDE DEF T, N
      <4>1. \A n \in Nat : n \in T
        BY <1>11, <1>12, SetInduction
      <4>. QED BY <3>1, <4>1
    <3>. QED BY <1>8, <2>2, <3>1, <3>2
  <2>. QED BY <2>1, <2>2
<1>14. Flat(g, ss)
  BY <1>5 DEF Flat
<1>. QED BY <1>5, <1>13, <1>14

LEMMA FunctionIsSequence ==
  ASSUME NEW V, NEW N \in Nat, NEW f \in [1..N -> V]
  PROVE  f \in Seq(V) /\ Len(f) = N
OBVIOUS

(* What a walk gives. *)
Walks(g, gives, next, V, N) ==
  /\ g \in [1..(N + 1) -> Seq(V)] /\ g[N + 1] = <<>>
  /\ \A n \in 1..N : g[n] = gives[n] \o g[next[n]]

IsWalk(out, gives, next, V, N) == \E g : Walks(g, gives, next, V, N) /\ out = g[1]

LEMMA WalkedIs ==
  ASSUME NEW V, NEW N \in Nat, NEW gives \in [1..N -> Seq(V)], NEW next,
         \A n \in 1..N : next[n] \in (n + 1)..(N + 1)
  PROVE  IsWalk(Walked(gives, next), gives, next, V, N)
<1>. DEFINE W == Seq(V)
            G == [1..(N + 1) -> W]
            entry(h, n) == IF n > Len(gives) THEN <<>> ELSE gives[n] \o h[next[n]]
            E == [c \in (1..(N + 1)) \X G |-> entry(c[2], c[1])]
            From == CHOOSE h : h = [n \in 1..(Len(gives) + 1) |-> entry(h, n)]
<1>1. Len(gives) = N /\ <<>> \in W /\ N \in Nat /\ \A n \in 1..N : gives[n] \in W /\ next[n] \in 1..(N + 1)
  BY FunctionIsSequence
<1>2. \A n \in 1..(N + 1), h \in G : entry(h, n) \in W
  <2>. SUFFICES ASSUME NEW n \in 1..(N + 1), NEW h \in G PROVE entry(h, n) \in W
    OBVIOUS
  <2>1. CASE n > Len(gives)
    BY <1>1, <2>1
  <2>2. CASE ~(n > Len(gives))
    <3>1. n \in 1..N
      BY <1>1, <2>2
    <3>2. gives[n] \in W /\ h[next[n]] \in W
      <4>. HIDE DEF W
      <4>. QED BY <1>1, <3>1
    <3>. QED BY <2>2, <3>2, ConcatProperties
  <2>. QED BY <2>1, <2>2
<1>3. /\ E \in [(1..(N + 1)) \X G -> W]
      /\ \A n \in 1..(N + 1), h \in G : E[<<n, h>>] = entry(h, n)
  <2>. HIDE DEF entry, G, W
  <2>. QED BY <1>2
<1>4. Local(E, W, N)
  <2>. SUFFICES ASSUME NEW n \in 1..(N + 1), NEW h \in G, NEW k \in G,
                       \A m \in (n + 1)..(N + 1) : h[m] = k[m]
                PROVE  E[<<n, h>>] = E[<<n, k>>]
    BY DEF Local
  <2>1. CASE n > N
    BY <1>1, <1>3, <2>1
  <2>2. CASE ~(n > N)
    <3>1. n \in 1..N /\ next[n] \in (n + 1)..(N + 1)
      BY <1>1, <2>2
    <3>2. h[next[n]] = k[next[n]]
      BY <3>1
    <3>3. entry(h, n) = entry(k, n)
      BY <3>2
    <3>. HIDE DEF entry, E
    <3>. QED BY <1>3, <3>3
  <2>. QED BY <2>1, <2>2
<1>. HIDE DEF E
<1>5. PICK g : Downwards(g, E, W, N)
  <2>. DEFINE any == <<>>
  <2>1. any \in W
    BY <1>1
  <2>. HIDE DEF any, W
  <2>. QED BY <1>1, <1>3, <1>4, <2>1, DownwardsIs
<1>6. g \in G /\ \A n \in 1..(N + 1) : g[n] = entry(g, n)
  <2>1. g \in G /\ \A n \in 1..(N + 1) : g[n] = E[<<n, g>>]
    BY <1>5 DEF Downwards
  <2>. HIDE DEF entry, G
  <2>. QED BY <1>3, <2>1
<1>7. g = [n \in 1..(Len(gives) + 1) |-> entry(g, n)]
  <2>. HIDE DEF entry
  <2>. QED BY <1>1, <1>6
<1>8. From = [n \in 1..(Len(gives) + 1) |-> entry(From, n)]
  <2>. HIDE DEF entry
  <2>. QED BY <1>7
<1>9. Walked(gives, next) = From[1]
  BY DEF Walked
<1>. HIDE DEF From
<1>10. \A n \in 1..(N + 1) : From[n] = entry(From, n)
  <2>. HIDE DEF entry
  <2>. QED BY <1>1, <1>8
<1>. DEFINE done(k) == k <= N => \A n \in (N + 1 - k)..(N + 1) : From[n] = g[n]
            T == {k \in Nat : done(k)}
<1>11. 0 \in T
  <2>1. From[N + 1] = <<>> /\ g[N + 1] = <<>>
    <3>1. N + 1 \in 1..(N + 1) /\ N + 1 > Len(gives)
      BY <1>1
    <3>2. entry(From, N + 1) = <<>> /\ entry(g, N + 1) = <<>>
      BY <3>1
    <3>. HIDE DEF entry
    <3>. QED BY <1>6, <1>10, <3>1, <3>2
  <2>2. \A n \in (N + 1 - 0)..(N + 1) : n = N + 1
    OBVIOUS
  <2>. QED BY <2>1, <2>2
<1>12. ASSUME NEW k \in Nat, k \in T PROVE k + 1 \in T
  <2>0. k + 1 \in Nat
    OBVIOUS
  <2>. SUFFICES done(k + 1)
    <3>. HIDE DEF done
    <3>. QED BY <2>0
  <2>. SUFFICES ASSUME k + 1 <= N, NEW n \in (N + 1 - (k + 1))..(N + 1) PROVE From[n] = g[n]
    OBVIOUS
  <2>1. k <= N /\ n \in 1..(N + 1)
    OBVIOUS
  <2>2. \A m \in (N + 1 - k)..(N + 1) : From[m] = g[m]
    BY <1>12, <2>1
  <2>3. CASE n \in (N + 1 - k)..(N + 1)
    BY <2>2, <2>3
  <2>4. CASE n \notin (N + 1 - k)..(N + 1)
    <3>1. n \in 1..N /\ n + 1 = N + 1 - k
      BY <2>1, <2>4
    <3>2. next[n] \in (N + 1 - k)..(N + 1) /\ ~(n > Len(gives))
      BY <1>1, <3>1
    <3>3. From[next[n]] = g[next[n]]
      BY <2>2, <3>2
    <3>4. entry(From, n) = entry(g, n)
      BY <3>3
    <3>. HIDE DEF entry
    <3>. QED BY <1>6, <1>10, <2>1, <3>4
  <2>. QED BY <2>3, <2>4
<1>13. From[1] = g[1]
  <2>1. CASE N = 0
    BY <1>1, <1>6, <1>10, <2>1
  <2>2. CASE N # 0
    <3>1. N \in T
      <4>. HIDE DEF T
      <4>. QED BY <1>11, <1>12, SetInduction
    <3>2. 1 \in (N + 1 - N)..(N + 1) /\ N <= N
      OBVIOUS
    <3>3. done(N)
      BY <3>1
    <3>. QED BY <3>2, <3>3
  <2>. QED BY <2>1, <2>2
<1>14. Walks(g, gives, next, V, N)
  <2>1. N + 1 \in 1..(N + 1) /\ N + 1 > Len(gives)
    BY <1>1
  <2>2. g[N + 1] = <<>>
    BY <1>6, <2>1
  <2>3. ASSUME NEW n \in 1..N PROVE g[n] = gives[n] \o g[next[n]]
    <3>1. n \in 1..(N + 1) /\ ~(n > Len(gives))
      BY <1>1
    <3>. QED BY <1>6, <3>1
  <2>. QED BY <1>6, <2>2, <2>3 DEF Walks
<1>. QED BY <1>9, <1>13, <1>14 DEF IsWalk

LEMMA WalkedSub ==
  ASSUME NEW doc \in Docs, NEW gives \in [1..Len(doc) -> Docs], NEW next,
         \A n \in 1..Len(doc) : next[n] \in (n + 1)..(Len(doc) + 1),
         \A n \in 1..Len(doc) : Sub(gives[n], SubSeq(doc, n, next[n] - 1))
  PROVE  Walked(gives, next) \in Docs /\ Sub(Walked(gives, next), doc)
<1>. DEFINE N == Len(doc)
<1>0. N \in Nat
  BY DocIs
<1>1. PICK g : Walks(g, gives, next, Line, N) /\ Walked(gives, next) = g[1]
  <2>1. gives \in [1..N -> Seq(Line)]
    BY DEF Docs
  <2>. HIDE DEF N
  <2>2. \A n \in 1..N : next[n] \in (n + 1)..(N + 1)
    BY DEF N
  <2>. DEFINE V == Line
  <2>3. gives \in [1..N -> Seq(V)]
    BY <2>1
  <2>. HIDE DEF V
  <2>4. IsWalk(Walked(gives, next), gives, next, V, N)
    BY ONLY <1>0, <2>2, <2>3, WalkedIs
  <2>. QED BY <2>4 DEF V, IsWalk
<1>2. /\ \A n \in 1..(N + 1) : g[n] \in Docs
      /\ g[N + 1] = <<>> /\ \A n \in 1..N : g[n] = gives[n] \o g[next[n]]
  BY <1>1 DEF Walks, Docs
<1>3. /\ Suffix(doc, 1) = doc /\ Suffix(doc, N + 1) = <<>>
      /\ \A n \in 1..(N + 1) : Suffix(doc, n) \in Docs
      /\ \A n \in 1..(N + 1), m \in 1..(N + 1) :
           n <= m => Suffix(doc, n) = SubSeq(doc, n, m - 1) \o Suffix(doc, m)
  BY SuffixIs DEF Docs
<1>. DEFINE done(k) == k <= N => \A n \in (N + 1 - k)..(N + 1) : Sub(g[n], Suffix(doc, n))
            T == {k \in Nat : done(k)}
<1>4. 0 \in T
  <2>1. \A n \in (N + 1 - 0)..(N + 1) : n = N + 1
    BY <1>0
  <2>2. Sub(g[N + 1], Suffix(doc, N + 1))
    BY <1>2, <1>3, SubSelf
  <2>. QED BY <2>1, <2>2
<1>5. ASSUME NEW k \in Nat, k \in T PROVE k + 1 \in T
  <2>0. k + 1 \in Nat
    OBVIOUS
  <2>. SUFFICES done(k + 1)
    <3>. HIDE DEF done
    <3>. QED BY <2>0
  <2>. SUFFICES ASSUME k + 1 <= N, NEW n \in (N + 1 - (k + 1))..(N + 1) PROVE Sub(g[n], Suffix(doc, n))
    OBVIOUS
  <2>1. k <= N /\ n \in 1..(N + 1)
    BY <1>0
  <2>2. \A m \in (N + 1 - k)..(N + 1) : Sub(g[m], Suffix(doc, m))
    BY <1>5, <2>1
  <2>3. CASE n \in (N + 1 - k)..(N + 1)
    BY <2>2, <2>3
  <2>4. CASE n \notin (N + 1 - k)..(N + 1)
    <3>1. n \in 1..N /\ n + 1 = N + 1 - k
      <4>. HIDE DEF N
      <4>. QED BY <1>0, <2>1, <2>4
    <3>. DEFINE m == next[n]
    <3>2. m \in (N + 1 - k)..(N + 1) /\ m \in (n + 1)..(N + 1)
      BY <1>0, <3>1
    <3>3. m \in 1..(N + 1) /\ n <= m /\ m \in n..(N + 1)
      BY <1>0, <3>1, <3>2
    <3>4. /\ gives[n] \in Docs /\ g[m] \in Docs /\ Suffix(doc, m) \in Docs
          /\ Sub(g[m], Suffix(doc, m)) /\ Sub(gives[n], SubSeq(doc, n, m - 1))
          /\ g[n] = gives[n] \o g[m]
          /\ Suffix(doc, n) = SubSeq(doc, n, m - 1) \o Suffix(doc, m)
      <4>1. gives[n] \in Docs /\ Sub(gives[n], SubSeq(doc, n, m - 1))
        BY <3>1
      <4>. HIDE DEF m, N
      <4>2. g[n] = gives[n] \o g[m]
        BY <1>2, <3>1 DEF m
      <4>. QED BY <1>2, <1>3, <2>1, <2>2, <3>2, <3>3, <4>1, <4>2
    <3>5. SubSeq(doc, n, m - 1) \in Docs
      <4>. HIDE DEF m
      <4>. QED BY <2>1, <3>3, PartIs DEF Docs
    <3>. HIDE DEF m, N
    <3>. QED BY <3>4, <3>5, SubConcat
  <2>. QED BY <2>3, <2>4
<1>6. Sub(g[1], Suffix(doc, 1)) /\ g[1] \in Docs
  <2>0. 1 \in 1..(N + 1)
    BY <1>0
  <2>1. CASE N = 0
    <3>1. g[1] = <<>> /\ Suffix(doc, 1) = <<>>
      BY <1>2, <1>3, <2>1
    <3>. QED BY <1>2, <2>0, <3>1, SubSelf
  <2>2. CASE N # 0
    <3>1. N \in T
      <4>. HIDE DEF T, N
      <4>. QED BY <1>0, <1>4, <1>5, SetInduction
    <3>2. 1 \in (N + 1 - N)..(N + 1) /\ N <= N
      BY <1>0
    <3>3. done(N)
      BY <3>1
    <3>. QED BY <1>2, <2>0, <3>2, <3>3
  <2>. QED BY <2>1, <2>2
<1>. QED BY <1>1, <1>3, <1>6

LEMMA ConcatRange ==
  ASSUME NEW V, NEW a \in Seq(V), NEW b \in Seq(V)
  PROVE  Range(a \o b) = Range(a) \cup Range(b)
<1>. DEFINE c == a \o b
<1>1. /\ Len(c) = Len(a) + Len(b) /\ Len(a) \in Nat /\ Len(b) \in Nat
      /\ DOMAIN a = 1..Len(a) /\ DOMAIN b = 1..Len(b) /\ DOMAIN c = 1..(Len(a) + Len(b))
      /\ \A n \in 1..Len(a) : c[n] = a[n]
      /\ \A n \in 1..Len(b) : c[Len(a) + n] = b[n]
  BY ConcatIs
<1>2. \A n \in 1..(Len(a) + Len(b)) : n \in 1..Len(a) \/ \E m \in 1..Len(b) : n = Len(a) + m
  <2>1. ASSUME NEW n \in 1..(Len(a) + Len(b)), n \notin 1..Len(a)
        PROVE  n - Len(a) \in 1..Len(b) /\ n = Len(a) + (n - Len(a))
    BY <1>1, <2>1
  <2>. QED BY <2>1
<1>3. /\ \A n \in 1..Len(a) : n \in 1..(Len(a) + Len(b))
      /\ \A m \in 1..Len(b) : Len(a) + m \in 1..(Len(a) + Len(b))
  BY <1>1
<1>. HIDE DEF c
<1>4. Range(c) \subseteq Range(a) \cup Range(b)
  <2>. SUFFICES ASSUME NEW n \in 1..(Len(a) + Len(b)) PROVE c[n] \in Range(a) \cup Range(b)
    BY <1>1 DEF Range
  <2>. QED BY <1>1, <1>2 DEF Range
<1>5. Range(a) \subseteq Range(c)
  BY <1>1, <1>3 DEF Range
<1>6. Range(b) \subseteq Range(c)
  BY <1>1, <1>3 DEF Range
<1>. QED BY <1>4, <1>5, <1>6 DEF c

LEMMA FlatUnique ==
  ASSUME NEW V, NEW ss \in Seq(Seq(V)), NEW tt \in Seq(Seq(V)), NEW f, NEW g, Flat(f, ss), Flat(g, tt),
         NEW N \in Nat, N <= Len(ss), N <= Len(tt), \A n \in 1..N : ss[n] = tt[n]
  PROVE  f[N] = g[N]
<1>. DEFINE T == {n \in Nat : n <= N => f[n] = g[n]}
            step(x, n) == x \o ss[n]
            is(h, n) == h[n] = step(h[n - 1], n)
<1>1. f[0] = <<>> /\ g[0] = <<>> /\ \A n \in 1..N : is(f, n) /\ is(g, n)
  <2>1. f[0] = <<>> /\ g[0] = <<>>
    BY DEF Flat
  <2>2. ASSUME NEW n \in 1..N PROVE is(f, n) /\ is(g, n)
    <3>1. n \in 1..Len(ss) /\ n \in 1..Len(tt) /\ ss[n] = tt[n]
      OBVIOUS
    <3>2. f[n] = f[n - 1] \o ss[n] /\ g[n] = g[n - 1] \o tt[n]
      BY <3>1 DEF Flat
    <3>. QED BY <3>1, <3>2
  <2>. HIDE DEF is
  <2>. QED BY <2>1, <2>2
<1>2. 0 \in T
  BY <1>1
<1>3. ASSUME NEW n \in Nat, n \in T PROVE n + 1 \in T
  <2>. SUFFICES ASSUME n + 1 <= N PROVE f[n + 1] = g[n + 1]
    OBVIOUS
  <2>1. n <= N /\ n + 1 \in 1..N /\ n + 1 - 1 = n
    OBVIOUS
  <2>2. is(f, n + 1) /\ is(g, n + 1) /\ f[n] = g[n]
    <3>. HIDE DEF is
    <3>. QED BY <1>1, <1>3, <2>1
  <2>. HIDE DEF step
  <2>. QED BY <2>1, <2>2
<1>. HIDE DEF T
<1>4. N \in T
  BY <1>2, <1>3, SetInduction
<1>. QED BY <1>4 DEF T

LEMMA FlattenNone == FlattenSeq(<<>>) = <<>>
BY DEF FlattenSeq

LEMMA FlattenAppend ==
  ASSUME NEW V, NEW ss \in Seq(Seq(V)), NEW part \in Seq(V)
  PROVE  /\ FlattenSeq(ss) \in Seq(V) /\ Append(ss, part) \in Seq(Seq(V))
         /\ FlattenSeq(Append(ss, part)) = FlattenSeq(ss) \o part
<1>. DEFINE W == Seq(V)
            tt == Append(ss, part)
<1>1. /\ tt \in Seq(W) /\ Len(tt) = Len(ss) + 1 /\ tt[Len(ss) + 1] = part /\ Len(ss) \in Nat
      /\ \A n \in 1..Len(ss) : tt[n] = ss[n]
  <2>. ss \in Seq(W) /\ part \in W
    OBVIOUS
  <2>. HIDE DEF W
  <2>. QED BY AppendProperties
<1>. HIDE DEF tt
<1>2. PICK f : /\ Flat(f, ss) /\ FlattenSeq(ss) = f[Len(ss)] /\ \A n \in 0..Len(ss) : f[n] \in Seq(V)
  BY FlattenUp
<1>3. PICK g : Flat(g, tt) /\ FlattenSeq(tt) = g[Len(tt)]
  BY <1>1, FlattenUp
<1>4. f[Len(ss)] = g[Len(ss)]
  <2>1. \A n \in 1..Len(ss) : ss[n] = tt[n]
    BY <1>1
  <2>2. Len(ss) <= Len(ss) /\ Len(ss) <= Len(tt)
    BY <1>1
  <2>3. ss \in Seq(Seq(V)) /\ tt \in Seq(Seq(V)) /\ Flat(f, ss) /\ Flat(g, tt)
    BY <1>1, <1>2, <1>3
  <2>. DEFINE N == Len(ss)
  <2>4. N \in Nat /\ N <= Len(ss) /\ N <= Len(tt) /\ \A n \in 1..N : ss[n] = tt[n]
    BY <1>1, <2>1, <2>2
  <2>. HIDE DEF N
  <2>5. f[N] = g[N]
    BY ONLY <2>3, <2>4, FlatUnique
  <2>. QED BY <2>5 DEF N
<1>5. g[Len(ss) + 1] = g[Len(ss)] \o part
  <2>1. Len(ss) + 1 \in 1..Len(tt) /\ Len(ss) + 1 - 1 = Len(ss)
    BY <1>1
  <2>. DEFINE step(x, n) == x \o tt[n]
              is(n) == g[n] = step(g[n - 1], n)
  <2>2. \A n \in 1..Len(tt) : is(n)
    BY <1>3 DEF Flat
  <2>3. is(Len(ss) + 1)
    <3>. HIDE DEF is
    <3>. QED BY <2>1, <2>2
  <2>4. g[Len(ss) + 1] = step(g[Len(ss)], Len(ss) + 1)
    <3>. HIDE DEF step
    <3>. QED BY <2>1, <2>3
  <2>. QED BY <1>1, <2>4
<1>6. Len(ss) \in 0..Len(ss)
  BY <1>1
<1>. QED BY <1>1, <1>2, <1>3, <1>4, <1>5, <1>6 DEF tt

(* Step by step. *)
LEMMA FlattenPrefix ==
  ASSUME NEW V, NEW ss \in Seq(Seq(V))
  PROVE  /\ FlattenSeq(Prefix(ss, 0)) = <<>> /\ FlattenSeq(Prefix(ss, Len(ss))) = FlattenSeq(ss)
         /\ \A n \in 0..Len(ss) : FlattenSeq(Prefix(ss, n)) \in Seq(V)
         /\ \A n \in Nat : n + 1 <= Len(ss) =>
              FlattenSeq(Prefix(ss, n + 1)) = FlattenSeq(Prefix(ss, n)) \o ss[n + 1]
<1>. DEFINE W == Seq(V)
<1>0. ss \in Seq(W) /\ Len(ss) \in Nat /\ \A n \in 1..Len(ss) : ss[n] \in W
  OBVIOUS
<1>1. /\ Prefix(ss, 0) = <<>> /\ Prefix(ss, Len(ss)) = ss
      /\ \A n \in 0..Len(ss) : Prefix(ss, n) \in Seq(W)
      /\ \A n \in Nat : n + 1 <= Len(ss) => Prefix(ss, n + 1) = Prefix(ss, n) \o <<ss[n + 1]>>
  <2>. HIDE DEF W
  <2>. QED BY <1>0, PrefixIs
<1>2. \A n \in 0..Len(ss) : FlattenSeq(Prefix(ss, n)) \in Seq(V)
  <2>1. \A tt \in Seq(W) : FlattenSeq(tt) \in Seq(V)
    <3>. SUFFICES ASSUME NEW tt \in Seq(W) PROVE FlattenSeq(tt) \in Seq(V)
      OBVIOUS
    <3>1. <<>> \in Seq(V)
      OBVIOUS
    <3>. QED BY <3>1, FlattenAppend
  <2>. HIDE DEF W
  <2>. QED BY <1>1, <2>1
<1>3. ASSUME NEW n \in Nat, n + 1 <= Len(ss)
      PROVE  FlattenSeq(Prefix(ss, n + 1)) = FlattenSeq(Prefix(ss, n)) \o ss[n + 1]
  <2>1. n \in 0..Len(ss) /\ n + 1 \in 1..Len(ss)
    BY <1>0, <1>3
  <2>2. Prefix(ss, n) \in Seq(W) /\ ss[n + 1] \in W
    <3>. HIDE DEF W
    <3>. QED BY <1>0, <1>1, <2>1
  <2>3. Prefix(ss, n + 1) = Append(Prefix(ss, n), ss[n + 1])
    <3>. HIDE DEF W
    <3>. QED BY <1>1, <1>3, <2>2, AppendIsConcat
  <2>. QED BY <2>2, <2>3, FlattenAppend
<1>. QED BY <1>1, <1>2, <1>3, FlattenNone

LEMMA FlattenRange ==
  ASSUME NEW V, NEW ss \in Seq(Seq(V))
  PROVE  /\ FlattenSeq(ss) \in Seq(V)
         /\ \A w : w \in Range(FlattenSeq(ss)) <=> \E n \in 1..Len(ss) : w \in Range(ss[n])
<1>. DEFINE flat(n) == FlattenSeq(Prefix(ss, n))
            good(n) == \A w : w \in Range(flat(n)) <=> \E m \in 1..n : w \in Range(ss[m])
            T == {n \in Nat : n <= Len(ss) => good(n)}
<1>0. Len(ss) \in Nat /\ \A n \in 1..Len(ss) : ss[n] \in Seq(V)
  OBVIOUS
<1>1. /\ flat(0) = <<>> /\ flat(Len(ss)) = FlattenSeq(ss)
      /\ \A n \in 0..Len(ss) : flat(n) \in Seq(V)
      /\ \A n \in Nat : n + 1 <= Len(ss) => flat(n + 1) = flat(n) \o ss[n + 1]
  BY FlattenPrefix
<1>. HIDE DEF flat
<1>2. 0 \in T
  <2>1. 1..0 = {}
    OBVIOUS
  <2>2. good(0)
    BY <1>1, <2>1, EmptyRange
  <2>. QED BY <2>2
<1>3. ASSUME NEW n \in Nat, n \in T PROVE n + 1 \in T
  <2>0. n + 1 \in Nat
    OBVIOUS
  <2>. SUFFICES ASSUME n + 1 <= Len(ss) PROVE good(n + 1)
    <3>. HIDE DEF good
    <3>. QED BY <2>0
  <2>1. n <= Len(ss) /\ n \in 0..Len(ss) /\ n + 1 \in 1..Len(ss)
    BY <1>0
  <2>2. good(n) /\ flat(n) \in Seq(V) /\ ss[n + 1] \in Seq(V) /\ flat(n + 1) = flat(n) \o ss[n + 1]
    <3>1. good(n)
      <4>. HIDE DEF good
      <4>. QED BY <1>3, <2>1
    <3>. QED BY <1>0, <1>1, <2>1, <3>1
  <2>3. Range(flat(n + 1)) = Range(flat(n)) \cup Range(ss[n + 1])
    <3>. DEFINE a == flat(n)
                b == ss[n + 1]
    <3>1. a \in Seq(V) /\ b \in Seq(V) /\ flat(n + 1) = a \o b
      BY <2>2
    <3>. HIDE DEF a, b
    <3>2. Range(a \o b) = Range(a) \cup Range(b)
      BY ONLY <3>1, ConcatRange
    <3>3. Range(flat(n + 1)) = Range(a) \cup Range(b)
      BY <3>1, <3>2
    <3>. QED BY <3>3 DEF a, b
  <2>4. 1..(n + 1) = (1..n) \cup {n + 1}
    BY IntervalNext
  <2>. QED BY <2>2, <2>3, <2>4
<1>4. good(Len(ss))
  <2>1. \A n \in Nat : n \in T
    <3>. HIDE DEF T
    <3>. QED BY <1>2, <1>3, SetInduction
  <2>2. Len(ss) <= Len(ss)
    BY <1>0
  <2>3. Len(ss) \in T
    <3>. HIDE DEF T
    <3>. QED BY <1>0, <2>1
  <2>. HIDE DEF good
  <2>. QED BY <2>2, <2>3
<1>5. Len(ss) \in 0..Len(ss)
  BY <1>0
<1>. QED BY <1>1, <1>4, <1>5

LEMMA FlattenSub ==
  ASSUME NEW aa \in Seq(Docs), NEW bb \in Seq(Docs), Len(aa) = Len(bb),
         \A n \in 1..Len(bb) : Sub(aa[n], bb[n])
  PROVE  /\ FlattenSeq(aa) \in Docs /\ FlattenSeq(bb) \in Docs
         /\ Sub(FlattenSeq(aa), FlattenSeq(bb))
<1>. DEFINE fa(n) == FlattenSeq(Prefix(aa, n))
            fb(n) == FlattenSeq(Prefix(bb, n))
            T == {n \in Nat : n <= Len(bb) => Sub(fa(n), fb(n))}
<1>0. Len(bb) \in Nat /\ \A n \in 1..Len(bb) : aa[n] \in Docs /\ bb[n] \in Docs
  OBVIOUS
<1>1. /\ fa(0) = <<>> /\ fa(Len(bb)) = FlattenSeq(aa)
      /\ \A n \in 0..Len(bb) : fa(n) \in Docs
      /\ \A n \in Nat : n + 1 <= Len(bb) => fa(n + 1) = fa(n) \o aa[n + 1]
  BY FlattenPrefix DEF Docs
<1>2. /\ fb(0) = <<>> /\ fb(Len(bb)) = FlattenSeq(bb)
      /\ \A n \in 0..Len(bb) : fb(n) \in Docs
      /\ \A n \in Nat : n + 1 <= Len(bb) => fb(n + 1) = fb(n) \o bb[n + 1]
  BY FlattenPrefix DEF Docs
<1>. HIDE DEF fa, fb
<1>3. 0 \in T
  BY <1>1, <1>2, SubSelf
<1>4. ASSUME NEW n \in Nat, n \in T PROVE n + 1 \in T
  <2>. SUFFICES ASSUME n + 1 <= Len(bb) PROVE Sub(fa(n + 1), fb(n + 1))
    OBVIOUS
  <2>1. n <= Len(bb) /\ n \in 0..Len(bb) /\ n + 1 \in 1..Len(bb)
    BY <1>0
  <2>2. /\ fa(n) \in Docs /\ fb(n) \in Docs /\ aa[n + 1] \in Docs /\ bb[n + 1] \in Docs
        /\ Sub(fa(n), fb(n)) /\ Sub(aa[n + 1], bb[n + 1])
    BY <1>0, <1>1, <1>2, <1>4, <2>1
  <2>3. fa(n + 1) = fa(n) \o aa[n + 1] /\ fb(n + 1) = fb(n) \o bb[n + 1]
    BY <1>1, <1>2
  <2>. QED BY <2>2, <2>3, SubConcat
<1>5. Len(bb) \in T
  <2>. HIDE DEF T
  <2>. QED BY <1>0, <1>3, <1>4, SetInduction
<1>6. Len(bb) \in 0..Len(bb) /\ Len(bb) <= Len(bb)
  BY <1>0
<1>. QED BY <1>1, <1>2, <1>5, <1>6

(* Some of the parts, but for parts without a fence. *)
LEMMA FlattenKeepSub ==
  ASSUME NEW bb \in Seq(Docs), NEW places,
         \A n \in 1..Len(bb) : n \notin places => \A k \in 1..Len(bb[n]) : ~IsFence(bb[n][k])
  PROVE  /\ FlattenSeq(Keep(bb, places)) \in Docs /\ FlattenSeq(bb) \in Docs
         /\ Sub(FlattenSeq(Keep(bb, places)), FlattenSeq(bb))
<1>1. PICK up : /\ KeepSteps(up, bb, places) /\ Keep(bb, places) = up[Len(bb)]
                /\ \A n \in 0..Len(bb) : up[n] \in Seq(Docs)
  BY KeepUp
<1>. DEFINE fb(n) == FlattenSeq(Prefix(bb, n))
            T == {n \in Nat : n <= Len(bb) => Sub(FlattenSeq(up[n]), fb(n))}
            step(k, x) == IF k \in places THEN Append(x, bb[k]) ELSE x
            after(k) == up[k] = step(k, up[k - 1])
<1>0. Len(bb) \in Nat /\ \A n \in 1..Len(bb) : bb[n] \in Docs
  OBVIOUS
<1>2. /\ fb(0) = <<>> /\ fb(Len(bb)) = FlattenSeq(bb)
      /\ \A n \in 0..Len(bb) : fb(n) \in Docs
      /\ \A n \in Nat : n + 1 <= Len(bb) => fb(n + 1) = fb(n) \o bb[n + 1]
  BY FlattenPrefix DEF Docs
<1>. HIDE DEF fb
<1>3. up[0] = <<>> /\ \A n \in 1..Len(bb) : after(n)
  BY <1>1 DEF KeepSteps
<1>4. 0 \in T
  BY <1>2, <1>3, SubSelf, FlattenNone
<1>5. ASSUME NEW n \in Nat, n \in T PROVE n + 1 \in T
  <2>. SUFFICES ASSUME n + 1 <= Len(bb) PROVE Sub(FlattenSeq(up[n + 1]), fb(n + 1))
    OBVIOUS
  <2>1. n <= Len(bb) /\ n \in 0..Len(bb) /\ n + 1 \in 1..Len(bb) /\ n + 1 - 1 = n
    BY <1>0
  <2>2. /\ up[n] \in Seq(Docs) /\ fb(n) \in Docs /\ bb[n + 1] \in Docs
        /\ Sub(FlattenSeq(up[n]), fb(n))
    BY <1>0, <1>1, <1>2, <1>5, <2>1
  <2>3. fb(n + 1) = fb(n) \o bb[n + 1]
    BY <1>2
  <2>4. up[n + 1] = step(n + 1, up[n])
    <3>1. after(n + 1)
      <4>. HIDE DEF after
      <4>. QED BY <1>3, <2>1
    <3>. HIDE DEF step
    <3>. QED BY <2>1, <3>1
  <2>5. /\ FlattenSeq(up[n]) \in Docs
        /\ FlattenSeq(Append(up[n], bb[n + 1])) = FlattenSeq(up[n]) \o bb[n + 1]
    BY <2>2, FlattenAppend DEF Docs
  <2>6. CASE n + 1 \in places
    <3>1. Sub(FlattenSeq(up[n]) \o bb[n + 1], fb(n) \o bb[n + 1])
      BY <2>2, <2>5, SubSelf, SubConcat
    <3>2. up[n + 1] = Append(up[n], bb[n + 1])
      BY <2>4, <2>6
    <3>. QED BY <2>3, <2>5, <3>1, <3>2
  <2>7. CASE n + 1 \notin places
    <3>. DEFINE none == <<>>
    <3>1. none \in Docs /\ Sub(none, bb[n + 1]) /\ FlattenSeq(up[n]) \o none = FlattenSeq(up[n])
      <4>1. \A k \in 1..Len(bb[n + 1]) : ~IsFence(bb[n + 1][k])
        BY <2>1, <2>7
      <4>2. FlattenSeq(up[n]) \in Seq(Line)
        BY <2>5 DEF Docs
      <4>. QED BY <2>2, <4>1, <4>2, NoneIs, SubNone, ConcatEmptySeq
    <3>. HIDE DEF none
    <3>2. Sub(FlattenSeq(up[n]) \o none, fb(n) \o bb[n + 1])
      BY <2>2, <2>5, <3>1, SubConcat
    <3>3. up[n + 1] = up[n]
      BY <2>4, <2>7
    <3>. QED BY <2>3, <3>1, <3>2, <3>3
  <2>. QED BY <2>6, <2>7
<1>6. Len(bb) \in T
  <2>. HIDE DEF T
  <2>. QED BY <1>0, <1>4, <1>5, SetInduction
<1>7. Len(bb) \in 0..Len(bb) /\ Len(bb) <= Len(bb)
  BY <1>0
<1>8. FlattenSeq(Keep(bb, places)) \in Docs
  <2>1. Keep(bb, places) \in Seq(Docs) /\ <<>> \in Docs
    BY <1>1, <1>7, NoneIs
  <2>. QED BY <2>1, FlattenAppend DEF Docs
<1>. QED BY <1>1, <1>2, <1>6, <1>7, <1>8

(* Bounds, and parts of a sequence. *)
LEMMA MinIs ==
  ASSUME NEW T \in SUBSET Nat, T # {}
  PROVE  Min(T) \in T /\ Min(T) \in Nat /\ \A k \in T : Min(T) <= k
<1>1. \E m \in T : \A k \in T : m <= k
  BY Least
<1>2. Min(T) \in T /\ \A k \in T : Min(T) <= k
  BY <1>1 DEF Min
<1>. QED BY <1>2

LEMMA MaxIs ==
  ASSUME NEW N \in Nat, NEW T \in SUBSET (0..N), T # {}
  PROVE  Max(T) \in T /\ Max(T) \in 0..N /\ \A k \in T : k <= Max(T)
<1>. DEFINE U == {N - k : k \in T}
<1>1. U \in SUBSET Nat /\ U # {}
  OBVIOUS
<1>. HIDE DEF U
<1>2. PICK m \in U : \A k \in U : m <= k
  BY <1>1, Least
<1>3. PICK t \in T : m = N - t
  BY <1>2 DEF U
<1>4. ASSUME NEW k \in T PROVE k <= t
  <2>1. N - k \in U /\ k \in 0..N /\ t \in 0..N
    BY DEF U
  <2>2. m <= N - k
    BY <1>2, <2>1
  <2>. QED BY <1>3, <2>1, <2>2
<1>5. \A k \in T : t >= k
  BY <1>4
<1>6. Max(T) \in T /\ \A k \in T : Max(T) >= k
  BY <1>5 DEF Max
<1>. QED BY <1>6

LEMMA SubSeqRange ==
  ASSUME NEW V, NEW s \in Seq(V), NEW n \in 1..(Len(s) + 1), NEW m \in n..(Len(s) + 1)
  PROVE  SubSeq(s, n, m - 1) \in Seq(V) /\ Range(SubSeq(s, n, m - 1)) \subseteq Range(s)
<1>. DEFINE part == SubSeq(s, n, m - 1)
<1>1. /\ part \in Seq(V) /\ Len(part) = m - n
      /\ \A k \in 1..(m - n) : part[k] = s[n + k - 1]
  BY PartIs
<1>. HIDE DEF part
<1>2. Len(s) \in Nat /\ DOMAIN part = 1..(m - n) /\ DOMAIN s = 1..Len(s)
  BY <1>1
<1>3. \A k \in 1..(m - n) : n + k - 1 \in 1..Len(s)
  BY <1>2
<1>4. Range(part) \subseteq Range(s)
  BY <1>1, <1>2, <1>3 DEF Range
<1>. QED BY <1>1, <1>4 DEF part

LEMMA LineAfterIs ==
  ASSUME NEW doc \in Docs, NEW n \in 1..Len(doc)
  PROVE  \/ LineAfter(doc, n) = 0 /\ \A m \in (n + 1)..Len(doc) : doc[m] = Blank
         \/ /\ LineAfter(doc, n) \in (n + 1)..Len(doc) /\ doc[LineAfter(doc, n)] # Blank
            /\ \A m \in (n + 1)..(LineAfter(doc, n) - 1) : doc[m] = Blank
<1>. DEFINE later == {m \in (n + 1)..Len(doc) : doc[m] # Blank}
<1>0. Len(doc) \in Nat
  BY DocIs
<1>1. CASE n = Len(doc)
  BY <1>0, <1>1 DEF LineAfter
<1>2. CASE n # Len(doc)
  <2>1. LineAfter(doc, n) = IF later = {} THEN 0 ELSE Min(later)
    BY <1>2 DEF LineAfter, NextLine
  <2>2. CASE later = {}
    BY <2>1, <2>2
  <2>3. CASE later # {}
    <3>1. later \in SUBSET Nat
      BY <1>0
    <3>2. Min(later) \in later /\ \A k \in later : Min(later) <= k
      <4>. HIDE DEF later
      <4>. QED BY <2>3, <3>1, MinIs
    <3>. DEFINE k == LineAfter(doc, n)
    <3>3. k \in (n + 1)..Len(doc) /\ doc[k] # Blank /\ \A m \in later : k <= m
      BY <2>1, <2>3, <3>2
    <3>. HIDE DEF k
    <3>4. \A m \in (n + 1)..(k - 1) : doc[m] = Blank
      <4>. SUFFICES ASSUME NEW m \in (n + 1)..(k - 1), doc[m] # Blank PROVE FALSE
        OBVIOUS
      <4>1. m \in (n + 1)..Len(doc) /\ ~(k <= m)
        BY <1>0, <3>3
      <4>. QED BY <3>3, <4>1
    <3>. QED BY <3>3, <3>4 DEF k
  <2>. QED BY <2>2, <2>3
<1>. QED BY <1>1, <1>2

LEMMA LinesIs ==
  ASSUME NEW V, NEW N \in Nat, NEW f \in [1..N -> V]
  PROVE  Lines(f) = f /\ f \in Seq(V) /\ Len(f) = N
<1>1. f \in Seq(V) /\ Len(f) = N
  BY FunctionIsSequence
<1>. QED BY <1>1, ConcatEmptySeq DEF Lines

LEMMA HavingIs ==
  ASSUME NEW line \in Line, NEW words \in Seq(Words)
  PROVE  /\ Having(line, words) \in Line /\ (IsFence(Having(line, words)) <=> IsFence(line))
         /\ Having(line, words).words = words
         /\ Having(line, words).mark = IF line.mark = "list" /\ words = <<>> THEN "text" ELSE line.mark
<1>1. line.mark \in Mark /\ line = [mark |-> line.mark, words |-> line.words]
  BY LineIs
<1>2. CASE line.mark = "list" /\ words = <<>>
  BY <1>2, BlankIs, Marks DEF Having, IsFence
<1>3. CASE ~(line.mark = "list" /\ words = <<>>)
  <2>1. Having(line, words) = [line EXCEPT !.words = words]
    BY <1>3 DEF Having
  <2>2. Having(line, words) = [mark |-> line.mark, words |-> words]
    BY <1>1, <2>1
  <2>. QED BY <1>1, <1>3, <2>2 DEF Line, IsFence
<1>. QED BY <1>2, <1>3

LEMMA LinesSub ==
  ASSUME NEW doc \in Docs, NEW out \in [1..Len(doc) -> Line],
         \A n \in 1..Len(doc) : IsFence(out[n]) <=> IsFence(doc[n]),
         \A n \in 1..Len(doc) : ~IsFence(doc[n]) => Range(out[n].words) \subseteq Range(doc[n].words)
  PROVE  Lines(out) \in Docs /\ Sub(Lines(out), doc)
<1>1. Len(doc) \in Nat
  BY DocIs
<1>2. Lines(out) = out /\ out \in Docs /\ Len(out) = Len(doc)
  BY <1>1, LinesIs DEF Docs
<1>3. Sub(out, doc)
  BY <1>2, SubPointwise
<1>. QED BY <1>2, <1>3

Made(out, doc) == out \in Docs /\ Sub(out, doc)

(* One pass after the other: no pass mixes code and text. *)
LEMMA MadeTrans == ASSUME NEW a, NEW b, NEW c, Made(a, b), Made(b, c) PROVE Made(a, c)
BY SubTrans DEF Made

LEMMA KeepMade ==
  ASSUME NEW doc \in Docs, NEW places, \A n \in 1..Len(doc) : IsFence(doc[n]) => n \in places
  PROVE  Made(Keep(doc, places), doc)
BY KeepSub DEF Made

(* What is dropped as noise is not a fence. *)
LEMMA DropMade ==
  ASSUME NEW doc \in Docs, NEW places, \A n \in 1..Len(doc) : n \notin places => doc[n].mark # "fence"
  PROVE  Made(Keep(doc, places), doc)
BY KeepMade DEF IsFence

LEMMA WithoutMade ==
  ASSUME NEW doc \in Docs, NEW kind
  PROVE  Made(Without(doc, kind), doc) /\ Made(WithoutOutside(doc, kind), doc)
<1>0. DOMAIN doc = 1..Len(doc)
  BY DocIs
<1>1. \A n \in 1..Len(doc) : OfKind(doc[n], kind) => doc[n].mark # "fence"
  BY DEF OfKind
<1>2. Made(Without(doc, kind), doc)
  BY <1>0, <1>1, DropMade DEF Without
<1>3. Made(WithoutOutside(doc, kind), doc)
  BY <1>0, <1>1, DropMade DEF WithoutOutside
<1>. QED BY <1>2, <1>3

LEMMA ControlsMade == ASSUME NEW doc \in Docs PROVE Made(StripUiControlText(doc), doc)
<1>0. DOMAIN doc = 1..Len(doc)
  BY DocIs
<1>1. \A n \in 1..Len(doc) : IsUiControlLine(doc[n]) => doc[n].mark # "fence"
  BY DEF IsUiControlLine
<1>. QED BY <1>0, <1>1, DropMade DEF StripUiControlText

LEMMA NumbersMade == ASSUME NEW doc \in Docs PROVE Made(StripBareNumberLines(doc), doc)
<1>0. DOMAIN doc = 1..Len(doc)
  BY DocIs
<1>1. \A n \in 1..Len(doc) : OfKind(doc[n], "number") => doc[n].mark # "fence"
  BY DEF OfKind
<1>. QED BY <1>0, <1>1, DropMade DEF StripBareNumberLines

LEMMA WhitespaceMade == ASSUME NEW doc \in Docs PROVE Made(CollapseWhitespace(doc), doc)
<1>0. DOMAIN doc = 1..Len(doc)
  BY DocIs
<1>1. \A n \in 1..Len(doc) : doc[n] = Blank => doc[n].mark # "fence"
  BY BlankIs
<1>. QED BY <1>0, <1>1, DropMade DEF CollapseWhitespace

LEMMA AgainstHeadingsMade == ASSUME NEW doc \in Docs PROVE Made(DedupTextAgainstHeadings(doc), doc)
<1>0. DOMAIN doc = 1..Len(doc)
  BY DocIs
<1>. DEFINE places == {n \in DOMAIN doc : doc[n].mark = "text" /\ doc[n] # Blank
                        => \A h \in DOMAIN doc : IsHeading(doc[h]) => doc[h].words # doc[n].words}
<1>1. \A n \in 1..Len(doc) : n \notin places => doc[n].mark # "fence"
  BY <1>0
<1>2. DedupTextAgainstHeadings(doc) = Keep(doc, places)
  BY DEF DedupTextAgainstHeadings
<1>. HIDE DEF places
<1>. QED BY <1>1, <1>2, DropMade

LEMMA EmptyHeadingsMade == ASSUME NEW doc \in Docs PROVE Made(StripEmptyHeadings(doc), doc)
<1>0. DOMAIN doc = 1..Len(doc)
  BY DocIs
<1>. DEFINE empty(n) == \/ Key(doc[n].words) = <<>>
                        \/ Len(doc[n].words) = 1 /\ Kind[doc[n].words[1]] = "section"
            places == {n \in DOMAIN doc : ~(IsHeading(doc[n]) /\ empty(n))}
<1>1. StripEmptyHeadings(doc) = Keep(doc, places)
  BY DEF StripEmptyHeadings
<1>. HIDE DEF empty
<1>2. \A n \in 1..Len(doc) : IsFence(doc[n]) => n \in places
  BY <1>0, HeadingNoFence
<1>. HIDE DEF places
<1>. QED BY <1>1, <1>2, KeepMade

LEMMA TrailingHeadingsMade == ASSUME NEW doc \in Docs PROVE Made(StripTrailingEmptyHeadings(doc), doc)
<1>0. DOMAIN doc = 1..Len(doc)
  BY DocIs
<1>. DEFINE below(n) == LET next == LineAfter(doc, n)
                        IN  next # 0 /\ (IsHeading(doc[next]) => Level[doc[next].mark] > Level[doc[n].mark])
            places == {n \in DOMAIN doc : IsHeading(doc[n]) => below(n)}
<1>1. StripTrailingEmptyHeadings(doc) = Keep(doc, places)
  BY DEF StripTrailingEmptyHeadings
<1>. HIDE DEF below
<1>2. \A n \in 1..Len(doc) : IsFence(doc[n]) => n \in places
  BY <1>0, HeadingNoFence
<1>. HIDE DEF places
<1>. QED BY <1>1, <1>2, KeepMade

LEMMA DescriptionsMade == ASSUME NEW doc \in Docs PROVE Made(DedupAdjacentDescriptions(doc), doc)
<1>0. DOMAIN doc = 1..Len(doc)
  BY DocIs
<1>. DEFINE RestOf(n) ==
              /\ doc[n].words # <<>>
              /\ Kind[Head(doc[n].words)] = "more"
              /\ LET rest == Tail(doc[n].words)
                 IN  /\ Size([mark |-> "text", words |-> rest]) > 15
                     /\ \E k \in DOMAIN doc[n - 1].words :
                          SubSeq(doc[n - 1].words, k, Min({k + Len(rest) - 1, Len(doc[n - 1].words)})) = rest
            Repeats(n) == n > 1 /\ Len(doc) >= 3 /\ doc[n].mark = "text" /\ RestOf(n)
            Odd(n) == (n - Max({m \in 0..n : ~Repeats(m)})) % 2 = 1
            places == {n \in DOMAIN doc : ~(Repeats(n) /\ Odd(n))}
<1>1. DedupAdjacentDescriptions(doc) = Keep(doc, places)
  BY DEF DedupAdjacentDescriptions
<1>. HIDE DEF RestOf, Odd
<1>2. \A n \in 1..Len(doc) : n \notin places => doc[n].mark # "fence"
  BY <1>0
<1>. HIDE DEF places
<1>. QED BY <1>1, <1>2, DropMade

LEMMA RepetitionMade ==
  ASSUME NEW doc \in Docs, ~FenceRepeated(doc) PROVE Made(DedupDuplicateHeadings(doc), doc)
<1>0. DOMAIN doc = 1..Len(doc)
  BY DocIs
<1>1. \A n \in 1..Len(doc) : IsFence(doc[n]) => n \in DOMAIN doc \ Repetition(doc)
  BY <1>0 DEF FenceRepeated
<1>. QED BY <1>1, KeepMade DEF DedupDuplicateHeadings

LEMMA BeforeScriptIs ==
  ASSUME NEW words \in Seq(Words)
  PROVE  BeforeScript(words) \in Seq(Words) /\ Range(BeforeScript(words)) \subseteq Range(words)
<1>. DEFINE script == {n \in DOMAIN words : Kind[words[n]] = "script"}
<1>0. Len(words) \in Nat /\ DOMAIN words = 1..Len(words)
  OBVIOUS
<1>1. BeforeScript(words) = IF script = {} THEN words ELSE SubSeq(words, 1, Min(script) - 1)
  BY DEF BeforeScript
<1>2. CASE script = {}
  BY <1>1, <1>2
<1>3. CASE script # {}
  <2>1. script \in SUBSET Nat
    BY <1>0
  <2>2. Min(script) \in script
    <3>. HIDE DEF script
    <3>. QED BY <1>3, <2>1, MinIs
  <2>3. Min(script) \in 1..(Len(words) + 1) /\ 1 \in 1..(Len(words) + 1)
    BY <1>0, <2>2
  <2>. DEFINE m == Min(script)
  <2>. HIDE DEF m
  <2>4. SubSeq(words, 1, m - 1) \in Seq(Words) /\ Range(SubSeq(words, 1, m - 1)) \subseteq Range(words)
    BY <2>3, SubSeqRange DEF m
  <2>. QED BY <1>1, <1>3, <2>4 DEF m
<1>. QED BY <1>2, <1>3

LEMMA WithoutChromeIs ==
  ASSUME NEW words \in Seq(Words)
  PROVE  WithoutChrome(words) \in Seq(Words) /\ Range(WithoutChrome(words)) \subseteq Range(words)
BY KeepMembers, KeepRange DEF WithoutChrome

LEMMA WithoutClassesIs ==
  ASSUME NEW words \in Seq(Words)
  PROVE  WithoutClasses(words) \in Seq(Words) /\ Range(WithoutClasses(words)) \subseteq Range(words)
<1>. DEFINE content == {n \in DOMAIN words : Kind[words[n]] # "class"}
            last == IF content = {} THEN 0 ELSE Max(content)
<1>0. Len(words) \in Nat /\ DOMAIN words = 1..Len(words)
  OBVIOUS
<1>1. WithoutClasses(words) = IF Len(words) >= 3 /\ Len(words) - last >= 2 THEN SubSeq(words, 1, last) ELSE words
  BY DEF WithoutClasses
<1>2. last \in 0..Len(words)
  <2>1. content \in SUBSET (0..Len(words))
    BY <1>0
  <2>2. content # {} => Max(content) \in 0..Len(words)
    <3>. HIDE DEF content
    <3>. QED BY <1>0, <2>1, MaxIs
  <2>. QED BY <1>0, <2>2
<1>. HIDE DEF last
<1>3. SubSeq(words, 1, last) \in Seq(Words) /\ Range(SubSeq(words, 1, last)) \subseteq Range(words)
  <2>. DEFINE m == last + 1
  <2>1. m \in 1..(Len(words) + 1) /\ 1 \in 1..(Len(words) + 1) /\ m - 1 = last
    BY <1>0, <1>2
  <2>. HIDE DEF m
  <2>2. SubSeq(words, 1, m - 1) \in Seq(Words) /\ Range(SubSeq(words, 1, m - 1)) \subseteq Range(words)
    BY <2>1, SubSeqRange
  <2>. QED BY <2>1, <2>2
<1>. QED BY <1>1, <1>3

LEMMA HavingPart ==
  ASSUME NEW line \in Line, NEW words \in Seq(Words), Range(words) \subseteq Range(line.words)
  PROVE  /\ Having(line, words) \in Line /\ (IsFence(Having(line, words)) <=> IsFence(line))
         /\ Range(Having(line, words).words) \subseteq Range(line.words)
BY HavingIs

LEMMA LeakedJsMade == ASSUME NEW doc \in Docs PROVE Made(StripLeakedJs(doc), doc)
<1>. DEFINE put(n) == IF Outside(doc, n) /\ ~IsFence(doc[n])
                                          THEN Having(doc[n], BeforeScript(doc[n].words)) ELSE doc[n]
            out == [n \in 1..Len(doc) |-> put(n)]
<1>0. DOMAIN doc = 1..Len(doc) /\ \A n \in 1..Len(doc) : doc[n] \in Line
  BY DocIs
<1>1. \A n \in 1..Len(doc) :
        /\ put(n) \in Line /\ (IsFence(put(n)) <=> IsFence(doc[n]))
        /\ Range(put(n).words) \subseteq Range(doc[n].words)
  BY <1>0, LineIs, BeforeScriptIs, HavingPart
<1>2. out \in [1..Len(doc) -> Line]
  <2>. HIDE DEF put
  <2>. QED BY <1>1
<1>3. StripLeakedJs(doc) = Lines(out)
  BY <1>0 DEF StripLeakedJs
<1>. HIDE DEF put
<1>4. \A n \in 1..Len(doc) : out[n] = put(n)
  OBVIOUS
<1>. HIDE DEF out
<1>. QED BY <1>1, <1>2, <1>3, <1>4, LinesSub DEF Made

LEMMA ChromeMade == ASSUME NEW doc \in Docs PROVE Made(StripA11yLinkChrome(doc), doc)
<1>. DEFINE put(n) == IF Outside(doc, n) /\ ~IsFence(doc[n])
                                          THEN Having(doc[n], WithoutChrome(doc[n].words)) ELSE doc[n]
            out == [n \in 1..Len(doc) |-> put(n)]
<1>0. DOMAIN doc = 1..Len(doc) /\ \A n \in 1..Len(doc) : doc[n] \in Line
  BY DocIs
<1>1. \A n \in 1..Len(doc) :
        /\ put(n) \in Line /\ (IsFence(put(n)) <=> IsFence(doc[n]))
        /\ Range(put(n).words) \subseteq Range(doc[n].words)
  BY <1>0, LineIs, WithoutChromeIs, HavingPart
<1>2. out \in [1..Len(doc) -> Line]
  <2>. HIDE DEF put
  <2>. QED BY <1>1
<1>3. StripA11yLinkChrome(doc) = Lines(out)
  BY <1>0 DEF StripA11yLinkChrome
<1>. HIDE DEF put
<1>4. \A n \in 1..Len(doc) : out[n] = put(n)
  OBVIOUS
<1>. HIDE DEF out
<1>. QED BY <1>1, <1>2, <1>3, <1>4, LinesSub DEF Made

LEMMA CssClassesMade == ASSUME NEW doc \in Docs PROVE Made(StripCssClassLines(doc), doc)
<1>. DEFINE rest(n) == ~MostlyClasses(doc[n]) /\ doc[n] # [mark |-> "-", words |-> <<>>]
            places == {n \in DOMAIN doc : Outside(doc, n) => rest(n)}
            lines == Keep(doc, places)
            put(n) == IF Outside(lines, n) /\ lines[n].mark \in {"text", "list"}
                      THEN Having(lines[n], WithoutClasses(lines[n].words)) ELSE lines[n]
            out == [n \in 1..Len(lines) |-> put(n)]
<1>1. Made(lines, doc)
  <2>0. DOMAIN doc = 1..Len(doc)
    BY DocIs
  <2>1. \A n \in 1..Len(doc) : ~rest(n) => doc[n].mark # "fence"
    BY DEF MostlyClasses
  <2>. HIDE DEF rest
  <2>2. \A n \in 1..Len(doc) : n \notin places => doc[n].mark # "fence"
    BY <2>0, <2>1
  <2>. HIDE DEF places
  <2>. QED BY <2>2, DropMade
<1>2. DOMAIN lines = 1..Len(lines) => StripCssClassLines(doc) = Lines(out)
  BY DEF StripCssClassLines
<1>. HIDE DEF lines
<1>3. lines \in Docs
  BY <1>1 DEF Made
<1>4. DOMAIN lines = 1..Len(lines) /\ \A n \in 1..Len(lines) : lines[n] \in Line
  BY <1>3, DocIs
<1>5. \A n \in 1..Len(lines) :
        /\ put(n) \in Line /\ (IsFence(put(n)) <=> IsFence(lines[n]))
        /\ Range(put(n).words) \subseteq Range(lines[n].words)
  BY <1>4, LineIs, WithoutClassesIs, HavingPart
<1>6. out \in [1..Len(lines) -> Line]
  <2>. HIDE DEF put
  <2>. QED BY <1>5
<1>. HIDE DEF put
<1>8. \A n \in 1..Len(lines) : out[n] = put(n)
  OBVIOUS
<1>. HIDE DEF out
<1>7. Made(Lines(out), lines)
  BY <1>3, <1>5, <1>6, <1>8, LinesSub DEF Made
<1>. QED BY <1>1, <1>2, <1>4, <1>7, MadeTrans

LEMMA WordsChanged ==
  ASSUME NEW line \in Line, NEW words \in Seq(Words)
  PROVE  /\ [line EXCEPT !.words = words] \in Line /\ [line EXCEPT !.words = words].words = words
         /\ [line EXCEPT !.words = words].mark = line.mark
         /\ (IsFence([line EXCEPT !.words = words]) <=> IsFence(line))
BY DEF Line, IsFence

LEMMA RangeIs ==
  ASSUME NEW V, NEW s \in Seq(V), NEW e
  PROVE  e \in Range(s) <=> \E n \in 1..Len(s) : s[n] = e
<1>1. DOMAIN s = 1..Len(s)
  OBVIOUS
<1>. QED BY <1>1 DEF Range

(* Of equal neighbours the first stays; the first round of a cycle has the *)
(* items of all.                                                           *)
LEMMA NeighboursStay ==
  ASSUME NEW items \in Seq(Words)
  PROVE  Range(items) \subseteq Range(Keep(items, {n \in DOMAIN items : n = 1 \/ items[n] # items[n - 1]}))
<1>. DEFINE places == {n \in DOMAIN items : n = 1 \/ items[n] # items[n - 1]}
            out == Keep(items, places)
            T == {n \in Nat : n + 1 <= Len(items) => items[n + 1] \in Range(out)}
<1>1. Len(items) \in Nat /\ DOMAIN items = 1..Len(items)
  OBVIOUS
<1>2. \A n \in 1..Len(items) : n = 1 \/ items[n] # items[n - 1] => n \in places
  BY <1>1
<1>. HIDE DEF places
<1>3. out \in Seq(Words) /\ \A n \in 1..Len(items) : n \in places => \E k \in 1..Len(out) : out[k] = items[n]
  BY KeepMembers
<1>. HIDE DEF out
<1>4. \A n \in 1..Len(items) : n \in places => items[n] \in Range(out)
  BY <1>3, RangeIs
<1>5. 0 \in T
  <2>1. 0 + 1 = 1 /\ (1 <= Len(items) => 1 \in 1..Len(items))
    BY <1>1
  <2>. QED BY <1>2, <1>4, <2>1
<1>6. ASSUME NEW n \in Nat, n \in T PROVE n + 1 \in T
  <2>0. n + 1 \in Nat
    OBVIOUS
  <2>. SUFFICES ASSUME (n + 1) + 1 <= Len(items) PROVE items[(n + 1) + 1] \in Range(out)
    BY <2>0
  <2>1. n + 1 <= Len(items) /\ (n + 1) + 1 \in 1..Len(items) /\ ((n + 1) + 1) - 1 = n + 1
    BY <1>1
  <2>2. items[n + 1] \in Range(out)
    BY <1>6, <2>1
  <2>3. CASE items[(n + 1) + 1] = items[n + 1]
    BY <2>2, <2>3
  <2>4. CASE items[(n + 1) + 1] # items[n + 1]
    BY <1>2, <1>4, <2>1, <2>4
  <2>. QED BY <2>3, <2>4
<1>7. \A n \in Nat : n \in T
  <2>. HIDE DEF T
  <2>. QED BY <1>5, <1>6, SetInduction
<1>8. ASSUME NEW w \in Range(items) PROVE w \in Range(out)
  <2>1. PICK n \in 1..Len(items) : w = items[n]
    BY <1>8, RangeIs
  <2>2. n - 1 \in Nat /\ (n - 1) + 1 = n /\ n <= Len(items)
    BY <1>1
  <2>. QED BY <1>7, <2>1, <2>2
<1>. QED BY <1>8 DEF out, places

LEMMA CycleStays ==
  ASSUME NEW items \in Seq(Words), NEW c \in 1..Len(items), \A n \in 1..Len(items) : n > c => items[n] = items[n - c]
  PROVE  Range(items) \subseteq Range(SubSeq(items, 1, c))
<1>. DEFINE part == SubSeq(items, 1, c)
            T == {n \in Nat : \A m \in 1..Len(items) : m <= n => items[m] \in Range(part)}
<1>1. Len(items) \in Nat /\ c \in Nat /\ c >= 1
  OBVIOUS
<1>2. part \in Seq(Words) /\ Len(part) = c /\ \A k \in 1..c : part[k] = items[k]
  <2>1. c \in 0..Len(items)
    BY <1>1
  <2>. QED BY <2>1, PrefixIs DEF Prefix
<1>. HIDE DEF part
<1>3. \A k \in 1..c : items[k] \in Range(part)
  BY <1>2, RangeIs
<1>4. 0 \in T
  OBVIOUS
<1>5. ASSUME NEW n \in Nat, n \in T PROVE n + 1 \in T
  <2>0. n + 1 \in Nat
    OBVIOUS
  <2>. SUFFICES ASSUME NEW m \in 1..Len(items), m <= n + 1 PROVE items[m] \in Range(part)
    BY <2>0
  <2>1. CASE m <= c
    <3>1. m \in 1..c
      BY <1>1, <2>1
    <3>. QED BY <1>3, <3>1
  <2>2. CASE m > c
    <3>1. m - c \in 1..Len(items) /\ m - c <= n
      BY <1>1, <2>2
    <3>2. items[m - c] \in Range(part)
      BY <1>5, <3>1
    <3>. QED BY <2>2, <3>2
  <2>. QED BY <1>1, <2>1, <2>2
<1>6. Len(items) \in T
  <2>. HIDE DEF T
  <2>. QED BY <1>1, <1>4, <1>5, SetInduction
<1>7. \A m \in 1..Len(items) : m <= Len(items)
  BY <1>1
<1>8. \A m \in 1..Len(items) : items[m] \in Range(part)
  BY <1>6, <1>7
<1>. QED BY <1>8, RangeIs DEF part

(* Every item of a list stays. *)
LEMMA CommaListsLines ==
  ASSUME NEW doc \in Docs
  PROVE  \E out \in [1..Len(doc) -> Line] :
           /\ DedupCommaLists(doc) = Lines(out)
           /\ \A n \in 1..Len(doc) : (IsFence(out[n]) <=> IsFence(doc[n])) /\ out[n].mark = doc[n].mark
           /\ \A n \in 1..Len(doc) : Range(out[n].words) = Range(doc[n].words)
           /\ \A n \in 1..Len(doc) : doc[n].mark # "list" => out[n] = doc[n]
<1>. DEFINE Cycles(items) ==
              {c \in 1..(Len(items) \div 2) :
                 Len(items) % c = 0 /\ \A n \in DOMAIN items : n > c => items[n] = items[n - c]}
            Once(items) ==
              IF Len(items) >= 6 /\ Cycles(items) # {} THEN SubSeq(items, 1, Min(Cycles(items)))
              ELSE Keep(items, {n \in DOMAIN items : n = 1 \/ items[n] # items[n - 1]})
            put(n) == IF doc[n].mark = "list" THEN [doc[n] EXCEPT !.words = Once(@)] ELSE doc[n]
            out == [n \in 1..Len(doc) |-> put(n)]
<1>0. DOMAIN doc = 1..Len(doc) /\ \A n \in 1..Len(doc) : doc[n] \in Line
  BY DocIs
<1>1. ASSUME NEW items \in Seq(Words)
      PROVE  Once(items) \in Seq(Words) /\ Range(Once(items)) \subseteq Range(items)
  <2>0. Len(items) \in Nat
    OBVIOUS
  <2>1. CASE Len(items) >= 6 /\ Cycles(items) # {}
    <3>1. Cycles(items) \in SUBSET (1..(Len(items) \div 2)) /\ Len(items) \div 2 <= Len(items)
      BY <2>0
    <3>. DEFINE cycles == Cycles(items)
    <3>2. Once(items) = SubSeq(items, 1, Min(cycles))
      BY <2>1
    <3>3. cycles \in SUBSET (1..(Len(items) \div 2)) /\ cycles # {}
      BY <2>1, <3>1
    <3>. HIDE DEF cycles
    <3>4. Min(cycles) \in cycles
      <4>1. cycles \in SUBSET Nat
        BY <3>3
      <4>. QED BY <3>3, <4>1, MinIs
    <3>5. Min(cycles) \in 1..(Len(items) \div 2)
      BY <3>3, <3>4
    <3>. DEFINE least == Min(cycles)
    <3>6. least \in Nat /\ least <= Len(items)
      <4>. DEFINE half == Len(items) \div 2
      <4>1. half \in Int /\ half <= Len(items) /\ least \in 1..half
        BY <2>0, <3>5
      <4>. HIDE DEF half, least
      <4>. QED BY <2>0, <4>1
    <3>. HIDE DEF least
    <3>7. least + 1 \in 1..(Len(items) + 1) /\ 1 \in 1..(Len(items) + 1) /\ (least + 1) - 1 = least
      BY <2>0, <3>6
    <3>8. SubSeq(items, 1, (least + 1) - 1) \in Seq(Words) /\ Range(SubSeq(items, 1, (least + 1) - 1)) \subseteq Range(items)
      <4>1. \A k \in 1..(Len(items) + 1) :
              SubSeq(items, 1, k - 1) \in Seq(Words) /\ Range(SubSeq(items, 1, k - 1)) \subseteq Range(items)
        BY <2>0, SubSeqRange
      <4>. QED BY <3>7, <4>1
    <3>9. Once(items) = SubSeq(items, 1, least)
      <4>. HIDE DEF Once
      <4>. QED BY <3>2 DEF least
    <3>10. SubSeq(items, 1, least) \in Seq(Words) /\ Range(SubSeq(items, 1, least)) \subseteq Range(items)
      BY <3>7, <3>8
    <3>. HIDE DEF Once
    <3>. QED BY <3>9, <3>10
  <2>2. CASE ~(Len(items) >= 6 /\ Cycles(items) # {})
    <3>1. Once(items) = Keep(items, {n \in DOMAIN items : n = 1 \/ items[n] # items[n - 1]})
      BY <2>2
    <3>. HIDE DEF Once
    <3>. QED BY <3>1, KeepMembers, KeepRange
  <2>. QED BY <2>1, <2>2
<1>6. ASSUME NEW items \in Seq(Words) PROVE Range(items) \subseteq Range(Once(items))
  <2>0. Len(items) \in Nat /\ DOMAIN items = 1..Len(items)
    OBVIOUS
  <2>1. CASE Len(items) >= 6 /\ Cycles(items) # {}
    <3>. DEFINE half == Len(items) \div 2
                cycles == Cycles(items)
                c == Min(cycles)
    <3>1. half \in Int /\ half <= Len(items)
      BY <2>0
    <3>2. cycles # {} /\ cycles \in SUBSET (1..half) /\ Once(items) = SubSeq(items, 1, c)
          /\ \A m \in cycles : \A n \in 1..Len(items) : n > m => items[n] = items[n - m]
      BY <2>0, <2>1
    <3>. HIDE DEF half, cycles, Once
    <3>3. c \in cycles
      <4>1. cycles \in SUBSET Nat
        BY <3>1, <3>2
      <4>. QED BY <3>2, <4>1, MinIs
    <3>4. c \in 1..Len(items)
      <4>1. c \in 1..half
        BY <3>2, <3>3
      <4>. HIDE DEF c
      <4>. QED BY <2>0, <3>1, <4>1
    <3>5. \A n \in 1..Len(items) : n > c => items[n] = items[n - c]
      BY <3>2, <3>3
    <3>. HIDE DEF c
    <3>. QED BY <3>2, <3>4, <3>5, CycleStays
  <2>2. CASE ~(Len(items) >= 6 /\ Cycles(items) # {})
    <3>1. Once(items) = Keep(items, {n \in DOMAIN items : n = 1 \/ items[n] # items[n - 1]})
      BY <2>2
    <3>. HIDE DEF Once
    <3>. QED BY <3>1, NeighboursStay
  <2>. QED BY <2>1, <2>2
<1>2. DedupCommaLists(doc) = Lines(out)
  BY <1>0 DEF DedupCommaLists
<1>. HIDE DEF Once
<1>3. \A n \in 1..Len(doc) :
        /\ put(n) \in Line /\ (IsFence(put(n)) <=> IsFence(doc[n])) /\ put(n).mark = doc[n].mark
        /\ Range(put(n).words) = Range(doc[n].words) /\ (doc[n].mark # "list" => put(n) = doc[n])
  <2>. SUFFICES ASSUME NEW n \in 1..Len(doc)
                PROVE  /\ put(n) \in Line /\ (IsFence(put(n)) <=> IsFence(doc[n])) /\ put(n).mark = doc[n].mark
                       /\ Range(put(n).words) = Range(doc[n].words) /\ (doc[n].mark # "list" => put(n) = doc[n])
    OBVIOUS
  <2>. DEFINE items == doc[n].words
              once == Once(items)
  <2>1. doc[n] \in Line /\ items \in Seq(Words)
    BY <1>0, LineIs
  <2>2. once \in Seq(Words) /\ Range(once) = Range(items)
    BY <1>1, <1>6, <2>1
  <2>3. put(n) = IF doc[n].mark = "list" THEN [doc[n] EXCEPT !.words = once] ELSE doc[n]
    OBVIOUS
  <2>. HIDE DEF once, put
  <2>4. Range(put(n).words) = Range(items)
    <3>1. [doc[n] EXCEPT !.words = once].words = once
      BY <2>1, <2>2, WordsChanged
    <3>. QED BY <2>2, <2>3, <3>1
  <2>. HIDE DEF items
  <2>5. put(n) \in Line /\ (IsFence(put(n)) <=> IsFence(doc[n])) /\ put(n).mark = doc[n].mark
    BY <2>1, <2>2, <2>3, WordsChanged
  <2>. QED BY <2>3, <2>4, <2>5 DEF items
<1>4. out \in [1..Len(doc) -> Line]
  <2>. HIDE DEF put
  <2>. QED BY <1>3
<1>. HIDE DEF put
<1>5. \A n \in 1..Len(doc) : out[n] = put(n)
  OBVIOUS
<1>. HIDE DEF out
<1>. QED BY <1>2, <1>3, <1>4, <1>5

LEMMA CommaListsMade == ASSUME NEW doc \in Docs PROVE Made(DedupCommaLists(doc), doc)
BY CommaListsLines, LinesSub DEF Made

LEMMA StepSame ==
  ASSUME NEW doc \in Docs, NEW n \in 1..Len(doc)
  PROVE  <<doc[n]>> \in Docs /\ Sub(<<doc[n]>>, SubSeq(doc, n, (n + 1) - 1))
<1>1. n \in Nat /\ (n + 1) - 1 = n /\ n + 1 \in n..(Len(doc) + 1) /\ n \in 1..(Len(doc) + 1) /\ n + 1 - n = 1 /\ doc[n] \in Line
  BY DocIs
<1>. DEFINE part == SubSeq(doc, n, (n + 1) - 1)
            one == <<doc[n]>>
<1>2. /\ part \in Docs /\ Len(part) = (n + 1) - n
      /\ \A k \in 1..((n + 1) - n) : part[k] = doc[n + k - 1]
  BY <1>1, PartIs DEF Docs
<1>3. (n + 1) - n = 1 /\ n + 1 - 1 = n /\ 1 \in 1..1
  BY <1>1
<1>4. one \in Docs /\ Len(one) = 1 /\ one[1] = doc[n]
  BY <1>1, OneIs DEF Docs
<1>. HIDE DEF part, one
<1>5. Len(part) = 1 /\ part[1] = doc[n]
  BY <1>2, <1>3
<1>6. part = one
  <2>1. DOMAIN part = 1..1 /\ DOMAIN one = 1..1
    BY <1>2, <1>4, <1>5, DocIs
  <2>2. \A k \in 1..1 : part[k] = one[k]
    BY <1>4, <1>5
  <2>. QED BY <1>2, <1>4, <2>1, <2>2 DEF Docs
<1>. QED BY <1>4, <1>6, SubSelf DEF part, one

LEMMA StepMerge ==
  ASSUME NEW doc \in Docs, NEW n \in 1..Len(doc), NEW m \in (n + 1)..(Len(doc) + 1), NEW out \in Docs,
         \A k \in 1..Len(out) : ~IsFence(out[k]),
         \A k \in n..(m - 1) : ~IsFence(doc[k]),
         \A k \in 1..Len(out) : \A w \in Range(out[k].words) :
           \E j \in n..(m - 1) : w \in Range(doc[j].words)
  PROVE  Sub(out, SubSeq(doc, n, m - 1))
<1>. DEFINE part == SubSeq(doc, n, m - 1)
<1>1. Len(doc) \in Nat /\ n \in 1..(Len(doc) + 1) /\ m \in n..(Len(doc) + 1)
  BY DocIs
<1>2. /\ part \in Docs /\ Len(part) = m - n
      /\ \A k \in 1..(m - n) : part[k] = doc[n + k - 1]
      /\ \A k \in n..(m - 1) : k - n + 1 \in 1..(m - n) /\ part[k - n + 1] = doc[k]
  BY <1>1, PartIs DEF Docs
<1>. HIDE DEF part
<1>3. \A k \in 1..Len(part) : ~IsFence(part[k])
  <2>1. \A k \in 1..(m - n) : n + k - 1 \in n..(m - 1)
    BY <1>1
  <2>. QED BY <1>2, <2>1
<1>4. \A k \in 1..Len(out) : \A w \in Range(out[k].words) : \E j \in 1..Len(part) : w \in Range(part[j].words)
  <2>. SUFFICES ASSUME NEW k \in 1..Len(out), NEW w \in Range(out[k].words)
                PROVE  \E j \in 1..Len(part) : w \in Range(part[j].words)
    OBVIOUS
  <2>1. PICK j \in n..(m - 1) : w \in Range(doc[j].words)
    OBVIOUS
  <2>2. j - n + 1 \in 1..Len(part) /\ part[j - n + 1] = doc[j]
    BY <1>2
  <2>. QED BY <2>1, <2>2
<1>5. Sub(out, part)
  BY <1>2, <1>3, <1>4, SubNoFence
<1>. QED BY <1>5 DEF part

(* Part of what a walk gives has every word of the lines it stands for. *)
SaidBy(part, doc, n, m) ==
  \A k \in n..(m - 1) : ~IsFence(doc[k]) => \A w \in Range(doc[k].words) :
    \E line \in Range(part) : ~IsFence(line) /\ w \in Range(line.words)

LEMMA StepSaidBy ==
  ASSUME NEW doc \in Docs, NEW n \in 1..Len(doc)
  PROVE  SaidBy(<<doc[n]>>, doc, n, n + 1)
<1>1. \A k \in n..((n + 1) - 1) : k = n
  OBVIOUS
<1>2. doc[n] \in Range(<<doc[n]>>)
  BY OneIs DEF Range
<1>. QED BY <1>1, <1>2 DEF SaidBy

(* A walk no line is lost in but blank lines and fences.                   *)
FaithfulWalk(gives, next, doc) ==
  /\ gives \in [1..Len(doc) -> Docs]
  /\ \A n \in 1..Len(doc) : next[n] \in (n + 1)..(Len(doc) + 1)
  /\ \A n \in 1..Len(doc) : Sub(gives[n], SubSeq(doc, n, next[n] - 1))
  /\ \A n \in 1..Len(doc) : SaidBy(gives[n], doc, n, next[n])

LEMMA EmptyCodeWalk ==
  ASSUME NEW doc \in Docs
  PROVE  \E gives, next : StripEmptyCodeBlocks(doc) = Walked(gives, next) /\ FaithfulWalk(gives, next, doc)
<1>. DEFINE Next(n) == LineAfter(doc, n)
            Empty(n) == IsFence(doc[n]) /\ Next(n) # 0 /\ IsFence(doc[Next(n)])
            put(n) == IF Empty(n) THEN <<>> ELSE <<doc[n]>>
            goes(n) == IF Empty(n) THEN Next(n) + 1 ELSE n + 1
            gives == [n \in DOMAIN doc |-> put(n)]
            next == [n \in DOMAIN doc |-> goes(n)]
<1>0. DOMAIN doc = 1..Len(doc) /\ Len(doc) \in Nat /\ \A n \in 1..Len(doc) : doc[n] \in Line
  BY DocIs
<1>1. StripEmptyCodeBlocks(doc) = Walked(gives, next)
  BY DEF StripEmptyCodeBlocks
<1>2. ASSUME NEW n \in 1..Len(doc)
      PROVE  /\ put(n) \in Docs /\ goes(n) \in (n + 1)..(Len(doc) + 1)
             /\ Sub(put(n), SubSeq(doc, n, goes(n) - 1))
             /\ SaidBy(put(n), doc, n, goes(n))
  <2>1. CASE ~Empty(n)
    <3>1. put(n) = <<doc[n]>> /\ goes(n) = n + 1
      BY <2>1
    <3>. HIDE DEF put, goes
    <3>. QED BY <1>0, <3>1, StepSame, StepSaidBy
  <2>2. CASE Empty(n)
    <3>. DEFINE k == Next(n)
                none == <<>>
    <3>1. /\ k \in (n + 1)..Len(doc) /\ IsFence(doc[n]) /\ IsFence(doc[k])
          /\ \A j \in (n + 1)..(k - 1) : ~IsFence(doc[j])
      <4>1. /\ k \in (n + 1)..Len(doc) /\ \A j \in (n + 1)..(k - 1) : doc[j] = Blank
        BY <2>2, LineAfterIs
      <4>. QED BY <2>2, <4>1, BlankIs
    <3>2. put(n) = none /\ goes(n) = k + 1
      BY <2>2
    <3>10. \A j \in (n + 1)..(k - 1) : doc[j] = Blank
      BY <2>2, LineAfterIs
    <3>. HIDE DEF Next, put, goes, k
    <3>. DEFINE part == SubSeq(doc, n, (k + 1) - 1)
    <3>3. /\ n \in 1..(Len(doc) + 1) /\ k + 1 \in n..(Len(doc) + 1) /\ k + 1 \in (n + 1)..(Len(doc) + 1)
          /\ n \in Nat /\ k \in Nat /\ (k + 1) - n = (k - n) + 1 /\ k - n \in Nat /\ k - n >= 1
      BY <1>0, <3>1
    <3>4. /\ part \in Docs /\ Len(part) = (k + 1) - n
          /\ \A j \in 1..((k + 1) - n) : part[j] = doc[n + j - 1]
      BY <3>3, PartIs DEF Docs
    <3>. HIDE DEF part
    <3>5. /\ part[1] = doc[n] /\ part[(k - n) + 1] = doc[k]
          /\ \A j \in 2..(k - n) : ~IsFence(part[j])
      <4>1. 1 \in 1..((k + 1) - n) /\ (k - n) + 1 \in 1..((k + 1) - n) /\ n + 1 - 1 = n /\ n + ((k - n) + 1) - 1 = k
        BY <3>3
      <4>2. \A j \in 2..(k - n) : j \in 1..((k + 1) - n) /\ n + j - 1 \in (n + 1)..(k - 1)
        BY <3>3
      <4>. QED BY <3>1, <3>4, <4>1, <4>2
    <3>6. EndsOutside(part)
      BY <3>1, <3>3, <3>4, <3>5, FencePair
    <3>7. none \in Docs /\ EndsOutside(none) /\ OutWords(none) = {} /\ InWords(none) = {}
      <4>1. none \in Docs /\ Len(none) = 0 /\ 1..Len(none) = {}
        BY NoneIs
      <4>. HIDE DEF none
      <4>2. EndsOutside(none) /\ InWords(none) = {} /\ \A w : w \in OutWords(none) <=> \E j \in 1..Len(none) : w \in Range(none[j].words)
        BY <4>1, NoFence
      <4>. QED BY <4>1, <4>2
    <3>. HIDE DEF none
    <3>8. Sub(none, part)
      BY <3>6, <3>7 DEF Sub
    <3>9. SaidBy(put(n), doc, n, goes(n))
      <4>1. \A j \in n..((k + 1) - 1) : j = n \/ j = k \/ j \in (n + 1)..(k - 1)
        BY <3>3
      <4>2. \A j \in (n + 1)..(k - 1) : doc[j].words = <<>>
        BY <3>10, BlankIs
      <4>3. Range(<<>>) = {}
        BY EmptyRange
      <4>. QED BY <3>1, <3>2, <4>1, <4>2, <4>3 DEF SaidBy
    <3>. QED BY <3>2, <3>3, <3>7, <3>8, <3>9 DEF part
  <2>. QED BY <2>1, <2>2
<1>. HIDE DEF put, goes
<1>3. /\ gives \in [1..Len(doc) -> Docs]
      /\ \A n \in 1..Len(doc) : next[n] \in (n + 1)..(Len(doc) + 1)
      /\ \A n \in 1..Len(doc) : Sub(gives[n], SubSeq(doc, n, next[n] - 1))
      /\ \A n \in 1..Len(doc) : SaidBy(gives[n], doc, n, next[n])
  BY <1>0, <1>2
<1>. HIDE DEF gives, next
<1>. QED BY <1>1, <1>3 DEF FaithfulWalk

LEMMA FaithfulMade ==
  ASSUME NEW doc \in Docs, NEW gives, NEW next, FaithfulWalk(gives, next, doc)
  PROVE  Made(Walked(gives, next), doc)
BY WalkedSub DEF Made, FaithfulWalk

LEMMA EmptyCodeMade == ASSUME NEW doc \in Docs PROVE Made(StripEmptyCodeBlocks(doc), doc)
BY EmptyCodeWalk, FaithfulMade

LEMMA OneLineMerge ==
  ASSUME NEW doc \in Docs, NEW n \in 1..Len(doc), NEW m \in (n + 1)..(Len(doc) + 1), NEW line \in Line,
         ~IsFence(line), \A k \in n..(m - 1) : ~IsFence(doc[k]),
         \A w \in Range(line.words) : \E j \in n..(m - 1) : w \in Range(doc[j].words)
  PROVE  <<line>> \in Docs /\ Sub(<<line>>, SubSeq(doc, n, m - 1))
<1>. DEFINE one == <<line>>
<1>1. one \in Docs /\ one[1] = line /\ 1..Len(one) = {1}
  BY OneIs DEF Docs
<1>. HIDE DEF one
<1>2. Sub(one, SubSeq(doc, n, m - 1))
  BY <1>1, StepMerge
<1>. QED BY <1>1, <1>2 DEF one

LEMMA StatLinesWalk ==
  ASSUME NEW doc \in Docs
  PROVE  \E gives, next : MergeStatLines(doc) = Walked(gives, next) /\ FaithfulWalk(gives, next, doc)
<1>. DEFINE Next(n) == LineAfter(doc, n)
            Merges(n) ==
              /\ Outside(doc, n) /\ doc[n] # Blank
              /\ Size(doc[n]) <= 25 /\ ~IsStructural(doc[n])
              /\ Next(n) > n + 1 /\ ~IsStructural(doc[Next(n)])
              /\ Size(doc[n]) + 1 + Size(doc[Next(n)]) <= 120
            Both(n) == [mark |-> "text", words |-> doc[n].words \o doc[Next(n)].words]
            put(n) == <<IF Merges(n) THEN Both(n) ELSE doc[n]>>
            goes(n) == IF Merges(n) THEN Next(n) + 1 ELSE n + 1
            gives == [n \in DOMAIN doc |-> put(n)]
            next == [n \in DOMAIN doc |-> goes(n)]
<1>0. DOMAIN doc = 1..Len(doc) /\ Len(doc) \in Nat /\ \A n \in 1..Len(doc) : doc[n] \in Line
  BY DocIs
<1>1. MergeStatLines(doc) = Walked(gives, next)
  BY DEF MergeStatLines
<1>2. ASSUME NEW n \in 1..Len(doc)
      PROVE  /\ put(n) \in Docs /\ goes(n) \in (n + 1)..(Len(doc) + 1)
             /\ Sub(put(n), SubSeq(doc, n, goes(n) - 1))
             /\ SaidBy(put(n), doc, n, goes(n))
  <2>1. CASE ~Merges(n)
    <3>1. put(n) = <<doc[n]>> /\ goes(n) = n + 1
      BY <2>1
    <3>. HIDE DEF put, goes
    <3>. QED BY <1>0, <3>1, StepSame, StepSaidBy
  <2>2. CASE Merges(n)
    <3>. DEFINE k == Next(n)
                line == Both(n)
    <3>0. k > n + 1 /\ ~IsStructural(doc[n]) /\ ~IsStructural(doc[k])
      BY <2>2
    <3>1. /\ k \in (n + 1)..Len(doc) /\ \A j \in (n + 1)..(k - 1) : doc[j] = Blank
      <4>1. k # 0
        BY <3>0
      <4>. QED BY <4>1, LineAfterIs
    <3>2. put(n) = <<line>> /\ goes(n) = k + 1 /\ line.words = doc[n].words \o doc[k].words /\ line.mark = "text"
      BY <2>2
    <3>3. doc[n].words \in Seq(Words) /\ doc[k].words \in Seq(Words)
      <4>1. k \in 1..Len(doc)
        BY <1>0, <3>1
      <4>. HIDE DEF k
      <4>. QED BY <1>0, <4>1, LineIs
    <3>4. line \in Line
      BY <3>2, <3>3, ConcatIs, Marks, MakeLine
    <3>5. Range(line.words) = Range(doc[n].words) \cup Range(doc[k].words)
      <4>. DEFINE a == doc[n].words
                  b == doc[k].words
      <4>1. a \in Seq(Words) /\ b \in Seq(Words) /\ line.words = a \o b
        BY <3>2, <3>3
      <4>. HIDE DEF a, b, line
      <4>2. Range(line.words) = Range(a) \cup Range(b)
        BY <4>1, ConcatRange
      <4>. QED BY <4>2 DEF a, b
    <3>. HIDE DEF Next, put, goes, k, line
    <3>6. \A j \in n..((k + 1) - 1) : j = n \/ j = k \/ j \in (n + 1)..(k - 1)
      BY <1>0, <3>1
    <3>7. n \in n..((k + 1) - 1) /\ k \in n..((k + 1) - 1) /\ k + 1 \in (n + 1)..(Len(doc) + 1)
      BY <1>0, <3>1
    <3>8. \A j \in n..((k + 1) - 1) : ~IsFence(doc[j])
      BY <3>0, <3>1, <3>6, BlankIs DEF IsStructural, IsFence
    <3>9. ~IsFence(line)
      BY <3>2 DEF IsFence
    <3>10. \A w \in Range(line.words) : \E j \in n..((k + 1) - 1) : w \in Range(doc[j].words)
      BY <3>5, <3>7
    <3>11. <<line>> \in Docs /\ Sub(<<line>>, SubSeq(doc, n, (k + 1) - 1))
      BY <3>4, <3>7, <3>8, <3>9, <3>10, OneLineMerge
    <3>12. SaidBy(put(n), doc, n, goes(n))
      <4>1. \A j \in (n + 1)..(k - 1) : doc[j].words = <<>>
        BY <3>1, BlankIs
      <4>2. Range(<<>>) = {} /\ line \in Range(<<line>>)
        BY EmptyRange, OneIs DEF Range
      <4>3. \A j \in n..((k + 1) - 1) : Range(doc[j].words) \subseteq Range(line.words)
        BY <3>5, <3>6, <4>1, <4>2
      <4>. QED BY <3>2, <3>9, <4>2, <4>3 DEF SaidBy
    <3>. QED BY <3>2, <3>7, <3>11, <3>12
  <2>. QED BY <2>1, <2>2
<1>. HIDE DEF put, goes
<1>3. /\ gives \in [1..Len(doc) -> Docs]
      /\ \A n \in 1..Len(doc) : next[n] \in (n + 1)..(Len(doc) + 1)
      /\ \A n \in 1..Len(doc) : Sub(gives[n], SubSeq(doc, n, next[n] - 1))
      /\ \A n \in 1..Len(doc) : SaidBy(gives[n], doc, n, next[n])
  BY <1>0, <1>2
<1>. HIDE DEF gives, next
<1>. QED BY <1>1, <1>3 DEF FaithfulWalk

LEMMA StatLinesMade == ASSUME NEW doc \in Docs PROVE Made(MergeStatLines(doc), doc)
BY StatLinesWalk, FaithfulMade

(* A heading takes in the line after it that restates it. *)
Taken(part, doc, n, k) ==
  /\ IsHeading(doc[n]) /\ k \in (n + 1)..Len(doc) /\ doc[k] # Blank /\ \A j \in (n + 1)..(k - 1) : doc[j] = Blank
  /\ doc[k].mark = "text" => Restates(doc[n].words, doc[k].words)
  /\ LET longer == IF Size([doc[n] EXCEPT !.mark = "text"]) < Size(doc[k]) THEN doc[k].words ELSE doc[n].words
     IN  part = <<[doc[n] EXCEPT !.words = longer]>>

HeadingWalk(gives, next, doc) ==
  /\ gives \in [1..Len(doc) -> Docs]
  /\ \A n \in 1..Len(doc) : next[n] \in (n + 1)..(Len(doc) + 1)
  /\ \A n \in 1..Len(doc) : Sub(gives[n], SubSeq(doc, n, next[n] - 1))
  /\ \A n \in 1..Len(doc) : \/ gives[n] = <<doc[n]>> /\ next[n] = n + 1
                            \/ Taken(gives[n], doc, n, next[n] - 1)

LEMMA HeadingParagraphWalk ==
  ASSUME NEW doc \in Docs
  PROVE  \E gives, next : DedupHeadingParagraph(doc) = Walked(gives, next) /\ HeadingWalk(gives, next, doc)
<1>. DEFINE Next(n) == LineAfter(doc, n)
            Alike(n) == \/ doc[Next(n)].mark = "text" /\ Restates(doc[n].words, doc[Next(n)].words)
                        \/ doc[Next(n)].mark = "list" /\ doc[n].words = <<Head(doc[Next(n)].words)>>
            Merges(n) == IsHeading(doc[n]) /\ Next(n) # 0 /\ Alike(n)
            Longer(n) == IF Size([doc[n] EXCEPT !.mark = "text"]) < Size(doc[Next(n)])
                         THEN doc[Next(n)].words ELSE doc[n].words
            put(n) == IF Merges(n) THEN <<[doc[n] EXCEPT !.words = Longer(n)]>> ELSE <<doc[n]>>
            goes(n) == IF Merges(n) THEN Next(n) + 1 ELSE n + 1
            gives == [n \in DOMAIN doc |-> put(n)]
            next == [n \in DOMAIN doc |-> goes(n)]
<1>0. DOMAIN doc = 1..Len(doc) /\ Len(doc) \in Nat /\ \A n \in 1..Len(doc) : doc[n] \in Line
  BY DocIs
<1>1. DedupHeadingParagraph(doc) = Walked(gives, next)
  BY DEF DedupHeadingParagraph
<1>2. ASSUME NEW n \in 1..Len(doc)
      PROVE  /\ put(n) \in Docs /\ goes(n) \in (n + 1)..(Len(doc) + 1)
             /\ Sub(put(n), SubSeq(doc, n, goes(n) - 1))
             /\ (put(n) = <<doc[n]>> /\ goes(n) = n + 1) \/ Taken(put(n), doc, n, goes(n) - 1)
  <2>1. CASE ~Merges(n)
    <3>1. put(n) = <<doc[n]>> /\ goes(n) = n + 1
      BY <2>1
    <3>. HIDE DEF put, goes
    <3>. QED BY <1>0, <3>1, StepSame
  <2>2. CASE Merges(n)
    <3>. DEFINE k == Next(n)
                words == Longer(n)
                line == [doc[n] EXCEPT !.words = words]
    <3>0. IsHeading(doc[n]) /\ k # 0 /\ doc[k].mark # "fence" /\ (words = doc[k].words \/ words = doc[n].words)
      BY <2>2
    <3>1. /\ k \in (n + 1)..Len(doc) /\ (\A j \in (n + 1)..(k - 1) : doc[j] = Blank) /\ doc[k] # Blank
      BY <3>0, LineAfterIs
    <3>2. put(n) = <<line>> /\ goes(n) = k + 1
      BY <2>2
    <3>12. Taken(put(n), doc, n, k)
      <4>1. doc[k].mark = "text" => Restates(doc[n].words, doc[k].words)
        BY <2>2
      <4>2. words = IF Size([doc[n] EXCEPT !.mark = "text"]) < Size(doc[k]) THEN doc[k].words ELSE doc[n].words
        OBVIOUS
      <4>. HIDE DEF Next, put, goes, k, words
      <4>. QED BY <3>0, <3>1, <3>2, <4>1, <4>2 DEF Taken
    <3>3. doc[n].words \in Seq(Words) /\ doc[k].words \in Seq(Words)
      <4>1. k \in 1..Len(doc)
        BY <1>0, <3>1
      <4>. HIDE DEF k
      <4>. QED BY <1>0, <4>1, LineIs
    <3>4. words \in Seq(Words)
      BY <3>0, <3>3
    <3>. HIDE DEF Next, put, goes, k, words
    <3>5. line \in Line /\ line.words = words /\ (IsFence(line) <=> IsFence(doc[n]))
      BY <1>0, <3>4, WordsChanged
    <3>. HIDE DEF line
    <3>6. \A j \in n..((k + 1) - 1) : j = n \/ j = k \/ j \in (n + 1)..(k - 1)
      BY <1>0, <3>1
    <3>7. n \in n..((k + 1) - 1) /\ k \in n..((k + 1) - 1) /\ k + 1 \in (n + 1)..(Len(doc) + 1)
      BY <1>0, <3>1
    <3>8. \A j \in n..((k + 1) - 1) : ~IsFence(doc[j])
      BY <3>0, <3>1, <3>6, BlankIs, HeadingNoFence DEF IsFence
    <3>9. ~IsFence(line)
      BY <3>0, <3>5, HeadingNoFence
    <3>10. \A w \in Range(line.words) : \E j \in n..((k + 1) - 1) : w \in Range(doc[j].words)
      BY <3>0, <3>5, <3>7
    <3>11. <<line>> \in Docs /\ Sub(<<line>>, SubSeq(doc, n, (k + 1) - 1))
      BY <3>5, <3>7, <3>8, <3>9, <3>10, OneLineMerge
    <3>13. (k + 1) - 1 = k
      BY <1>0, <3>1
    <3>. QED BY <3>2, <3>7, <3>11, <3>12, <3>13
  <2>. QED BY <2>1, <2>2
<1>. HIDE DEF put, goes
<1>3. gives \in [1..Len(doc) -> Docs] /\ \A n \in 1..Len(doc) : gives[n] = put(n) /\ next[n] = goes(n)
  BY <1>0, <1>2
<1>. HIDE DEF gives, next
<1>4. HeadingWalk(gives, next, doc)
  BY <1>2, <1>3 DEF HeadingWalk
<1>. QED BY <1>1, <1>4

LEMMA HeadingParagraphMade == ASSUME NEW doc \in Docs PROVE Made(DedupHeadingParagraph(doc), doc)
<1>1. PICK gives, next : DedupHeadingParagraph(doc) = Walked(gives, next) /\ HeadingWalk(gives, next, doc)
  BY HeadingParagraphWalk
<1>. QED BY <1>1, WalkedSub DEF Made, HeadingWalk

(* What is made of a row of images. *)
ImageWalk(gives, next, doc) ==
  /\ gives \in [1..Len(doc) -> Docs]
  /\ \A n \in 1..Len(doc) : next[n] \in (n + 1)..(Len(doc) + 1)
  /\ \A n \in 1..Len(doc) : Sub(gives[n], SubSeq(doc, n, next[n] - 1))
  /\ \A n \in 1..Len(doc) : doc[n].mark # "image" => gives[n] = <<doc[n]>> /\ next[n] = n + 1
  /\ \A n \in 1..Len(doc), k \in 1..Len(doc) :
       doc[n].mark = "image" /\ n <= k /\ doc[k] # Blank /\ doc[k].mark # "image" => next[n] <= k

LEMMA LogoImagesWalk ==
  ASSUME NEW doc \in Docs
  PROVE  \E gives, next : CollapseLogoImages(doc) = Walked(gives, next) /\ ImageWalk(gives, next, doc)
<1>. DEFINE others(n) == {m \in n..Len(doc) : doc[m] # Blank /\ doc[m].mark # "image"}
            End(n) == IF others(n) = {} THEN Len(doc) + 1 ELSE Min(others(n))
            Alts(n) == FlattenSeq([m \in 1..(End(n) - n) |-> doc[n + m - 1].words])
            Listing(alts) ==
              IF Len(alts) >= 2 THEN <<[mark |-> "list", words |-> alts]>>
              ELSE IF Len(alts) = 1 /\ Width[alts[1]] > 30 THEN <<[mark |-> "text", words |-> alts]>>
              ELSE <<>>
            Image(n) == doc[n].mark = "image"
            put(n) == IF Image(n) THEN Listing(Alts(n)) ELSE <<doc[n]>>
            goes(n) == IF Image(n) THEN End(n) ELSE n + 1
            gives == [n \in DOMAIN doc |-> put(n)]
            next == [n \in DOMAIN doc |-> goes(n)]
<1>0. DOMAIN doc = 1..Len(doc) /\ Len(doc) \in Nat /\ \A n \in 1..Len(doc) : doc[n] \in Line
  BY DocIs
<1>1. CollapseLogoImages(doc) = Walked(gives, next)
  BY DEF CollapseLogoImages
<1>2. ASSUME NEW n \in 1..Len(doc)
      PROVE  /\ put(n) \in Docs /\ goes(n) \in (n + 1)..(Len(doc) + 1)
             /\ Sub(put(n), SubSeq(doc, n, goes(n) - 1))
             /\ ~Image(n) => put(n) = <<doc[n]>> /\ goes(n) = n + 1
             /\ Image(n) => \A k \in n..Len(doc) : doc[k] # Blank /\ doc[k].mark # "image" => goes(n) <= k
  <2>1. CASE ~Image(n)
    <3>1. put(n) = <<doc[n]>> /\ goes(n) = n + 1
      BY <2>1
    <3>. HIDE DEF put, goes
    <3>. QED BY <1>0, <2>1, <3>1, StepSame
  <2>2. CASE Image(n)
    <3>. DEFINE k == End(n)
                parts == [m \in 1..(k - n) |-> doc[n + m - 1].words]
                alts == FlattenSeq(parts)
    <3>1. k \in (n + 1)..(Len(doc) + 1) /\ \A j \in n..(k - 1) : j \in 1..Len(doc) /\ (doc[j] = Blank \/ doc[j].mark = "image")
      <4>1. CASE others(n) = {}
        <5>1. k = Len(doc) + 1
          BY <4>1
        <5>. QED BY <1>0, <4>1, <5>1
      <4>2. CASE others(n) # {}
        <5>1. k = Min(others(n))
          BY <4>2
        <5>2. others(n) \in SUBSET Nat
          BY <1>0
        <5>. HIDE DEF k
        <5>3. k \in others(n) /\ \A j \in others(n) : k <= j
          <6>. HIDE DEF others
          <6>. QED BY <4>2, <5>1, <5>2, MinIs
        <5>4. k # n
          BY <2>2, <5>3
        <5>5. \A j \in n..(k - 1) : j \in n..Len(doc) /\ ~(k <= j)
          BY <1>0, <5>3
        <5>6. \A j \in n..(k - 1) : j \notin others(n)
          <6>. HIDE DEF others
          <6>. QED BY <5>3, <5>5
        <5>7. k \in n..Len(doc)
          BY <5>3
        <5>. QED BY <1>0, <5>4, <5>5, <5>6, <5>7
      <4>. QED BY <4>1, <4>2
    <3>2. put(n) = Listing(alts) /\ goes(n) = k
      BY <2>2
    <3>. HIDE DEF End, put, goes, k
    <3>3. \A m \in 1..(k - n) : n + m - 1 \in n..(k - 1)
      BY <1>0, <3>1
    <3>4. parts \in Seq(Seq(Words)) /\ Len(parts) = k - n /\ \A m \in 1..(k - n) : parts[m] = doc[n + m - 1].words
      <4>. DEFINE W == Seq(Words)
      <4>1. \A m \in 1..(k - n) : doc[n + m - 1].words \in W
        BY <1>0, <3>1, <3>3, LineIs
      <4>2. k - n \in Nat
        BY <1>0, <3>1
      <4>. HIDE DEF W
      <4>3. parts \in [1..(k - n) -> W]
        BY <4>1
      <4>4. \A m \in 1..(k - n) : parts[m] = doc[n + m - 1].words
        OBVIOUS
      <4>. HIDE DEF parts
      <4>5. parts \in Seq(W) /\ Len(parts) = k - n
        BY <4>2, <4>3, FunctionIsSequence
      <4>. QED BY <4>4, <4>5 DEF W
    <3>. HIDE DEF parts
    <3>5. alts \in Seq(Words) /\ \A w \in Range(alts) : \E j \in n..(k - 1) : w \in Range(doc[j].words)
      <4>1. alts \in Seq(Words) /\ \A w : w \in Range(alts) <=> \E m \in 1..Len(parts) : w \in Range(parts[m])
        BY <3>4, FlattenRange
      <4>. HIDE DEF alts
      <4>2. ASSUME NEW w \in Range(alts) PROVE \E j \in n..(k - 1) : w \in Range(doc[j].words)
        <5>1. PICK m \in 1..(k - n) : w \in Range(parts[m])
          BY <3>4, <4>1
        <5>. QED BY <3>3, <3>4, <5>1
      <4>. QED BY <4>1, <4>2
    <3>. HIDE DEF alts
    <3>6. \A j \in n..(k - 1) : ~IsFence(doc[j])
      BY <3>1, BlankIs DEF IsFence
    <3>7. ASSUME NEW mark \in {"list", "text"}
          PROVE  LET line == [mark |-> mark, words |-> alts]
                 IN  <<line>> \in Docs /\ Sub(<<line>>, SubSeq(doc, n, k - 1))
      <4>. DEFINE line == [mark |-> mark, words |-> alts]
      <4>1. line \in Line /\ line.words = alts /\ ~IsFence(line)
        BY <3>5, Marks, MakeLine DEF IsFence
      <4>. HIDE DEF line
      <4>2. <<line>> \in Docs /\ Sub(<<line>>, SubSeq(doc, n, k - 1))
        BY <3>1, <3>5, <3>6, <4>1, OneLineMerge
      <4>. QED BY <4>2 DEF line
    <3>8. LET none == <<>> IN none \in Docs /\ Sub(none, SubSeq(doc, n, k - 1))
      <4>. DEFINE none == <<>>
      <4>1. none \in Docs /\ 1..Len(none) = {}
        BY NoneIs
      <4>. HIDE DEF none
      <4>2. Sub(none, SubSeq(doc, n, k - 1))
        BY <3>1, <3>6, <4>1, StepMerge
      <4>. QED BY <4>1, <4>2 DEF none
    <3>9. put(n) \in Docs /\ Sub(put(n), SubSeq(doc, n, k - 1))
      <4>1. CASE Len(alts) >= 2
        BY <3>2, <3>7, <4>1
      <4>2. CASE ~(Len(alts) >= 2) /\ Len(alts) = 1 /\ Width[alts[1]] > 30
        BY <3>2, <3>7, <4>2
      <4>3. CASE ~(Len(alts) >= 2) /\ ~(Len(alts) = 1 /\ Width[alts[1]] > 30)
        BY <3>2, <3>8, <4>3
      <4>. QED BY <4>1, <4>2, <4>3
    <3>10. \A j \in n..Len(doc) : doc[j] # Blank /\ doc[j].mark # "image" => k <= j
      BY <1>0, <3>1
    <3>. QED BY <2>2, <3>1, <3>2, <3>9, <3>10
  <2>. QED BY <2>1, <2>2
<1>3. gives \in [1..Len(doc) -> Docs] /\ \A n \in 1..Len(doc) : gives[n] = put(n) /\ next[n] = goes(n)
  <2>. HIDE DEF put, goes
  <2>. QED BY <1>0, <1>2
<1>4. /\ \A n \in 1..Len(doc) : doc[n].mark # "image" => put(n) = <<doc[n]>> /\ goes(n) = n + 1
      /\ \A n \in 1..Len(doc), k \in 1..Len(doc) :
           doc[n].mark = "image" /\ n <= k /\ doc[k] # Blank /\ doc[k].mark # "image" => goes(n) <= k
  <2>1. \A n \in 1..Len(doc) : Image(n) <=> doc[n].mark = "image"
    OBVIOUS
  <2>2. \A n \in 1..Len(doc), k \in 1..Len(doc) : n <= k => k \in n..Len(doc)
    BY <1>0
  <2>. HIDE DEF put, goes, Image
  <2>. QED BY <1>2, <2>1, <2>2
<1>. HIDE DEF put, goes, gives, next
<1>5. ImageWalk(gives, next, doc)
  BY <1>2, <1>3, <1>4 DEF ImageWalk
<1>. QED BY <1>1, <1>5

LEMMA LogoImagesMade == ASSUME NEW doc \in Docs PROVE Made(CollapseLogoImages(doc), doc)
<1>1. PICK gives, next : CollapseLogoImages(doc) = Walked(gives, next) /\ ImageWalk(gives, next, doc)
  BY LogoImagesWalk
<1>. QED BY <1>1, WalkedSub DEF Made, ImageWalk

(* A repeated phrase. *)
Again(tokens, n, size) ==
  /\ n + 2 * size - 1 <= Len(tokens)
  /\ SubSeq(tokens, n, n + size - 1) = SubSeq(tokens, n + size, n + 2 * size - 1)

LEMMA TimesIs ==
  ASSUME NEW V, NEW tokens \in Seq(V), NEW n \in 1..Len(tokens), NEW size \in Nat, size >= 2,
         Again(tokens, n, size)
  PROVE  LET times == Min({k \in 1..Len(tokens) : ~Again(tokens, n + k * size, size)})
         IN  /\ times \in 1..Len(tokens) /\ n + (times + 1) * size \in (n + 2 * size)..(Len(tokens) + 1)
             /\ \A k \in 0..(times - 1) : Again(tokens, n + k * size, size)
<1>. DEFINE L == Len(tokens)
            ends == {k \in 1..L : ~Again(tokens, n + k * size, size)}
            times == Min(ends)
<1>0. L \in Nat /\ n \in 1..L
  OBVIOUS
<1>1. L \in ends
  <2>1. L * size >= L /\ L * size \in Nat
    <3>. HIDE DEF L
    <3>1. L * size = L + L * (size - 1) /\ size - 1 \in Nat
      BY <1>0
    <3>2. L * (size - 1) \in Nat
      BY <1>0, <3>1
    <3>. QED BY <1>0, <3>1, <3>2
  <2>. DEFINE x == L * size
  <2>2. x \in Nat /\ x >= L
    BY <2>1
  <2>. HIDE DEF x
  <2>3. ~(n + x + 2 * size - 1 <= L)
    <3>. HIDE DEF L
    <3>. QED BY <1>0, <2>2
  <2>4. ~Again(tokens, n + x, size)
    BY <2>3 DEF Again
  <2>. QED BY <1>0, <2>4 DEF x
<1>2. ends \in SUBSET Nat
  BY <1>0
<1>3. times \in ends /\ times \in Nat /\ \A k \in ends : times <= k
  <2>. HIDE DEF ends
  <2>. QED BY <1>1, <1>2, MinIs
<1>4. times \in 1..L
  BY <1>3
<1>. HIDE DEF times
<1>5. ASSUME NEW k \in 0..(times - 1) PROVE Again(tokens, n + k * size, size)
  <2>1. CASE k = 0
    BY <2>1
  <2>2. CASE k # 0
    <3>1. k \in 1..L /\ ~(times <= k)
      BY <1>0, <1>4, <2>2
    <3>. QED BY <1>3, <3>1
  <2>. QED BY <2>1, <2>2
<1>6. n + (times + 1) * size \in (n + 2 * size)..(L + 1)
  <2>1. times - 1 \in 0..(times - 1)
    BY <1>4
  <2>2. Again(tokens, n + (times - 1) * size, size)
    BY <1>5, <2>1
  <2>3. n + (times - 1) * size + 2 * size - 1 <= L
    BY <2>2 DEF Again
  <2>. HIDE DEF L
  <2>. DEFINE y == (times - 1) * size
  <2>4. y \in Nat /\ (times + 1) * size = y + 2 * size
    BY <1>4
  <2>5. n + y + 2 * size - 1 <= L
    BY <2>3
  <2>. HIDE DEF y
  <2>6. n + (y + 2 * size) \in (n + 2 * size)..(L + 1)
    BY <1>0, <2>4, <2>5
  <2>. QED BY <2>4, <2>6
<1>. QED BY <1>4, <1>5, <1>6 DEF times

LEMMA AgainStep ==
  ASSUME NEW V, NEW tokens \in Seq(V), NEW p \in Nat \ {0}, NEW size \in Nat \ {0}, Again(tokens, p, size),
         NEW r \in 0..(size - 1)
  PROVE  tokens[p + r] = tokens[p + size + r]
<1>. DEFINE a == p + size
            b == p + 2 * size
<1>1. /\ Len(tokens) \in Nat /\ p + 2 * size - 1 <= Len(tokens)
      /\ SubSeq(tokens, p, p + size - 1) = SubSeq(tokens, p + size, p + 2 * size - 1)
  BY DEF Again
<1>2. /\ p \in 1..(Len(tokens) + 1) /\ a \in p..(Len(tokens) + 1) /\ a \in 1..(Len(tokens) + 1)
      /\ b \in a..(Len(tokens) + 1) /\ p + size - 1 = a - 1 /\ p + 2 * size - 1 = b - 1 /\ p + size = a
      /\ r + 1 \in 1..(a - p) /\ r + 1 \in 1..(b - a) /\ p + (r + 1) - 1 = p + r /\ a + (r + 1) - 1 = p + size + r
  BY <1>1
<1>. HIDE DEF a, b
<1>3. SubSeq(tokens, p, a - 1)[r + 1] = tokens[p + (r + 1) - 1]
  <2>1. \A k \in 1..(a - p) : SubSeq(tokens, p, a - 1)[k] = tokens[p + k - 1]
    BY <1>2, PartIs
  <2>. QED BY <1>2, <2>1
<1>4. SubSeq(tokens, a, b - 1)[r + 1] = tokens[a + (r + 1) - 1]
  BY <1>2, PartIs
<1>5. SubSeq(tokens, p, a - 1) = SubSeq(tokens, a, b - 1)
  BY <1>1, <1>2
<1>. QED BY <1>2, <1>3, <1>4, <1>5

AgainAndAgain(tokens, n, size, times) == \A k \in 0..(times - 1) : Again(tokens, n + k * size, size)
SaidAtFirst(tokens, n, size, times) ==
  \A q \in 0..((times + 1) * size - 1) : \E r \in 0..(size - 1) : r <= q /\ tokens[n + q] = tokens[n + r]

LEMMA RepeatedIs ==
  ASSUME NEW V, NEW tokens \in Seq(V), NEW n \in 1..Len(tokens), NEW size \in Nat, size >= 2, NEW times \in Nat,
         AgainAndAgain(tokens, n, size, times)
  PROVE  SaidAtFirst(tokens, n, size, times)
<1>. DEFINE said(q) == \E r \in 0..(size - 1) : r <= q /\ tokens[n + q] = tokens[n + r]
            T == {k \in Nat : k <= times => \A q \in 0..((k + 1) * size - 1) : said(q)}
<1>0. \A q \in 0..(size - 1) : said(q)
  OBVIOUS
<1>9. \A k \in 0..(times - 1) : Again(tokens, n + k * size, size)
  BY DEF AgainAndAgain
<1>. HIDE DEF said
<1>1. 0 \in T
  <2>1. (0 + 1) * size - 1 = size - 1
    OBVIOUS
  <2>. QED BY <1>0, <2>1
<1>2. ASSUME NEW k \in Nat, k \in T PROVE k + 1 \in T
  <2>. SUFFICES ASSUME k + 1 <= times, NEW q \in 0..((k + 1 + 1) * size - 1) PROVE said(q)
    OBVIOUS
  <2>. DEFINE base == k * size
  <2>1. base \in Nat /\ (k + 1) * size = base + size /\ (k + 1 + 1) * size = base + 2 * size
    <3>1. k * size \in Nat /\ (k + 1) * size = k * size + size /\ (k + 2) * size = k * size + 2 * size /\ k + 1 + 1 = k + 2
      OBVIOUS
    <3>. QED BY <3>1
  <2>2. k \in 0..(times - 1) /\ k <= times
    OBVIOUS
  <2>3. Again(tokens, n + base, size)
    BY <1>9, <2>2
  <2>. HIDE DEF base
  <2>4. q \in 0..(base + 2 * size - 1) /\ \A x \in 0..(base + size - 1) : said(x)
    <3>1. \A x \in 0..((k + 1) * size - 1) : said(x)
      BY <1>2, <2>2
    <3>. QED BY <2>1, <3>1
  <2>5. CASE q < base + size
    BY <2>1, <2>4, <2>5
  <2>6. CASE ~(q < base + size)
    <3>. DEFINE r == q - size - base
    <3>1. /\ r \in 0..(size - 1) /\ n + base + r = n + (q - size) /\ n + base + size + r = n + q
          /\ n + base \in Nat \ {0} /\ size \in Nat \ {0} /\ q - size \in 0..(base + size - 1) /\ q - size <= q
      BY <2>1, <2>4, <2>6
    <3>. HIDE DEF r
    <3>2. tokens[n + base + r] = tokens[n + base + size + r]
      BY <2>3, <3>1, AgainStep
    <3>3. tokens[n + q] = tokens[n + (q - size)]
      BY <3>1, <3>2
    <3>4. PICK x \in 0..(size - 1) : x <= q - size /\ tokens[n + (q - size)] = tokens[n + x]
      BY <2>4, <3>1 DEF said
    <3>5. x <= q
      BY <3>1, <3>4
    <3>. QED BY <3>3, <3>4, <3>5 DEF said
  <2>. QED BY <2>5, <2>6
<1>3. times \in T
  <2>. HIDE DEF T
  <2>. QED BY <1>1, <1>2, SetInduction
<1>4. times <= times
  OBVIOUS
<1>. QED BY <1>3, <1>4 DEF said, SaidAtFirst

(* What the phrases come to: each token of what a step passes is among     *)
(* those it gives, and no later.                                           *)
PhraseWalk(gives, next, tokens, V) ==
  /\ gives \in [1..Len(tokens) -> Seq(V)]
  /\ \A n \in 1..Len(tokens) : next[n] \in (n + 1)..(Len(tokens) + 1) /\ Len(gives[n]) <= next[n] - n
  /\ \A n \in 1..Len(tokens) : \A j \in n..(next[n] - 1) :
       \E r \in 1..Len(gives[n]) : r <= j - n + 1 /\ gives[n][r] = tokens[j]

LEMMA CollapseRepeatedWalk ==
  ASSUME NEW V, NEW tokens \in Seq(V)
  PROVE  \/ CollapseRepeated(tokens) = tokens
         \/ \E gives, next : CollapseRepeated(tokens) = Walked(gives, next) /\ PhraseWalk(gives, next, tokens, V)
<1>. DEFINE L == Len(tokens)
            Repeated(n) == {size \in 2..(Len(tokens) \div 2) : Again(tokens, n, size)}
            Times(n, size) == Min({k \in 1..Len(tokens) : ~Again(tokens, n + k * size, size)})
            Longest(n) == Max(Repeated(n))
            put(n) == IF Repeated(n) = {} THEN <<tokens[n]>> ELSE SubSeq(tokens, n, n + Longest(n) - 1)
            goes(n) == IF Repeated(n) = {} THEN n + 1 ELSE n + (Times(n, Longest(n)) + 1) * Longest(n)
            gives == [n \in DOMAIN tokens |-> put(n)]
            next == [n \in DOMAIN tokens |-> goes(n)]
<1>0. DOMAIN tokens = 1..L /\ L \in Nat /\ \A n \in 1..L : tokens[n] \in V
  OBVIOUS
<1>1. CollapseRepeated(tokens) = IF Len(tokens) < 4 THEN tokens ELSE Walked(gives, next)
  BY DEF CollapseRepeated, Again
<1>2. ASSUME NEW n \in 1..L
      PROVE  /\ put(n) \in Seq(V) /\ goes(n) \in (n + 1)..(L + 1) /\ Len(put(n)) <= goes(n) - n
             /\ \A j \in n..(goes(n) - 1) : \E r \in 1..Len(put(n)) : r <= j - n + 1 /\ put(n)[r] = tokens[j]
  <2>1. CASE Repeated(n) = {}
    <3>1. put(n) = <<tokens[n]>> /\ goes(n) = n + 1
      BY <2>1
    <3>. DEFINE one == <<tokens[n]>>
    <3>2. one \in Seq(V) /\ Len(one) = 1 /\ one[1] = tokens[n] /\ n + 1 \in (n + 1)..(L + 1)
      <4>. HIDE DEF L
      <4>. QED BY <1>0, OneIs
    <3>. HIDE DEF put, goes, one
    <3>3. Len(put(n)) <= goes(n) - n /\ \A j \in n..(goes(n) - 1) : j = n
      BY <3>1, <3>2 DEF one
    <3>4. 1 \in 1..Len(put(n)) /\ 1 <= n - n + 1 /\ put(n)[1] = tokens[n]
      BY <3>1, <3>2 DEF one
    <3>. QED BY <3>1, <3>2, <3>3, <3>4 DEF one
  <2>2. CASE Repeated(n) # {}
    <3>. DEFINE all == Repeated(n)
                size == Longest(n)
    <3>1. size \in all
      <4>1. all \in SUBSET (0..L)
        BY <1>0
      <4>2. size = Max(all) /\ all # {}
        BY <2>2
      <4>. HIDE DEF all, size
      <4>. QED BY <1>0, <4>1, <4>2, MaxIs
    <3>2. size \in Nat /\ size >= 2 /\ Again(tokens, n, size)
      BY <3>1
    <3>3. put(n) = SubSeq(tokens, n, n + size - 1) /\ goes(n) = n + (Times(n, size) + 1) * size
      BY <2>2
    <3>. HIDE DEF all, size, put, goes
    <3>. DEFINE times == Times(n, size)
                x == (times + 1) * size
    <3>4. /\ times \in 1..L /\ n + x \in (n + 2 * size)..(L + 1)
          /\ \A k \in 0..(times - 1) : Again(tokens, n + k * size, size)
      BY <3>2, TimesIs
    <3>. HIDE DEF times
    <3>5. \A q \in 0..(x - 1) : \E r \in 0..(size - 1) : r <= q /\ tokens[n + q] = tokens[n + r]
      <4>1. times \in Nat /\ n \in 1..Len(tokens) /\ tokens \in Seq(V)
        BY <1>0, <3>4
      <4>2. AgainAndAgain(tokens, n, size, times)
        BY <3>4 DEF AgainAndAgain
      <4>3. SaidAtFirst(tokens, n, size, times)
        BY <3>2, <4>1, <4>2, RepeatedIs
      <4>. QED BY <4>3 DEF SaidAtFirst
    <3>6. x \in Nat
      <4>1. times + 1 \in Nat
        BY <1>0, <3>4
      <4>. QED BY <3>2, <4>1
    <3>7. put(n) = SubSeq(tokens, n, n + size - 1) /\ goes(n) = n + x
      BY <3>3 DEF times
    <3>. HIDE DEF x, Times, L
    <3>8. /\ n + x \in (n + 1)..(L + 1) /\ n + size \in n..(L + 1) /\ n \in 1..(L + 1) /\ x >= 2 * size
          /\ n + size - 1 = (n + size) - 1
      BY <1>0, <3>2, <3>4, <3>6
    <3>. DEFINE part == SubSeq(tokens, n, (n + size) - 1)
                m == n + size
    <3>9. part \in Seq(V) /\ Len(part) = size /\ \A k \in 1..size : part[k] = tokens[n + k - 1]
      <4>1. m \in n..(Len(tokens) + 1) /\ n \in 1..(Len(tokens) + 1) /\ m - n = size /\ part = SubSeq(tokens, n, m - 1)
        BY <1>0, <3>2, <3>8 DEF L
      <4>. HIDE DEF part, m
      <4>2. SubSeq(tokens, n, m - 1) \in Seq(V) /\ Len(SubSeq(tokens, n, m - 1)) = m - n
            /\ \A k \in 1..(m - n) : SubSeq(tokens, n, m - 1)[k] = tokens[n + k - 1]
        BY <4>1, PartIs
      <4>. QED BY <4>1, <4>2
    <3>10. put(n) = part
      BY <3>7, <3>8
    <3>. HIDE DEF part, m
    <3>11. Len(put(n)) <= goes(n) - n
      BY <1>0, <3>2, <3>6, <3>7, <3>8, <3>9, <3>10
    <3>12. ASSUME NEW j \in n..(goes(n) - 1)
           PROVE  \E r \in 1..Len(put(n)) : r <= j - n + 1 /\ put(n)[r] = tokens[j]
      <4>1. j - n \in 0..(x - 1) /\ n + (j - n) = j
        BY <1>0, <3>6, <3>7
      <4>2. PICK r \in 0..(size - 1) : r <= j - n /\ tokens[n + (j - n)] = tokens[n + r]
        BY <3>5, <4>1
      <4>3. r + 1 \in 1..size /\ r + 1 <= j - n + 1 /\ n + (r + 1) - 1 = n + r
        BY <1>0, <3>2, <4>1, <4>2
      <4>4. part[r + 1] = tokens[j]
        BY <3>9, <4>1, <4>2, <4>3
      <4>. QED BY <3>9, <3>10, <4>3, <4>4
    <3>. QED BY <3>7, <3>8, <3>9, <3>10, <3>11, <3>12
  <2>. QED BY <2>1, <2>2
<1>. HIDE DEF put, goes
<1>3. gives \in [1..L -> Seq(V)] /\ \A n \in 1..L : gives[n] = put(n) /\ next[n] = goes(n)
  BY <1>0, <1>2
<1>. HIDE DEF gives, next
<1>4. PhraseWalk(gives, next, tokens, V)
  <2>1. \A n \in 1..L : next[n] \in (n + 1)..(L + 1) /\ Len(gives[n]) <= next[n] - n
    BY <1>2, <1>3
  <2>2. ASSUME NEW n \in 1..L
        PROVE  \A j \in n..(next[n] - 1) :
                 \E r \in 1..Len(gives[n]) : r <= j - n + 1 /\ gives[n][r] = tokens[j]
    <3>1. gives[n] = put(n) /\ next[n] = goes(n)
      BY <1>3
    <3>2. \A j \in n..(goes(n) - 1) :
            \E r \in 1..Len(put(n)) : r <= j - n + 1 /\ put(n)[r] = tokens[j]
      BY <1>2
    <3>. QED BY <3>1, <3>2, Zenon
  <2>. QED BY <1>3, <2>1, <2>2, Zenon DEF PhraseWalk
<1>. QED BY <1>1, <1>4

LEMMA CollapseRepeatedIs ==
  ASSUME NEW V, NEW tokens \in Seq(V)
  PROVE  CollapseRepeated(tokens) \in Seq(V)
<1>1. CASE CollapseRepeated(tokens) = tokens
  BY <1>1
<1>2. CASE CollapseRepeated(tokens) # tokens
  <2>. DEFINE N == Len(tokens)
  <2>1. PICK gives, next : CollapseRepeated(tokens) = Walked(gives, next) /\ PhraseWalk(gives, next, tokens, V)
    BY <1>2, CollapseRepeatedWalk
  <2>2. gives \in [1..N -> Seq(V)] /\ N \in Nat /\ \A n \in 1..N : next[n] \in (n + 1)..(N + 1)
    BY <2>1 DEF PhraseWalk
  <2>. HIDE DEF N
  <2>3. IsWalk(Walked(gives, next), gives, next, V, N)
    BY ONLY <2>2, WalkedIs
  <2>4. 1 \in 1..(N + 1)
    BY <2>2
  <2>. QED BY <2>1, <2>3, <2>4 DEF IsWalk, Walks
<1>. QED BY <1>1, <1>2

LEMMA OnceIs ==
  ASSUME NEW words \in Seq(Words), NEW commas \in [DOMAIN words -> BOOLEAN]
  PROVE  LET tokens == CollapseRepeated([m \in DOMAIN words |-> <<words[m], commas[m]>>])
             once == [m \in DOMAIN tokens |-> tokens[m][1]]
         IN  once \in Seq(Words) /\ Range(once) \subseteq Range(words)
<1>. DEFINE R == Range(words)
            V == R \X BOOLEAN
            given0 == [m \in DOMAIN words |-> <<words[m], commas[m]>>]
            tokens == CollapseRepeated(given0)
            once == [m \in DOMAIN tokens |-> tokens[m][1]]
<1>1. given0 \in Seq(V)
  <2>1. DOMAIN words = 1..Len(words) /\ Len(words) \in Nat
    OBVIOUS
  <2>2. \A m \in DOMAIN words : <<words[m], commas[m]>> \in V
    BY DEF Range
  <2>3. given0 \in [1..Len(words) -> V]
    <3>. HIDE DEF V
    <3>. QED BY <2>1, <2>2
  <2>. HIDE DEF given0, V
  <2>. QED BY <2>1, <2>3, FunctionIsSequence
<1>2. tokens \in Seq(V)
  <2>. HIDE DEF given0, V
  <2>. QED BY <1>1, CollapseRepeatedIs
<1>. HIDE DEF tokens
<1>3. once \in Seq(R)
  <2>1. DOMAIN tokens = 1..Len(tokens) /\ Len(tokens) \in Nat /\ \A m \in 1..Len(tokens) : tokens[m] \in V
    <3>. HIDE DEF V
    <3>. QED BY <1>2
  <2>2. \A m \in 1..Len(tokens) : tokens[m][1] \in R
    <3>. HIDE DEF R
    <3>. QED BY <2>1
  <2>3. once \in [1..Len(tokens) -> R]
    <3>. HIDE DEF R
    <3>. QED BY <2>1, <2>2
  <2>. HIDE DEF once, R
  <2>. QED BY <2>1, <2>3, FunctionIsSequence
<1>4. R \subseteq Words
  BY RangeWithin
<1>. HIDE DEF R, once
<1>5. Range(once) \subseteq R
  BY <1>3, RangeWithin
<1>6. once \in Seq(Words)
  BY <1>3, <1>4
<1>. QED BY <1>5, <1>6 DEF R, once, tokens

LEMMA RepeatedPhrasesMade == ASSUME NEW doc \in Docs PROVE Made(DedupRepeatedPhrases(doc), doc)
<1>. DEFINE Once(line) ==
              LET comma(m) == line.mark = "list" /\ m < Len(line.words)
                  tokens == CollapseRepeated([m \in DOMAIN line.words |-> <<line.words[m], comma(m)>>])
              IN  [line EXCEPT !.words = [m \in DOMAIN tokens |-> tokens[m][1]]]
            put(n) == IF ~Outside(doc, n) \/ IsFence(doc[n]) \/ IsHeading(doc[n]) THEN doc[n] ELSE Once(doc[n])
            out == [n \in 1..Len(doc) |-> put(n)]
<1>0. DOMAIN doc = 1..Len(doc) /\ \A n \in 1..Len(doc) : doc[n] \in Line
  BY DocIs
<1>1. ASSUME NEW line \in Line
      PROVE  /\ Once(line) \in Line /\ (IsFence(Once(line)) <=> IsFence(line))
             /\ Range(Once(line).words) \subseteq Range(line.words)
  <2>. DEFINE commas == [m \in DOMAIN line.words |-> line.mark = "list" /\ m < Len(line.words)]
              tokens == CollapseRepeated([m \in DOMAIN line.words |-> <<line.words[m], commas[m]>>])
              once == [m \in DOMAIN tokens |-> tokens[m][1]]
  <2>1. line.words \in Seq(Words)
    BY LineIs
  <2>2. commas \in [DOMAIN line.words -> BOOLEAN]
    OBVIOUS
  <2>3. [m \in DOMAIN line.words |-> <<line.words[m], commas[m]>>]
          = [m \in DOMAIN line.words |-> <<line.words[m], line.mark = "list" /\ m < Len(line.words)>>]
    OBVIOUS
  <2>4. Once(line) = [line EXCEPT !.words = once]
    BY <2>3
  <2>5. once \in Seq(Words) /\ Range(once) \subseteq Range(line.words)
    <3>. HIDE DEF commas
    <3>. QED BY <2>1, <2>2, OnceIs
  <2>. HIDE DEF once, Once
  <2>. QED BY <2>4, <2>5, WordsChanged
<1>2. DedupRepeatedPhrases(doc) = Lines(out)
  BY <1>0 DEF DedupRepeatedPhrases
<1>. HIDE DEF Once
<1>3. \A n \in 1..Len(doc) :
        /\ put(n) \in Line /\ (IsFence(put(n)) <=> IsFence(doc[n]))
        /\ Range(put(n).words) \subseteq Range(doc[n].words)
  BY <1>0, <1>1
<1>. HIDE DEF put
<1>4. out \in [1..Len(doc) -> Line] /\ \A n \in 1..Len(doc) : out[n] = put(n)
  BY <1>3
<1>. HIDE DEF out
<1>. QED BY <1>2, <1>3, <1>4, LinesSub DEF Made

-----------------------------------------------------------------------------
Scan == [done : Seq(Docs), open : Docs]
ScanSteps(up, doc) ==
  /\ up[0] = [done |-> <<>>, open |-> <<>>]
  /\ \A n \in 1..Len(doc) : up[n] = Scanned(up[n - 1], doc[n])
  /\ \A n \in 0..Len(doc) : up[n] \in Scan
  /\ Blocks(doc) = Closed(up[Len(doc)])

(* How a document is cut in blocks, and put together again. *)
LEMMA ScanIs ==
  ASSUME NEW scan \in Scan, NEW line \in Line
  PROVE  Closed(scan) \in Seq(Docs) /\ Scanned(scan, line) \in Scan
<1>1. scan.done \in Seq(Docs) /\ scan.open \in Docs /\ scan = [done |-> scan.done, open |-> scan.open]
  BY DEF Scan
<1>2. Closed(scan) \in Seq(Docs)
  BY <1>1, AppendProperties DEF Closed
<1>3. Append(scan.open, line) \in Docs /\ <<>> \in Docs
  BY <1>1, NoneIs, OneMoreSub, SubSelf
<1>. QED BY <1>1, <1>2, <1>3 DEF Scanned, Scan

LEMMA BlocksUp == ASSUME NEW doc \in Docs PROVE \E up : ScanSteps(up, doc)
<1>. DEFINE N == Len(doc)
            base == [done |-> <<>>, open |-> <<>>]
            step(n, x) == Scanned(x, doc[n])
            entry(h, n) == IF n = 0 THEN base ELSE step(n, h[n - 1])
            S == [c \in (1..N) \X Scan |-> step(c[1], c[2])]
            up == CHOOSE h : h = [n \in 0..Len(doc) |-> entry(h, n)]
<1>1. N \in Nat /\ base \in Scan /\ \A n \in 1..N : doc[n] \in Line
  BY DocIs, NoneIs DEF Scan
<1>2. \A n \in 1..N, x \in Scan : step(n, x) \in Scan
  BY <1>1, ScanIs
<1>3. S \in [(1..N) \X Scan -> Scan] /\ \A n \in 1..N, x \in Scan : S[<<n, x>>] = step(n, x)
  <2>. HIDE DEF step, N
  <2>. QED BY <1>2
<1>. HIDE DEF S, base
<1>4. PICK g : Upwards(g, base, S, Scan, N)
  BY <1>1, <1>3, UpwardsIs
<1>5. g \in [0..N -> Scan] /\ \A n \in 0..N : g[n] = entry(g, n)
  <2>1. g \in [0..N -> Scan] /\ g[0] = base /\ \A n \in 1..N : g[n] = S[<<n, g[n - 1]>>]
    BY <1>4 DEF Upwards
  <2>2. ASSUME NEW n \in 0..N PROVE g[n] = entry(g, n)
    <3>1. CASE n = 0
      BY <2>1, <3>1
    <3>2. CASE n # 0
      <4>1. n \in 1..N /\ n - 1 \in 0..N
        BY <1>1, <3>2
      <4>2. g[n - 1] \in Scan /\ g[n] = S[<<n, g[n - 1]>>]
        BY <2>1, <4>1
      <4>. HIDE DEF step
      <4>. QED BY <1>3, <3>2, <4>1, <4>2
    <3>. QED BY <3>1, <3>2
  <2>. HIDE DEF entry
  <2>. QED BY <2>1, <2>2
<1>6. g = [n \in 0..N |-> entry(g, n)]
  <2>. HIDE DEF entry
  <2>. QED BY <1>5
<1>7. up = [n \in 0..N |-> entry(up, n)]
  <2>. HIDE DEF entry
  <2>. QED BY <1>6
<1>8. Blocks(doc) = Closed(up[N])
  BY DEF Blocks, base
<1>. HIDE DEF up
<1>9. \A n \in 0..N : up[n] = entry(up, n)
  <2>. HIDE DEF entry, N
  <2>. QED BY <1>7
<1>10. up[0] = base
  BY <1>1, <1>9
<1>. DEFINE after(n) == up[n] = step(n, up[n - 1])
<1>11. \A n \in 1..N : after(n)
  BY <1>1, <1>9
<1>. DEFINE T == {n \in Nat : n \in 0..N => up[n] \in Scan}
<1>12. 0 \in T
  BY <1>1, <1>10
<1>13. ASSUME NEW n \in Nat, n \in T PROVE n + 1 \in T
  <2>. SUFFICES ASSUME n + 1 \in 0..N PROVE up[n + 1] \in Scan
    OBVIOUS
  <2>1. n \in 0..N /\ n + 1 \in 1..N /\ (n + 1) - 1 = n
    BY <1>1
  <2>2. after(n + 1)
    <3>. HIDE DEF after, N
    <3>. QED BY <1>11, <2>1
  <2>3. up[n + 1] = step(n + 1, up[n])
    <3>. HIDE DEF step
    <3>. QED BY <2>1, <2>2
  <2>4. up[n] \in Scan
    BY <1>13, <2>1
  <2>. HIDE DEF step, N
  <2>. QED BY <1>2, <2>1, <2>3, <2>4
<1>14. \A n \in 0..N : up[n] \in Scan
  <2>1. \A n \in Nat : n \in T
    <3>. HIDE DEF T
    <3>. QED BY <1>12, <1>13, SetInduction
  <2>. QED BY <2>1
<1>15. \A n \in 1..Len(doc) : up[n] = Scanned(up[n - 1], doc[n])
  BY <1>11
<1>16. up[0] = [done |-> <<>>, open |-> <<>>]
  BY <1>10 DEF base
<1>. QED BY <1>8, <1>14, <1>15, <1>16 DEF ScanSteps

(* The blocks, one after the other, say what the document says. *)
LEMMA ClosedFlat ==
  ASSUME NEW scan \in Scan
  PROVE  /\ FlattenSeq(scan.done) \in Docs /\ scan.open \in Docs
         /\ FlattenSeq(Closed(scan)) = FlattenSeq(scan.done) \o scan.open
<1>1. scan.done \in Seq(Docs) /\ scan.open \in Docs
  BY DEF Scan
<1>2. FlattenSeq(scan.done) \in Docs /\ FlattenSeq(Append(scan.done, scan.open)) = FlattenSeq(scan.done) \o scan.open
  BY <1>1, FlattenAppend DEF Docs
<1>3. FlattenSeq(scan.done) \o <<>> = FlattenSeq(scan.done)
  BY <1>2, ConcatEmptySeq DEF Docs
<1>. QED BY <1>1, <1>2, <1>3 DEF Closed

LEMMA BlankSub == <<Blank>> \in Docs /\ Sub(<<Blank>>, <<>>) /\ Sub(<<>>, <<Blank>>)
<1>. DEFINE one == <<Blank>>
            none == <<>>
<1>1. one \in Docs /\ 1..Len(one) = {1} /\ one[1] = Blank /\ none \in Docs /\ 1..Len(none) = {}
  BY BlankIs, OneIs, NoneIs DEF Docs
<1>2. ~IsFence(Blank) /\ Range(Blank.words) = {}
  BY BlankIs, EmptyRange
<1>. HIDE DEF one, none
<1>3. Sub(one, none)
  BY <1>1, <1>2, SubNoFence
<1>4. Sub(none, one)
  BY <1>1, <1>2, SubNoFence
<1>. QED BY <1>1, <1>3, <1>4 DEF one, none

LEMMA BlocksSub ==
  ASSUME NEW doc \in Docs
  PROVE  /\ Blocks(doc) \in Seq(Docs) /\ FlattenSeq(Blocks(doc)) \in Docs
         /\ Sub(FlattenSeq(Blocks(doc)), doc)
<1>1. PICK up : ScanSteps(up, doc)
  BY BlocksUp
<1>. DEFINE N == Len(doc)
            flat(n) == FlattenSeq(Closed(up[n]))
            T == {n \in Nat : n <= N => Sub(flat(n), Prefix(doc, n))}
            after(n) == up[n] = Scanned(up[n - 1], doc[n])
<1>2. N \in Nat /\ \A n \in 1..N : doc[n] \in Line
  BY DocIs
<1>3. /\ Prefix(doc, 0) = <<>> /\ Prefix(doc, N) = doc /\ \A n \in 0..N : Prefix(doc, n) \in Docs
      /\ \A n \in Nat : n + 1 <= N => Prefix(doc, n + 1) = Prefix(doc, n) \o <<doc[n + 1]>>
  BY PrefixIs DEF Docs
<1>4. up[0] = [done |-> <<>>, open |-> <<>>] /\ (\A n \in 1..N : after(n)) /\ \A n \in 0..N : up[n] \in Scan
  BY <1>1 DEF ScanSteps
<1>5. 0 \in T
  <2>1. Closed(up[0]) = <<>>
    BY <1>4 DEF Closed
  <2>. QED BY <1>3, <2>1, FlattenNone, SubSelf
<1>6. ASSUME NEW n \in Nat, n \in T PROVE n + 1 \in T
  <2>. SUFFICES ASSUME n + 1 <= N PROVE Sub(flat(n + 1), Prefix(doc, n + 1))
    OBVIOUS
  <2>1. n \in 0..N /\ n + 1 \in 1..N /\ (n + 1) - 1 = n /\ n <= N /\ n + 1 \in 0..N
    BY <1>2
  <2>2. after(n + 1)
    <3>. HIDE DEF after, N
    <3>. QED BY <1>4, <2>1
  <2>. DEFINE old == up[n]
              new == up[n + 1]
              line == doc[n + 1]
              one == <<line>>
  <2>3. new = Scanned(old, line) /\ old \in Scan /\ new \in Scan /\ line \in Line
    <3>1. up[n + 1] = Scanned(up[n], doc[n + 1])
      BY <2>1, <2>2
    <3>. HIDE DEF N
    <3>. QED BY <1>2, <1>4, <2>1, <3>1
  <2>4. Sub(flat(n), Prefix(doc, n)) /\ Prefix(doc, n) \in Docs /\ Prefix(doc, n + 1) = Prefix(doc, n) \o one
    BY <1>3, <1>6, <2>1
  <2>5. one \in Docs
    BY <2>3, OneIs DEF Docs
  <2>6. flat(n) = FlattenSeq(Closed(old)) /\ flat(n + 1) = FlattenSeq(Closed(new))
    OBVIOUS
  <2>7. flat(n) \in Docs /\ FlattenSeq(old.done) \in Docs /\ old.open \in Docs
    <3>. HIDE DEF old, flat
    <3>1. FlattenSeq(old.done) \in Docs /\ old.open \in Docs /\ FlattenSeq(Closed(old)) = FlattenSeq(old.done) \o old.open
      BY <2>3, ClosedFlat
    <3>. QED BY <2>6, <3>1, EndsConcat
  <2>. HIDE DEF old, new, line, flat
  <2>8. CASE line = Blank
    <3>1. new = [done |-> Closed(old), open |-> <<>>]
      BY <2>3, <2>8 DEF Scanned
    <3>2. Closed(new) = Closed(old)
      BY <3>1 DEF Closed
    <3>3. Sub(flat(n) \o <<>>, Prefix(doc, n) \o one)
      <4>. DEFINE none == <<>>
      <4>1. none \in Docs /\ Sub(none, one)
        BY <2>8, BlankSub, NoneIs
      <4>. HIDE DEF none, one
      <4>2. Sub(flat(n) \o none, Prefix(doc, n) \o one)
        BY <2>4, <2>5, <2>7, <4>1, SubConcat
      <4>. QED BY <4>2 DEF none
    <3>4. flat(n) \o <<>> = flat(n)
      BY <2>7, ConcatEmptySeq DEF Docs
    <3>. HIDE DEF one
    <3>. QED BY <2>4, <2>6, <3>2, <3>3, <3>4
  <2>9. CASE line # Blank
    <3>1. new.done = old.done /\ new.open = Append(old.open, line)
      <4>1. old = [done |-> old.done, open |-> old.open]
        BY <2>3 DEF Scan
      <4>. QED BY <2>3, <2>9, <4>1 DEF Scanned
    <3>2. flat(n + 1) = FlattenSeq(old.done) \o (old.open \o one)
      <4>1. FlattenSeq(Closed(new)) = FlattenSeq(new.done) \o new.open
        BY <2>3, ClosedFlat
      <4>2. Append(old.open, line) = old.open \o one
        BY <2>3, <2>7, AppendIsConcat DEF Docs
      <4>. QED BY <2>6, <3>1, <4>1, <4>2
    <3>3. flat(n) = FlattenSeq(old.done) \o old.open
      BY <2>3, <2>6, ClosedFlat
    <3>. HIDE DEF one
    <3>4. (FlattenSeq(old.done) \o old.open) \o one = FlattenSeq(old.done) \o (old.open \o one)
      <4>. DEFINE a == FlattenSeq(old.done)
                  b == old.open
      <4>1. a \in Seq(Line) /\ b \in Seq(Line) /\ one \in Seq(Line)
        BY <2>5, <2>7 DEF Docs
      <4>. HIDE DEF a, b
      <4>2. (a \o b) \o one = a \o (b \o one)
        BY ONLY <4>1, ConcatAssociative
      <4>. QED BY <4>2 DEF a, b
    <3>5. Sub(flat(n) \o one, Prefix(doc, n) \o one)
      BY <2>4, <2>5, <2>7, SubSelf, SubConcat
    <3>. QED BY <2>4, <3>2, <3>3, <3>4, <3>5
  <2>. QED BY <2>8, <2>9
<1>7. N \in T
  <2>. HIDE DEF T, N
  <2>. QED BY <1>2, <1>5, <1>6, SetInduction
<1>8. Blocks(doc) = Closed(up[N]) /\ up[N] \in Scan
  BY <1>1, <1>2 DEF ScanSteps
<1>9. Sub(flat(N), doc)
  <2>1. N <= N
    BY <1>2
  <2>. QED BY <1>3, <1>7, <2>1
<1>10. Closed(up[N]) \in Seq(Docs)
  BY <1>8, BlankIs, ScanIs
<1>11. FlattenSeq(Closed(up[N])) \in Docs
  <2>. HIDE DEF N
  <2>. QED BY <1>8, ClosedFlat, EndsConcat
<1>. QED BY <1>8, <1>9, <1>10, <1>11

LEMMA JoinedSub ==
  ASSUME NEW blocks \in Seq(Docs)
  PROVE  /\ Joined(blocks) \in Docs /\ FlattenSeq(blocks) \in Docs
         /\ Sub(Joined(blocks), FlattenSeq(blocks))
<1>. DEFINE put(n) == IF n = 1 THEN blocks[n] ELSE <<Blank>> \o blocks[n]
            apart == [n \in 1..Len(blocks) |-> put(n)]
<1>1. DOMAIN blocks = 1..Len(blocks) /\ Len(blocks) \in Nat /\ \A n \in 1..Len(blocks) : blocks[n] \in Docs
  OBVIOUS
<1>2. Joined(blocks) = FlattenSeq(apart)
  BY <1>1 DEF Joined
<1>3. ASSUME NEW n \in 1..Len(blocks) PROVE put(n) \in Docs /\ Sub(put(n), blocks[n])
  <2>1. CASE n = 1
    BY <1>1, <2>1, SubSelf
  <2>2. CASE n # 1
    <3>. DEFINE one == <<Blank>>
                none == <<>>
                block == blocks[n]
    <3>1. one \in Docs /\ none \in Docs /\ Sub(one, none) /\ block \in Docs /\ put(n) = one \o block
      BY <1>1, <2>2, BlankSub, NoneIs
    <3>2. none \o block = block
      BY <3>1, ConcatEmptySeq DEF Docs
    <3>. HIDE DEF one, none, block, put
    <3>3. Sub(one \o block, none \o block) /\ one \o block \in Docs
      BY <3>1, SubSelf, SubConcat, EndsConcat
    <3>. QED BY <3>1, <3>2, <3>3 DEF block
  <2>. QED BY <2>1, <2>2
<1>. HIDE DEF put
<1>4. apart \in [1..Len(blocks) -> Docs] /\ \A n \in 1..Len(blocks) : apart[n] = put(n)
  BY <1>3
<1>. HIDE DEF apart
<1>5. apart \in Seq(Docs) /\ Len(apart) = Len(blocks)
  BY <1>1, <1>4, FunctionIsSequence
<1>6. \A n \in 1..Len(blocks) : Sub(apart[n], blocks[n])
  BY <1>3, <1>4
<1>. QED BY <1>2, <1>5, <1>6, FlattenSub

(* The words a block is known by. *)
LEMMA KeyIs ==
  ASSUME NEW words \in Seq(Words)
  PROVE  Key(words) \in Seq(Words) /\ Range(Key(words)) \subseteq Range(words)
BY KeepMembers, KeepRange DEF Key

LEMMA PrintIs ==
  ASSUME NEW block \in Docs
  PROVE  /\ Fingerprint(block) \in Seq(Words) /\ Len(Fingerprint(block)) \in Nat
         /\ \A w : w \in Range(Fingerprint(block)) <=> \E n \in 1..Len(block) : w \in Range(Key(block[n].words))
<1>. DEFINE put(n) == Key(block[n].words)
            ss == [n \in 1..Len(block) |-> put(n)]
<1>0. Len(block) \in Nat /\ DOMAIN block = 1..Len(block) /\ \A n \in 1..Len(block) : block[n].words \in Seq(Words)
  BY DocIs, LineIs
<1>1. \A n \in 1..Len(block) : put(n) \in Seq(Words)
  BY <1>0, KeyIs
<1>2. Fingerprint(block) = FlattenSeq(ss)
  BY <1>0 DEF Fingerprint
<1>. HIDE DEF put
<1>3. ss \in [1..Len(block) -> Seq(Words)] /\ \A n \in 1..Len(block) : ss[n] = put(n)
  BY <1>1
<1>. HIDE DEF ss
<1>4. ss \in Seq(Seq(Words)) /\ Len(ss) = Len(block)
  BY <1>0, <1>3, FunctionIsSequence
<1>5. FlattenSeq(ss) \in Seq(Words) /\ \A w : w \in Range(FlattenSeq(ss)) <=> \E n \in 1..Len(ss) : w \in Range(ss[n])
  BY <1>4, FlattenRange
<1>6. \A w : w \in Range(Fingerprint(block)) <=> \E n \in 1..Len(block) : w \in Range(put(n))
  BY <1>2, <1>3, <1>4, <1>5
<1>. QED BY <1>2, <1>5, <1>6 DEF put

SeenType == [kept : SUBSET Nat, exact : SUBSET Seq(Words), prefix : SUBSET Seq(Words)]

LEMMA SiftedIs ==
  ASSUME NEW seen \in SeenType, NEW block \in Docs, NEW n \in Nat
  PROVE  /\ Sifted(seen, block, n) \in SeenType
         /\ seen.kept \subseteq Sifted(seen, block, n).kept
<1>. DEFINE print == Fingerprint(block)
            prefix == IF Len(print) >= PrefixWords THEN {SubSeq(print, 1, PrefixWords)} ELSE {}
            new == Sifted(seen, block, n)
<1>1. print \in Seq(Words) /\ PrefixWords \in Nat
  BY PrintIs, TextAssumption
<1>2. prefix \subseteq Seq(Words)
  <2>. HIDE DEF print
  <2>. QED BY <1>1
<1>3. seen = [kept |-> seen.kept, exact |-> seen.exact, prefix |-> seen.prefix]
      /\ seen.kept \in SUBSET Nat /\ seen.exact \in SUBSET Seq(Words) /\ seen.prefix \in SUBSET Seq(Words)
  BY DEF SeenType
<1>4. \/ new = [seen EXCEPT !.kept = @ \cup {n}]
      \/ new = seen
      \/ new = [seen EXCEPT !.exact = @ \cup {print}]
      \/ new = [kept |-> seen.kept \cup {n}, exact |-> seen.exact \cup {print},
                prefix |-> seen.prefix \cup prefix]
  BY DEF Sifted
<1>. HIDE DEF print, prefix, new
<1>5. \/ new = [kept |-> seen.kept \cup {n}, exact |-> seen.exact, prefix |-> seen.prefix]
      \/ new = seen
      \/ new = [kept |-> seen.kept, exact |-> seen.exact \cup {print}, prefix |-> seen.prefix]
      \/ new = [kept |-> seen.kept \cup {n}, exact |-> seen.exact \cup {print},
                prefix |-> seen.prefix \cup prefix]
  BY <1>3, <1>4
<1>6. new \in SeenType /\ seen.kept \subseteq new.kept
  BY <1>1, <1>2, <1>3, <1>5 DEF SeenType
<1>. QED BY <1>6 DEF new

(* What is seen of the blocks, one after the other. *)
Look(seen, blocks, aside, n) ==
  IF n \in aside THEN [seen EXCEPT !.kept = @ \cup {n}] ELSE Sifted(seen, blocks[n], n)

FreshSteps(up, blocks, aside) ==
  /\ up[0] = Unseen /\ \A n \in 1..Len(blocks) : up[n] = Look(up[n - 1], blocks, aside, n)
  /\ \A n \in 0..Len(blocks) : up[n] \in SeenType
  /\ Fresh(blocks, aside) = up[Len(blocks)].kept

LEMMA LookIs ==
  ASSUME NEW blocks \in Seq(Docs), NEW aside, NEW n \in 1..Len(blocks), NEW seen \in SeenType
  PROVE  /\ Look(seen, blocks, aside, n) \in SeenType
         /\ seen.kept \subseteq Look(seen, blocks, aside, n).kept
         /\ n \in aside => n \in Look(seen, blocks, aside, n).kept
<1>1. n \in Nat /\ blocks[n] \in Docs
  OBVIOUS
<1>2. CASE n \in aside
  <2>1. Look(seen, blocks, aside, n) = [kept |-> seen.kept \cup {n}, exact |-> seen.exact, prefix |-> seen.prefix]
    BY <1>2 DEF Look, SeenType
  <2>. QED BY <1>1, <2>1 DEF SeenType
<1>3. CASE n \notin aside
  BY <1>1, <1>3, SiftedIs DEF Look
<1>. QED BY <1>2, <1>3

LEMMA FreshUp == ASSUME NEW blocks \in Seq(Docs), NEW aside PROVE \E up : FreshSteps(up, blocks, aside)
<1>. DEFINE N == Len(blocks)
            step(n, x) == Look(x, blocks, aside, n)
            entry(h, n) == IF n = 0 THEN Unseen
                           ELSE IF n \in aside THEN [h[n - 1] EXCEPT !.kept = @ \cup {n}]
                           ELSE Sifted(h[n - 1], blocks[n], n)
            S == [c \in (1..N) \X SeenType |-> step(c[1], c[2])]
            up == CHOOSE h : h = [n \in 0..Len(blocks) |-> entry(h, n)]
<1>1. N \in Nat /\ Unseen \in SeenType
  BY DEF Unseen, SeenType
<1>2. \A n \in 1..N, x \in SeenType : step(n, x) \in SeenType
  BY LookIs
<1>3. S \in [(1..N) \X SeenType -> SeenType] /\ \A n \in 1..N, x \in SeenType : S[<<n, x>>] = step(n, x)
  <2>. HIDE DEF step, N
  <2>. QED BY <1>2
<1>. HIDE DEF S
<1>4. PICK g : Upwards(g, Unseen, S, SeenType, N)
  BY <1>1, <1>3, UpwardsIs
<1>0. \A h, n : n # 0 => entry(h, n) = step(n, h[n - 1])
  BY DEF Look
<1>5. g \in [0..N -> SeenType] /\ \A n \in 0..N : g[n] = entry(g, n)
  <2>1. g \in [0..N -> SeenType] /\ g[0] = Unseen /\ \A n \in 1..N : g[n] = S[<<n, g[n - 1]>>]
    BY <1>4 DEF Upwards
  <2>2. ASSUME NEW n \in 0..N PROVE g[n] = entry(g, n)
    <3>1. CASE n = 0
      BY <2>1, <3>1
    <3>2. CASE n # 0
      <4>1. n \in 1..N /\ n - 1 \in 0..N
        BY <1>1, <3>2
      <4>2. g[n - 1] \in SeenType /\ g[n] = S[<<n, g[n - 1]>>]
        BY <2>1, <4>1
      <4>. HIDE DEF step, entry
      <4>. QED BY <1>0, <1>3, <3>2, <4>1, <4>2
    <3>. QED BY <3>1, <3>2
  <2>. HIDE DEF entry
  <2>. QED BY <2>1, <2>2
<1>6. g = [n \in 0..N |-> entry(g, n)]
  <2>. HIDE DEF entry
  <2>. QED BY <1>5
<1>7. up = [n \in 0..N |-> entry(up, n)]
  <2>. HIDE DEF entry
  <2>. QED BY <1>6
<1>8. Fresh(blocks, aside) = up[N].kept
  BY DEF Fresh
<1>. HIDE DEF up
<1>9. \A n \in 0..N : up[n] = entry(up, n)
  <2>. HIDE DEF entry, N
  <2>. QED BY <1>7
<1>10. up[0] = Unseen
  <2>1. 0 \in 0..N
    BY <1>1
  <2>2. up[0] = entry(up, 0)
    <3>. HIDE DEF entry, N
    <3>. QED BY <1>9, <2>1
  <2>3. entry(up, 0) = Unseen
    OBVIOUS
  <2>. QED BY <2>2, <2>3
<1>. DEFINE after(n) == up[n] = step(n, up[n - 1])
<1>11. \A n \in 1..N : after(n)
  <2>. SUFFICES ASSUME NEW n \in 1..N PROVE after(n)
    OBVIOUS
  <2>1. n \in 0..N /\ n # 0
    BY <1>1
  <2>. HIDE DEF step, entry, N
  <2>. QED BY <1>0, <1>9, <2>1
<1>. DEFINE T == {n \in Nat : n \in 0..N => up[n] \in SeenType}
<1>12. 0 \in T
  BY <1>1, <1>10
<1>13. ASSUME NEW n \in Nat, n \in T PROVE n + 1 \in T
  <2>. SUFFICES ASSUME n + 1 \in 0..N PROVE up[n + 1] \in SeenType
    OBVIOUS
  <2>1. n \in 0..N /\ n + 1 \in 1..N /\ (n + 1) - 1 = n
    BY <1>1
  <2>2. after(n + 1)
    <3>. HIDE DEF after, N
    <3>. QED BY <1>11, <2>1
  <2>3. up[n + 1] = step(n + 1, up[n])
    <3>. HIDE DEF step
    <3>. QED BY <2>1, <2>2
  <2>4. up[n] \in SeenType
    BY <1>13, <2>1
  <2>. HIDE DEF step, N
  <2>. QED BY <1>2, <2>1, <2>3, <2>4
<1>14. \A n \in 0..N : up[n] \in SeenType
  <2>1. \A n \in Nat : n \in T
    <3>. HIDE DEF T
    <3>. QED BY <1>12, <1>13, SetInduction
  <2>. QED BY <2>1
<1>15. \A n \in 1..Len(blocks) : up[n] = Look(up[n - 1], blocks, aside, n)
  BY <1>11
<1>. QED BY <1>8, <1>10, <1>14, <1>15 DEF FreshSteps

(* A block that is not looked at stays. *)
LEMMA AsideStays ==
  ASSUME NEW blocks \in Seq(Docs), NEW aside
  PROVE  \A n \in 1..Len(blocks) : n \in aside => n \in Fresh(blocks, aside)
<1>1. PICK up : FreshSteps(up, blocks, aside)
  BY FreshUp
<1>. DEFINE N == Len(blocks)
            good(n) == n <= N => \A m \in 1..n : m \in aside => m \in up[n].kept
            T == {n \in Nat : good(n)}
<1>2. N \in Nat /\ (\A n \in 0..N : up[n] \in SeenType) /\ \A n \in 1..N : up[n] = Look(up[n - 1], blocks, aside, n)
  BY <1>1 DEF FreshSteps
<1>3. 0 \in T
  OBVIOUS
<1>4. ASSUME NEW n \in Nat, n \in T PROVE n + 1 \in T
  <2>. SUFFICES ASSUME n + 1 <= N, NEW m \in 1..(n + 1), m \in aside PROVE m \in up[n + 1].kept
    OBVIOUS
  <2>1. n \in 0..N /\ n + 1 \in 1..N /\ (n + 1) - 1 = n /\ n <= N /\ (m = n + 1 \/ m \in 1..n)
    BY <1>2
  <2>2. up[n + 1] = Look(up[(n + 1) - 1], blocks, aside, n + 1) /\ up[n] \in SeenType
    <3>. HIDE DEF N
    <3>. QED BY <1>2, <2>1
  <2>3. up[n].kept \subseteq up[n + 1].kept /\ (n + 1 \in aside => n + 1 \in up[n + 1].kept)
    <3>. DEFINE k == n + 1
    <3>1. k \in 1..Len(blocks) /\ up[k] = Look(up[n], blocks, aside, k)
      BY <2>1, <2>2
    <3>. HIDE DEF k
    <3>2. up[n].kept \subseteq up[k].kept /\ (k \in aside => k \in up[k].kept)
      BY <2>2, <3>1, LookIs
    <3>. QED BY <3>2 DEF k
  <2>4. m \in 1..n => m \in up[n].kept
    <3>1. good(n)
      <4>. HIDE DEF good
      <4>. QED BY <1>4
    <3>. QED BY <2>1, <3>1
  <2>. QED BY <2>1, <2>3, <2>4
<1>5. N \in T
  <2>. HIDE DEF T, N
  <2>. QED BY <1>2, <1>3, <1>4, SetInduction
<1>6. N <= N
  BY <1>2
<1>. QED BY <1>1, <1>5, <1>6 DEF FreshSteps

LEMMA ContentBlocksMade == ASSUME NEW doc \in Docs PROVE Made(DedupContentBlocks(doc), doc)
<1>. DEFINE blocks == Blocks(doc)
            aside == {n \in DOMAIN blocks : InCode(blocks, n)}
            places == Fresh(blocks, aside)
            rest == Keep(blocks, places)
<1>1. blocks \in Seq(Docs) /\ FlattenSeq(blocks) \in Docs /\ Sub(FlattenSeq(blocks), doc)
  BY BlocksSub
<1>2. DedupContentBlocks(doc) = Joined(rest)
  BY DEF DedupContentBlocks
<1>. HIDE DEF blocks
<1>3. DOMAIN blocks = 1..Len(blocks) /\ \A n \in 1..Len(blocks) : DOMAIN blocks[n] = 1..Len(blocks[n])
  BY <1>1, DocIs
<1>4. \A n \in 1..Len(blocks) : n \notin places => ~InCode(blocks, n)
  <2>1. \A n \in 1..Len(blocks) : InCode(blocks, n) => n \in aside
    BY <1>3
  <2>. HIDE DEF aside
  <2>. QED BY <1>1, <2>1, AsideStays
<1>5. \A n \in 1..Len(blocks) : n \notin places => \A k \in 1..Len(blocks[n]) : ~IsFence(blocks[n][k])
  <2>. HIDE DEF places
  <2>. QED BY <1>3, <1>4 DEF InCode
<1>. HIDE DEF places
<1>6. FlattenSeq(rest) \in Docs /\ Sub(FlattenSeq(rest), FlattenSeq(blocks)) /\ rest \in Seq(Docs)
  BY <1>1, <1>5, FlattenKeepSub, KeepMembers
<1>. HIDE DEF rest
<1>7. Joined(rest) \in Docs /\ Sub(Joined(rest), FlattenSeq(rest))
  BY <1>6, JoinedSub
<1>8. Sub(Joined(rest), doc)
  BY <1>1, <1>6, <1>7, SubTrans
<1>. QED BY <1>2, <1>7, <1>8 DEF Made

LEMMA DedupLinesMade == ASSUME NEW doc \in Docs PROVE Made(DedupLines(doc), doc)
<1>. DEFINE blocks == Blocks(doc)
            put(n) == IF InCode(blocks, n) \/ Len(blocks[n]) <= 2 THEN blocks[n] ELSE OnceEach(blocks[n])
            out == [n \in 1..Len(blocks) |-> put(n)]
<1>1. blocks \in Seq(Docs) /\ FlattenSeq(blocks) \in Docs /\ Sub(FlattenSeq(blocks), doc)
  BY BlocksSub
<1>2. DOMAIN blocks = 1..Len(blocks) /\ Len(blocks) \in Nat
      /\ \A n \in 1..Len(blocks) : blocks[n] \in Docs /\ DOMAIN blocks[n] = 1..Len(blocks[n])
  <2>. HIDE DEF blocks
  <2>. QED BY <1>1, DocIs
<1>3. DedupLines(doc) = Joined(out)
  BY <1>2 DEF DedupLines
<1>. HIDE DEF blocks
<1>4. ASSUME NEW n \in 1..Len(blocks) PROVE put(n) \in Docs /\ Sub(put(n), blocks[n])
  <2>1. CASE InCode(blocks, n) \/ Len(blocks[n]) <= 2
    BY <1>2, <2>1, SubSelf
  <2>2. CASE ~(InCode(blocks, n) \/ Len(blocks[n]) <= 2)
    <3>. DEFINE block == blocks[n]
                kept == Fresh([m \in DOMAIN block |-> <<block[m]>>], {})
    <3>1. block \in Docs /\ put(n) = Keep(block, kept)
      BY <1>2, <2>2 DEF OnceEach
    <3>2. \A m \in 1..Len(block) : ~IsFence(block[m])
      BY <1>2, <2>2 DEF InCode
    <3>. HIDE DEF kept, put
    <3>3. Made(put(n), block)
      <4>. HIDE DEF block
      <4>. QED BY <3>1, <3>2, KeepMade
    <3>. QED BY <3>3 DEF Made
  <2>. QED BY <2>1, <2>2
<1>. HIDE DEF put
<1>5. out \in [1..Len(blocks) -> Docs] /\ \A n \in 1..Len(blocks) : out[n] = put(n)
  BY <1>4
<1>. HIDE DEF out
<1>6. out \in Seq(Docs) /\ Len(out) = Len(blocks)
  BY <1>2, <1>5, FunctionIsSequence
<1>7. FlattenSeq(out) \in Docs /\ Sub(FlattenSeq(out), FlattenSeq(blocks))
  BY <1>1, <1>4, <1>5, <1>6, FlattenSub
<1>8. Joined(out) \in Docs /\ Sub(Joined(out), FlattenSeq(out))
  BY <1>6, JoinedSub
<1>9. Sub(Joined(out), doc)
  BY <1>1, <1>7, <1>8, SubTrans
<1>. QED BY <1>3, <1>8, <1>9 DEF Made

(* The passes one after the other, part by part as in ProcessBody. *)
LEMMA UnlinkedMade == ASSUME NEW doc \in Docs PROVE Made(Unlinked(doc), doc)
<1>. DEFINE d1 == StripLeakedJs(doc)
            d2 == StripA11yLinkChrome(d1)
            d3 == CollapseLogoImages(d2)
            d4 == StripBareImageRefs(d3)
            d5 == StripAltTextNoise(d4)
            d6 == StripUiControlText(d5)
            d7 == StripLongAltDescriptions(d6)
            d8 == StripCssArtifacts(d7)
            d9 == DedupAdjacentDescriptions(d8)
<1>0. Unlinked(doc) = d9
  BY DEF Unlinked
<1>1. Made(d1, doc)
  BY LeakedJsMade
<1>2. d1 \in Docs => Made(d2, d1)
  BY ChromeMade
<1>3. d2 \in Docs => Made(d3, d2)
  BY LogoImagesMade
<1>4. d3 \in Docs => Made(d4, d3)
  BY WithoutMade DEF StripBareImageRefs
<1>5. d4 \in Docs => Made(d5, d4)
  BY WithoutMade DEF StripAltTextNoise
<1>6. d5 \in Docs => Made(d6, d5)
  BY ControlsMade
<1>7. d6 \in Docs => Made(d7, d6)
  BY WithoutMade DEF StripLongAltDescriptions
<1>8. d7 \in Docs => Made(d8, d7)
  BY WithoutMade DEF StripCssArtifacts
<1>9. d8 \in Docs => Made(d9, d8)
  BY DescriptionsMade
<1>. HIDE DEF d1, d2, d3, d4, d5, d6, d7, d8, d9
<1>10. d1 \in Docs /\ Made(d2, d1) /\ Made(d2, doc)
  BY <1>1, <1>2, MadeTrans DEF Made
<1>11. d2 \in Docs /\ Made(d3, d2) /\ Made(d3, doc)
  BY <1>10, <1>3, MadeTrans DEF Made
<1>12. d3 \in Docs /\ Made(d4, d3) /\ Made(d4, doc)
  BY <1>11, <1>4, MadeTrans DEF Made
<1>13. d4 \in Docs /\ Made(d5, d4) /\ Made(d5, doc)
  BY <1>12, <1>5, MadeTrans DEF Made
<1>14. d5 \in Docs /\ Made(d6, d5) /\ Made(d6, doc)
  BY <1>13, <1>6, MadeTrans DEF Made
<1>15. d6 \in Docs /\ Made(d7, d6) /\ Made(d7, doc)
  BY <1>14, <1>7, MadeTrans DEF Made
<1>16. d7 \in Docs /\ Made(d8, d7) /\ Made(d8, doc)
  BY <1>15, <1>8, MadeTrans DEF Made
<1>17. d8 \in Docs /\ Made(d9, d8) /\ Made(d9, doc)
  BY <1>16, <1>9, MadeTrans DEF Made
<1>. QED BY <1>0, <1>17

LEMMA RestatedMade == ASSUME NEW doc \in Docs PROVE Made(Restated(doc), doc)
<1>. DEFINE d1 == StripBareNumberLines(doc)
            d2 == StripUiControlText(d1)
            d3 == DedupRepeatedPhrases(d2)
            d4 == DedupHeadingParagraph(d3)
            d5 == DedupTextAgainstHeadings(d4)
<1>0. Restated(doc) = d5
  BY DEF Restated
<1>1. Made(d1, doc)
  BY NumbersMade
<1>2. d1 \in Docs => Made(d2, d1)
  BY ControlsMade
<1>3. d2 \in Docs => Made(d3, d2)
  BY RepeatedPhrasesMade
<1>4. d3 \in Docs => Made(d4, d3)
  BY HeadingParagraphMade
<1>5. d4 \in Docs => Made(d5, d4)
  BY AgainstHeadingsMade
<1>. HIDE DEF d1, d2, d3, d4, d5
<1>10. d1 \in Docs /\ Made(d2, d1) /\ Made(d2, doc)
  BY <1>1, <1>2, MadeTrans DEF Made
<1>11. d2 \in Docs /\ Made(d3, d2) /\ Made(d3, doc)
  BY <1>10, <1>3, MadeTrans DEF Made
<1>12. d3 \in Docs /\ Made(d4, d3) /\ Made(d4, doc)
  BY <1>11, <1>4, MadeTrans DEF Made
<1>13. d4 \in Docs /\ Made(d5, d4) /\ Made(d5, doc)
  BY <1>12, <1>5, MadeTrans DEF Made
<1>. QED BY <1>0, <1>13

LEMMA ReducedMade == ASSUME NEW doc \in Docs, ~FenceRepeated(Restated(doc)) PROVE Made(Reduced(doc), doc)
<1>. DEFINE d0 == Restated(doc)
            d1 == DedupDuplicateHeadings(d0)
            d2 == StripEmptyHeadings(d1)
            d3 == StripAssetLabels(d2)
            d4 == StripCssClassLines(d3)
<1>0. Reduced(doc) = d4
  BY DEF Reduced
<1>1. Made(d0, doc)
  BY RestatedMade
<1>2. d0 \in Docs => Made(d1, d0)
  BY RepetitionMade
<1>3. d1 \in Docs => Made(d2, d1)
  BY EmptyHeadingsMade
<1>4. d2 \in Docs => Made(d3, d2)
  BY WithoutMade DEF StripAssetLabels
<1>5. d3 \in Docs => Made(d4, d3)
  BY CssClassesMade
<1>. HIDE DEF d0, d1, d2, d3, d4
<1>10. d0 \in Docs /\ Made(d1, d0) /\ Made(d1, doc)
  BY <1>1, <1>2, MadeTrans DEF Made
<1>11. d1 \in Docs /\ Made(d2, d1) /\ Made(d2, doc)
  BY <1>10, <1>3, MadeTrans DEF Made
<1>12. d2 \in Docs /\ Made(d3, d2) /\ Made(d3, doc)
  BY <1>11, <1>4, MadeTrans DEF Made
<1>13. d3 \in Docs /\ Made(d4, d3) /\ Made(d4, doc)
  BY <1>12, <1>5, MadeTrans DEF Made
<1>. QED BY <1>0, <1>13

LEMMA CondensedMade == ASSUME NEW doc \in Docs PROVE Made(Condensed(doc), doc)
<1>. DEFINE d1 == CollapseWhitespace(doc)
            d2 == DedupContentBlocks(d1)
            d3 == DedupLines(d2)
            d4 == DedupCommaLists(d3)
            d5 == StripTrailingEmptyHeadings(d4)
            d6 == StripEmptyCodeBlocks(d5)
            d7 == CollapseWhitespace(d6)
            d8 == MergeStatLines(d7)
<1>0. Condensed(doc) = d8
  BY DEF Condensed
<1>1. Made(d1, doc)
  BY WhitespaceMade
<1>2. d1 \in Docs => Made(d2, d1)
  BY ContentBlocksMade
<1>3. d2 \in Docs => Made(d3, d2)
  BY DedupLinesMade
<1>4. d3 \in Docs => Made(d4, d3)
  BY CommaListsMade
<1>5. d4 \in Docs => Made(d5, d4)
  BY TrailingHeadingsMade
<1>6. d5 \in Docs => Made(d6, d5)
  BY EmptyCodeMade
<1>7. d6 \in Docs => Made(d7, d6)
  BY WhitespaceMade
<1>8. d7 \in Docs => Made(d8, d7)
  BY StatLinesMade
<1>. HIDE DEF d1, d2, d3, d4, d5, d6, d7, d8
<1>10. d1 \in Docs /\ Made(d2, d1) /\ Made(d2, doc)
  BY <1>1, <1>2, MadeTrans DEF Made
<1>11. d2 \in Docs /\ Made(d3, d2) /\ Made(d3, doc)
  BY <1>10, <1>3, MadeTrans DEF Made
<1>12. d3 \in Docs /\ Made(d4, d3) /\ Made(d4, doc)
  BY <1>11, <1>4, MadeTrans DEF Made
<1>13. d4 \in Docs /\ Made(d5, d4) /\ Made(d5, doc)
  BY <1>12, <1>5, MadeTrans DEF Made
<1>14. d5 \in Docs /\ Made(d6, d5) /\ Made(d6, doc)
  BY <1>13, <1>6, MadeTrans DEF Made
<1>15. d6 \in Docs /\ Made(d7, d6) /\ Made(d7, doc)
  BY <1>14, <1>7, MadeTrans DEF Made
<1>16. d7 \in Docs /\ Made(d8, d7) /\ Made(d8, doc)
  BY <1>15, <1>8, MadeTrans DEF Made
<1>. QED BY <1>0, <1>16

LEMMA BodyMade ==
  ASSUME NEW doc \in Docs, ~FenceRepeated(Restated(Unlinked(doc)))
  PROVE  Made(ProcessBody(doc).text, doc)
<1>1. Made(Unlinked(doc), doc)
  BY UnlinkedMade
<1>2. Unlinked(doc) \in Docs
  BY <1>1 DEF Made
<1>3. Made(Reduced(Unlinked(doc)), Unlinked(doc))
  BY <1>2, ReducedMade
<1>4. Made(Condensed(Reduced(Unlinked(doc))), Reduced(Unlinked(doc)))
  BY <1>3, CondensedMade DEF Made
<1>5. ProcessBody(doc).text = Condensed(Reduced(Unlinked(doc)))
  BY DEF ProcessBody
<1>. QED BY <1>1, <1>3, <1>4, <1>5, MadeTrans

(* The inductive invariant: a page is a document, and the text is that of  *)
(* the page as it now stands.                                              *)
PageInv == page \in Docs /\ used \in Nat /\ body = ProcessBody(page)

LEMMA PageInductive == PageSpec => []PageInv
<1>1. PageInit => PageInv
  BY NoneIs DEF PageInit, PageInv
<1>2. PageInv /\ [\E piece \in Pieces : Write(piece)]_pageVars => PageInv'
  <2>. SUFFICES ASSUME PageInv, [\E piece \in Pieces : Write(piece)]_pageVars PROVE PageInv'
    OBVIOUS
  <2>1. ASSUME NEW piece \in Pieces, Write(piece) PROVE PageInv'
    <3>1. piece \in Docs
      BY TextAssumption DEF Docs
    <3>2. page \o piece \in Docs
      BY <3>1, EndsConcat DEF PageInv
    <3>3. page' = page \o piece /\ used' = used + 1 /\ body' = ProcessBody(page')
      BY <2>1 DEF Write
    <3>. QED BY <3>2, <3>3 DEF PageInv
  <2>2. CASE UNCHANGED pageVars
    BY <2>2 DEF PageInv, pageVars
  <2>. QED BY <2>1, <2>2
<1>. QED BY <1>1, <1>2, PTL DEF PageSpec

(* No word of code is outside code in the text a reader of format "llm"    *)
(* gets, and no word of the text in it, unless a fence of the page goes    *)
(* with a repeated heading.                                                *)
THEOREM TextOfCode == PageSpec => []CodeStaysCode
<1>1. PageInv => CodeStaysCode
  <2>. SUFFICES ASSUME PageInv, ~FenceRepeated(Restated(Unlinked(page)))
                PROVE  /\ EndsOutside(body.text) <=> EndsOutside(page)
                       /\ \A outside \in BOOLEAN : WordsAt(body.text, outside) \subseteq WordsAt(page, outside)
    BY DEF CodeStaysCode
  <2>1. Sub(body.text, page)
    BY BodyMade DEF PageInv, Made
  <2>. QED BY <2>1, BothSides DEF Sub
<1>. QED BY <1>1, PageInductive, PTL

(* The words a line, or a block, opens with. *)
First(words) == {words[n] : n \in {m \in DOMAIN words : m <= PrefixWords}}

LEMMA FirstIs ==
  ASSUME NEW words \in Seq(Words)
  PROVE  /\ \A w : w \in First(words) <=> \E n \in 1..Len(words) : n <= PrefixWords /\ w = words[n]
         /\ First(words) \subseteq Range(words)
<1>1. DOMAIN words = 1..Len(words)
  OBVIOUS
<1>. QED BY <1>1 DEF First, Range

LEMMA LeadIs == ASSUME NEW line \in Line PROVE Lead(line) = First(line.words)
<1>. DEFINE words == line.words
            both == {PrefixWords, Len(words)}
<1>1. words \in Seq(Words) /\ Len(words) \in Nat /\ DOMAIN words = 1..Len(words) /\ PrefixWords \in Nat
  BY LineIs, TextAssumption
<1>2. both \in SUBSET Nat /\ both # {}
  BY <1>1
<1>. HIDE DEF both
<1>3. Min(both) \in both /\ Min(both) \in Nat /\ \A k \in both : Min(both) <= k
  BY <1>2, MinIs
<1>4. \A n \in Nat : n <= Min(both) <=> n <= PrefixWords /\ n <= Len(words)
  BY <1>1, <1>3 DEF both
<1>5. 1..Min(both) = {m \in 1..Len(words) : m <= PrefixWords}
  <2>. DEFINE least == Min(both)
  <2>1. least \in Nat /\ \A n \in Nat : n <= least <=> n <= PrefixWords /\ n <= Len(words)
    BY <1>3, <1>4
  <2>. HIDE DEF least, words
  <2>2. 1..least = {m \in 1..Len(words) : m <= PrefixWords}
    BY <1>1, <2>1
  <2>. QED BY <2>2 DEF least
<1>6. Lead(line) = {words[n] : n \in 1..Min(both)}
  BY DEF Lead, both
<1>. HIDE DEF words
<1>7. First(words) = {words[n] : n \in 1..Min(both)}
  BY <1>1, <1>5 DEF First
<1>. QED BY <1>6, <1>7 DEF words

LEMMA ProseIs ==
  ASSUME NEW line \in Line, IsProse(line)
  PROVE  /\ line.mark = "text" /\ line.words \in Seq(Words) /\ line.words # <<>> /\ line # Blank
         /\ Len(line.words) \in Nat /\ Len(line.words) >= 1 /\ DOMAIN line.words = 1..Len(line.words)
         /\ \A n \in 1..Len(line.words) : Kind[line.words[n]] = "prose"
         /\ ~IsFence(line) /\ ~IsHeading(line)
<1>1. line.mark = "text" /\ line # Blank /\ line.words \in Seq(Words) /\ line = [mark |-> line.mark, words |-> line.words]
  BY LineIs DEF IsProse
<1>2. line.words # <<>>
  BY <1>1 DEF Blank
<1>. DEFINE words == line.words
<1>3. words \in Seq(Words) /\ words # <<>> /\ \A n \in DOMAIN words : Kind[words[n]] = "prose"
  BY <1>1, <1>2 DEF IsProse
<1>. HIDE DEF words
<1>4. Len(words) \in Nat /\ Len(words) >= 1 /\ DOMAIN words = 1..Len(words)
  BY <1>3
<1>5. ~IsFence(line) /\ ~IsHeading(line)
  BY <1>1, Marks DEF IsFence, IsHeading
<1>. QED BY <1>1, <1>3, <1>4, <1>5 DEF words

(* The words that have only letters and digits are all kept. *)
LEMMA KeepAll ==
  ASSUME NEW V, NEW s \in Seq(V), NEW places, 1..Len(s) \subseteq places
  PROVE  Keep(s, places) = s
<1>1. PICK up : /\ KeepSteps(up, s, places) /\ Keep(s, places) = up[Len(s)]
                /\ \A n \in 0..Len(s) : up[n] \in Seq(V)
  BY KeepUp
<1>. DEFINE T == {n \in Nat : n <= Len(s) => up[n] = Prefix(s, n)}
<1>2. Len(s) \in Nat /\ Prefix(s, 0) = <<>> /\ Prefix(s, Len(s)) = s
      /\ (\A n \in 0..Len(s) : Prefix(s, n) \in Seq(V))
      /\ \A n \in Nat : n + 1 <= Len(s) => Prefix(s, n + 1) = Prefix(s, n) \o <<s[n + 1]>>
  BY PrefixIs
<1>3. 0 \in T
  BY <1>1, <1>2 DEF KeepSteps
<1>4. ASSUME NEW n \in Nat, n \in T PROVE n + 1 \in T
  <2>. SUFFICES ASSUME n + 1 <= Len(s) PROVE up[n + 1] = Prefix(s, n + 1)
    OBVIOUS
  <2>1. n \in 0..Len(s) /\ n + 1 \in 1..Len(s) /\ (n + 1) - 1 = n /\ n <= Len(s)
    BY <1>2
  <2>2. n + 1 \in places /\ up[n] = Prefix(s, n) /\ Prefix(s, n) \in Seq(V) /\ s[n + 1] \in V
    <3>1. up[n] = Prefix(s, n)
      BY <1>4, <2>1
    <3>2. n + 1 \in places /\ s[n + 1] \in V
      BY <2>1
    <3>. QED BY <1>2, <2>1, <3>1, <3>2
  <2>3. up[n + 1] = Append(up[n], s[n + 1])
    <3>1. \A m \in 1..Len(s) : up[m] = IF m \in places THEN Append(up[m - 1], s[m]) ELSE up[m - 1]
      BY <1>1 DEF KeepSteps
    <3>. QED BY <2>1, <2>2, <3>1
  <2>4. Append(Prefix(s, n), s[n + 1]) = Prefix(s, n) \o <<s[n + 1]>>
    BY <2>2, AppendIsConcat
  <2>. QED BY <1>2, <2>2, <2>3, <2>4
<1>5. Len(s) \in T
  <2>. HIDE DEF T
  <2>. QED BY <1>2, <1>3, <1>4, SetInduction
<1>6. Len(s) <= Len(s)
  BY <1>2
<1>. QED BY <1>1, <1>2, <1>5, <1>6

LEMMA ProseKey == ASSUME NEW line \in Line, IsProse(line) PROVE Key(line.words) = line.words
<1>. DEFINE words == line.words
            places == {n \in DOMAIN words : Kind[words[n]] # "punct"}
<1>1. words \in Seq(Words) /\ DOMAIN words = 1..Len(words) /\ \A n \in 1..Len(words) : Kind[words[n]] = "prose"
  BY ProseIs
<1>2. 1..Len(words) \subseteq places
  BY <1>1
<1>3. Key(words) = Keep(words, places)
  BY DEF Key
<1>. HIDE DEF words, places
<1>4. Key(words) = words
  BY <1>1, <1>2, <1>3, KeepAll
<1>. QED BY <1>4 DEF words

-----------------------------------------------------------------------------
(* A line that a paragraph begins with. *)
At(doc, n, line) == n \in 1..Len(doc) /\ doc[n] = line /\ (n = 1 \/ doc[n - 1] = Blank)
Begins(doc, line) == \E n : At(doc, n, line)

LEMMA KeepAt ==
  ASSUME NEW doc \in Docs, NEW places, NEW n, NEW line, At(doc, n, line), n \in places, n = 1 \/ n - 1 \in places
  PROVE  Keep(doc, places) \in Docs /\ Begins(Keep(doc, places), line)
<1>. DEFINE out == Keep(doc, places)
<1>1. out \in Docs /\ \E at : Placed(at, doc, places, out)
  BY KeepPlaced DEF Docs
<1>2. PICK at : Placed(at, doc, places, out)
  BY <1>1
<1>. HIDE DEF out
<1>3. Len(doc) \in Nat /\ n \in 1..Len(doc) /\ doc[n] = line /\ (n = 1 \/ doc[n - 1] = Blank)
  BY DocIs DEF At
<1>4. /\ at[0] = 0 /\ at \in [0..Len(doc) -> Nat]
      /\ at[n] = at[n - 1] + 1 /\ at[n] \in 1..Len(out) /\ out[at[n]] = line
  BY <1>2, <1>3 DEF Placed
<1>5. CASE n = 1
  <2>1. at[n] = 1
    BY <1>4, <1>5
  <2>. QED BY <1>1, <1>4, <2>1 DEF At, Begins, out
<1>6. CASE n # 1
  <2>1. n - 1 \in 1..Len(doc) /\ n - 1 \in places /\ doc[n - 1] = Blank
    BY <1>3, <1>6
  <2>2. out[at[n - 1]] = Blank /\ at[n - 1] \in 1..Len(out)
    BY <1>2, <2>1 DEF Placed
  <2>3. at[n] - 1 = at[n - 1]
    BY <1>4, <2>2, DocIs, <1>1 DEF out
  <2>. QED BY <1>1, <1>4, <2>2, <2>3 DEF At, Begins, out
<1>. QED BY <1>5, <1>6

LEMMA KeepBegins ==
  ASSUME NEW doc \in Docs, NEW places, NEW line, Begins(doc, line),
         \A n \in 1..Len(doc) : doc[n] = line \/ doc[n] = Blank => n \in places
  PROVE  Keep(doc, places) \in Docs /\ Begins(Keep(doc, places), line)
<1>1. PICK n : At(doc, n, line)
  BY DEF Begins
<1>2. n \in 1..Len(doc) /\ doc[n] = line /\ (n = 1 \/ doc[n - 1] = Blank) /\ Len(doc) \in Nat
  BY <1>1, DocIs DEF At
<1>3. n \in places /\ (n = 1 \/ n - 1 \in places)
  <2>1. n # 1 => n - 1 \in 1..Len(doc)
    BY <1>2
  <2>. QED BY <1>2, <2>1
<1>. QED BY <1>1, <1>3, KeepAt

LEMMA LinesAt ==
  ASSUME NEW doc \in Docs, NEW n, NEW line, At(doc, n, line), NEW out \in [1..Len(doc) -> Line], NEW new, out[n] = new,
         \A m \in 1..Len(doc) : doc[m] = Blank => out[m] = Blank
  PROVE  Lines(out) \in Docs /\ At(Lines(out), n, new)
<1>1. Len(doc) \in Nat /\ n \in 1..Len(doc) /\ (n = 1 \/ doc[n - 1] = Blank)
  BY DocIs DEF At
<1>2. Lines(out) = out /\ out \in Docs /\ Len(out) = Len(doc)
  BY <1>1, LinesIs DEF Docs
<1>3. n # 1 => n - 1 \in 1..Len(doc)
  BY <1>1
<1>. QED BY <1>1, <1>2, <1>3 DEF At

(* A walk comes to every place or passes it. *)
Short(gives, next, N) == \A n \in 1..N : Len(gives[n]) <= next[n] - n
Before(a, g, gives, next, V, N, m) ==
  a \in Seq(V) /\ g[1] = a \o g[m] /\ (Short(gives, next, N) => Len(a) < m)

LEMMA WalkCovers ==
  ASSUME NEW V, NEW N \in Nat, NEW gives \in [1..N -> Seq(V)], NEW next,
         \A n \in 1..N : next[n] \in (n + 1)..(N + 1),
         NEW g, Walks(g, gives, next, V, N), NEW k \in 1..N
  PROVE  \E m \in 1..k : k < next[m] /\ \E a : Before(a, g, gives, next, V, N, m)
<1>. DEFINE reached(m) == \E a : Before(a, g, gives, next, V, N, m)
            places == {m \in 1..k : reached(m)}
            last == Max(places)
<1>1. /\ \A n \in 1..(N + 1) : g[n] \in Seq(V)
      /\ \A n \in 1..N : g[n] = gives[n] \o g[next[n]] /\ gives[n] \in Seq(V)
  BY DEF Walks
<1>2. reached(1)
  <2>1. g[1] = <<>> \o g[1] /\ <<>> \in Seq(V) /\ Len(<<>>) = 0
    BY <1>1
  <2>2. Before(<<>>, g, gives, next, V, N, 1)
    BY <2>1 DEF Before
  <2>. QED BY <2>2
<1>3. last \in places /\ \A m \in places : m <= last
  <2>. HIDE DEF reached
  <2>1. places \in SUBSET (0..k) /\ 1 \in places /\ k \in Nat
    BY <1>2
  <2>. HIDE DEF places
  <2>2. places # {}
    BY <2>1
  <2>. QED BY <2>1, <2>2, MaxIs
<1>. HIDE DEF last
<1>4. ASSUME next[last] <= k PROVE FALSE
  <2>0. last \in 1..k /\ reached(last)
    BY <1>3
  <2>1. last \in 1..N /\ next[last] \in (last + 1)..(N + 1) /\ next[last] \in 1..k
    BY <1>4, <2>0
  <2>2. PICK a : Before(a, g, gives, next, V, N, last)
    BY <2>0
  <2>. DEFINE there == next[last]
              part == gives[last]
              rest == g[there]
              b == a \o part
  <2>3. a \in Seq(V) /\ g[1] = a \o g[last] /\ (Short(gives, next, N) => Len(a) < last)
    BY <2>2 DEF Before
  <2>4. part \in Seq(V) /\ g[last] = part \o rest
    BY <1>1, <2>1
  <2>5. rest \in Seq(V)
    <3>1. there \in 1..(N + 1)
      BY <2>1
    <3>. HIDE DEF there
    <3>. QED BY <1>1, <3>1
  <2>6. b \in Seq(V) /\ g[1] = b \o rest /\ Len(b) = Len(a) + Len(part) /\ Len(a) \in Nat /\ Len(part) \in Nat
    <3>. HIDE DEF part, rest
    <3>1. (a \o part) \o rest = a \o (part \o rest)
      <4>1. a \in Seq(V) /\ part \in Seq(V) /\ rest \in Seq(V)
        BY <2>3, <2>4, <2>5
      <4>. QED BY ONLY <4>1, ConcatAssociative
    <3>2. b \in Seq(V) /\ Len(b) = Len(a) + Len(part) /\ Len(a) \in Nat /\ Len(part) \in Nat
      BY <2>3, <2>4, ConcatIs
    <3>. QED BY <2>3, <2>4, <3>1, <3>2
  <2>7. Short(gives, next, N) => Len(b) < there
    <3>1. Short(gives, next, N) => Len(part) <= there - last
      BY <2>1 DEF Short
    <3>2. there \in Nat /\ last \in Nat
      BY <2>1
    <3>. HIDE DEF b, part, there
    <3>. QED BY <2>3, <2>6, <3>1, <3>2
  <2>8. Before(b, g, gives, next, V, N, there)
    <3>. HIDE DEF b
    <3>. QED BY <2>6, <2>7 DEF Before
  <2>9. there \in places
    <3>. HIDE DEF b
    <3>. QED BY <2>1, <2>8
  <2>. QED BY <1>3, <2>1, <2>9
<1>5. last \in 1..k /\ reached(last)
  BY <1>3
<1>6. last \in 1..N /\ next[last] \in (last + 1)..(N + 1)
  BY <1>5
<1>7. k < next[last]
  BY <1>4, <1>6
<1>. QED BY <1>5, <1>7

(* The passes that drop lines leave the first line of a paragraph, and the *)
(* blank line before it.                                                   *)
Opening(doc, line) == doc \in Docs /\ Begins(doc, line)

LEMMA KeepOpening ==
  ASSUME NEW doc, NEW line, Opening(doc, line), NEW places,
         \A n \in 1..Len(doc) : doc[n] = line \/ doc[n] = Blank => n \in places
  PROVE  Opening(Keep(doc, places), line)
BY KeepBegins DEF Opening

LEMMA ProseKinds ==
  ASSUME NEW line \in Line, IsProse(line)
  PROVE  /\ \A kind : kind # "prose" => ~OfKind(line, kind)
         /\ Kind[line.words[1]] = "prose" /\ Head(line.words) = line.words[1]
         /\ ~IsUiControlLine(line)
<1>. DEFINE words == line.words
<1>1. /\ words \in Seq(Words) /\ Len(words) >= 1 /\ DOMAIN words = 1..Len(words) /\ Len(words) \in Nat
      /\ \A n \in 1..Len(words) : Kind[words[n]] = "prose"
  BY ProseIs
<1>. HIDE DEF words
<1>2. Kind[words[1]] = "prose" /\ Head(words) = words[1]
  BY <1>1
<1>3. ~\E n \in DOMAIN words : Kind[words[n]] = "control"
  BY <1>1
<1>. QED BY <1>2, <1>3 DEF OfKind, IsUiControlLine, words

LEMMA BlankKinds ==
  /\ \A kind : ~OfKind(Blank, kind)
  /\ ~IsUiControlLine(Blank) /\ Blank.words = <<>> /\ Len(Blank.words) = 0 /\ DOMAIN Blank.words = {}
BY DEF Blank, OfKind, IsUiControlLine

LEMMA WithoutOpening ==
  ASSUME NEW line \in Line, IsProse(line), NEW doc, Opening(doc, line), NEW kind, kind # "prose"
  PROVE  Opening(Without(doc, kind), line) /\ Opening(WithoutOutside(doc, kind), line)
<1>1. DOMAIN doc = 1..Len(doc)
  BY DocIs DEF Opening
<1>2. ~OfKind(line, kind) /\ ~OfKind(Blank, kind)
  BY ProseKinds, BlankKinds
<1>3. Opening(Without(doc, kind), line)
  <2>. DEFINE places == {n \in DOMAIN doc : ~OfKind(doc[n], kind)}
  <2>1. \A n \in 1..Len(doc) : doc[n] = line \/ doc[n] = Blank => n \in places
    BY <1>1, <1>2
  <2>. HIDE DEF places
  <2>. QED BY <2>1, KeepOpening DEF Without, places
<1>4. Opening(WithoutOutside(doc, kind), line)
  <2>. DEFINE places == {n \in DOMAIN doc : Outside(doc, n) => ~OfKind(doc[n], kind)}
  <2>1. \A n \in 1..Len(doc) : doc[n] = line \/ doc[n] = Blank => n \in places
    BY <1>1, <1>2
  <2>. HIDE DEF places
  <2>. QED BY <2>1, KeepOpening DEF WithoutOutside, places
<1>. QED BY <1>3, <1>4

LEMMA ControlsOpening ==
  ASSUME NEW line \in Line, IsProse(line), NEW doc, Opening(doc, line)
  PROVE  Opening(StripUiControlText(doc), line)
<1>. DEFINE places == {n \in DOMAIN doc : ~IsUiControlLine(doc[n])}
<1>1. \A n \in 1..Len(doc) : doc[n] = line \/ doc[n] = Blank => n \in places
  BY DocIs, ProseKinds, BlankKinds DEF Opening
<1>. HIDE DEF places
<1>. QED BY <1>1, KeepOpening DEF StripUiControlText, places

LEMMA NumbersOpening ==
  ASSUME NEW line \in Line, IsProse(line), NEW doc, Opening(doc, line)
  PROVE  Opening(StripBareNumberLines(doc), line)
<1>. DEFINE places == {n \in DOMAIN doc : ~(Outside(doc, n) /\ OfKind(doc[n], "number") /\ IsIsolated(doc, n))}
<1>1. \A n \in 1..Len(doc) : doc[n] = line \/ doc[n] = Blank => n \in places
  BY DocIs, ProseKinds, BlankKinds DEF Opening
<1>. HIDE DEF places
<1>. QED BY <1>1, KeepOpening DEF StripBareNumberLines, places

LEMMA DescriptionsOpening ==
  ASSUME NEW line \in Line, IsProse(line), NEW doc, Opening(doc, line)
  PROVE  Opening(DedupAdjacentDescriptions(doc), line)
<1>. DEFINE Repeats(n) ==
        /\ n > 1 /\ Len(doc) >= 3 /\ doc[n].mark = "text" /\ doc[n].words # <<>>
        /\ Kind[Head(doc[n].words)] = "more"
        /\ LET rest == Tail(doc[n].words)
           IN  /\ Size([mark |-> "text", words |-> rest]) > 15
               /\ \E k \in DOMAIN doc[n - 1].words :
                    SubSeq(doc[n - 1].words, k, Min({k + Len(rest) - 1, Len(doc[n - 1].words)})) = rest
            Before_(n) == Max({m \in 0..n : ~Repeats(m)})
            places == {n \in DOMAIN doc : ~(Repeats(n) /\ (n - Before_(n)) % 2 = 1)}
<1>1. \A n \in 1..Len(doc) : Repeats(n) => doc[n].words # <<>> /\ Kind[Head(doc[n].words)] = "more"
  OBVIOUS
<1>2. DedupAdjacentDescriptions(doc) = Keep(doc, places)
  BY DEF DedupAdjacentDescriptions
<1>. HIDE DEF Repeats
<1>3. \A n \in 1..Len(doc) : doc[n] = line \/ doc[n] = Blank => ~Repeats(n)
  BY <1>1, ProseKinds, BlankKinds
<1>4. \A n \in 1..Len(doc) : doc[n] = line \/ doc[n] = Blank => n \in places
  BY <1>3, DocIs DEF Opening
<1>. HIDE DEF places
<1>. QED BY <1>2, <1>4, KeepOpening

LEMMA EmptyHeadingsOpening ==
  ASSUME NEW line \in Line, IsProse(line), NEW doc, Opening(doc, line)
  PROVE  Opening(StripEmptyHeadings(doc), line)
<1>. DEFINE empty(n) == \/ Key(doc[n].words) = <<>>
                        \/ Len(doc[n].words) = 1 /\ Kind[doc[n].words[1]] = "section"
            places == {n \in DOMAIN doc : ~(IsHeading(doc[n]) /\ empty(n))}
<1>1. \A n \in 1..Len(doc) : doc[n] = line \/ doc[n] = Blank => n \in places
  <2>. HIDE DEF empty
  <2>. QED BY DocIs, ProseIs, BlankIs DEF Opening
<1>2. StripEmptyHeadings(doc) = Keep(doc, places)
  BY DEF StripEmptyHeadings
<1>. HIDE DEF places
<1>. QED BY <1>1, <1>2, KeepOpening

(* What is taken from the words of a line takes nothing from prose. *)
LEMMA ProseWords ==
  ASSUME NEW line \in Line, IsProse(line)
  PROVE  BeforeScript(line.words) = line.words /\ WithoutChrome(line.words) = line.words
         /\ WithoutClasses(line.words) = line.words /\ Having(line, line.words) = line
<1>. DEFINE words == line.words
<1>1. /\ words \in Seq(Words) /\ Len(words) >= 1 /\ DOMAIN words = 1..Len(words) /\ Len(words) \in Nat
      /\ \A n \in 1..Len(words) : Kind[words[n]] = "prose"
  BY ProseIs
<1>2. Having(line, words) = line
  BY ProseIs, LineIs DEF Having
<1>. HIDE DEF words
<1>3. BeforeScript(words) = words
  <2>1. {n \in DOMAIN words : Kind[words[n]] = "script"} = {}
    BY <1>1
  <2>. QED BY <2>1 DEF BeforeScript
<1>4. WithoutChrome(words) = words
  <2>. DEFINE places == {n \in DOMAIN words : Kind[words[n]] # "chrome"}
  <2>1. 1..Len(words) \subseteq places
    BY <1>1
  <2>. HIDE DEF places
  <2>2. Keep(words, places) = words
    BY <1>1, <2>1, KeepAll
  <2>. QED BY <2>2 DEF WithoutChrome, places
<1>5. WithoutClasses(words) = words
  <2>. DEFINE content == {n \in DOMAIN words : Kind[words[n]] # "class"}
              last == IF content = {} THEN 0 ELSE Max(content)
  <2>1. content = 1..Len(words)
    BY <1>1
  <2>. HIDE DEF content
  <2>2. content \in SUBSET (0..Len(words)) /\ content # {}
    BY <1>1, <2>1
  <2>3. last \in content /\ \A k \in content : k <= last
    BY <1>1, <2>2, MaxIs
  <2>4. last = Len(words)
    <3>. HIDE DEF last
    <3>1. Len(words) \in content /\ last \in 1..Len(words)
      BY <1>1, <2>1, <2>3
    <3>2. Len(words) <= last
      BY <2>3, <3>1
    <3>3. last \in Nat /\ last <= Len(words) /\ Len(words) \in Nat
      BY <1>1, <3>1
    <3>. QED BY ONLY <3>2, <3>3
  <2>5. WithoutClasses(words) = IF Len(words) >= 3 /\ Len(words) - last >= 2 THEN SubSeq(words, 1, last) ELSE words
    BY DEF WithoutClasses, content
  <2>. HIDE DEF last
  <2>. QED BY <1>1, <2>4, <2>5
<1>. QED BY <1>2, <1>3, <1>4, <1>5 DEF words

LEMMA BlankWords ==
  /\ Having(Blank, BeforeScript(Blank.words)) = Blank /\ Having(Blank, WithoutChrome(Blank.words)) = Blank
  /\ Having(Blank, WithoutClasses(Blank.words)) = Blank
<1>1. Blank.words = <<>> /\ <<>> \in Seq(Words) /\ Len(<<>>) = 0 /\ DOMAIN <<>> = {} /\ Blank \in Line /\ Blank.mark = "text"
  BY BlankIs
<1>2. Having(Blank, <<>>) = Blank
  BY <1>1, LineIs DEF Having, Blank
<1>3. BeforeScript(<<>>) = <<>>
  <2>1. {n \in DOMAIN <<>> : Kind[<<>>[n]] = "script"} = {}
    BY <1>1
  <2>. QED BY <2>1 DEF BeforeScript
<1>4. WithoutChrome(<<>>) = <<>>
  <2>1. 1..Len(<<>>) = {}
    BY <1>1
  <2>2. \A places : Keep(<<>>, places) = <<>>
    BY <1>1, <2>1, KeepAll
  <2>. QED BY <2>2 DEF WithoutChrome
<1>5. WithoutClasses(<<>>) = <<>>
  BY <1>1 DEF WithoutClasses
<1>. QED BY <1>1, <1>2, <1>3, <1>4, <1>5

LEMMA LeakedJsAt ==
  ASSUME NEW line \in Line, IsProse(line), NEW doc \in Docs, NEW n, At(doc, n, line)
  PROVE  StripLeakedJs(doc) \in Docs /\ At(StripLeakedJs(doc), n, line)
<1>. DEFINE put(m) == IF Outside(doc, m) /\ ~IsFence(doc[m])
                      THEN Having(doc[m], BeforeScript(doc[m].words)) ELSE doc[m]
            out == [m \in 1..Len(doc) |-> put(m)]
<1>0. DOMAIN doc = 1..Len(doc) /\ (\A m \in 1..Len(doc) : doc[m] \in Line) /\ n \in 1..Len(doc) /\ doc[n] = line
  BY DocIs DEF At
<1>1. \A m \in 1..Len(doc) : put(m) \in Line
  BY <1>0, LineIs, BeforeScriptIs, HavingPart
<1>2. out \in [1..Len(doc) -> Line]
  <2>. HIDE DEF put
  <2>. QED BY <1>1
<1>3. StripLeakedJs(doc) = Lines(out)
  BY <1>0 DEF StripLeakedJs
<1>4. \A m \in 1..Len(doc) : (doc[m] = line => put(m) = line) /\ (doc[m] = Blank => put(m) = Blank)
  BY ProseWords, BlankWords
<1>. HIDE DEF put
<1>5. out[n] = line /\ \A m \in 1..Len(doc) : doc[m] = Blank => out[m] = Blank
  BY <1>0, <1>4
<1>. HIDE DEF out
<1>. QED BY <1>2, <1>3, <1>5, LinesAt

LEMMA ChromeAt ==
  ASSUME NEW line \in Line, IsProse(line), NEW doc \in Docs, NEW n, At(doc, n, line)
  PROVE  StripA11yLinkChrome(doc) \in Docs /\ At(StripA11yLinkChrome(doc), n, line)
<1>. DEFINE put(m) == IF Outside(doc, m) /\ ~IsFence(doc[m])
                      THEN Having(doc[m], WithoutChrome(doc[m].words)) ELSE doc[m]
            out == [m \in 1..Len(doc) |-> put(m)]
<1>0. DOMAIN doc = 1..Len(doc) /\ (\A m \in 1..Len(doc) : doc[m] \in Line) /\ n \in 1..Len(doc) /\ doc[n] = line
  BY DocIs DEF At
<1>1. \A m \in 1..Len(doc) : put(m) \in Line
  BY <1>0, LineIs, WithoutChromeIs, HavingPart
<1>2. out \in [1..Len(doc) -> Line]
  <2>. HIDE DEF put
  <2>. QED BY <1>1
<1>3. StripA11yLinkChrome(doc) = Lines(out)
  BY <1>0 DEF StripA11yLinkChrome
<1>4. \A m \in 1..Len(doc) : (doc[m] = line => put(m) = line) /\ (doc[m] = Blank => put(m) = Blank)
  BY ProseWords, BlankWords
<1>. HIDE DEF put
<1>5. out[n] = line /\ \A m \in 1..Len(doc) : doc[m] = Blank => out[m] = Blank
  BY <1>0, <1>4
<1>. HIDE DEF out
<1>. QED BY <1>2, <1>3, <1>5, LinesAt

LEMMA ClassesOpening ==
  ASSUME NEW line \in Line, IsProse(line), NEW doc, Opening(doc, line)
  PROVE  Opening(StripCssClassLines(doc), line)
<1>. DEFINE item == [mark |-> "-", words |-> <<>>]
            places == {n \in DOMAIN doc : Outside(doc, n) => ~MostlyClasses(doc[n]) /\ doc[n] # item}
            lines == Keep(doc, places)
            put(m) == IF Outside(lines, m) /\ lines[m].mark \in {"text", "list"}
                      THEN Having(lines[m], WithoutClasses(lines[m].words)) ELSE lines[m]
            out == [m \in 1..Len(lines) |-> put(m)]
<1>1. ~MostlyClasses(line) /\ ~MostlyClasses(Blank) /\ line # item /\ Blank # item
  <2>1. Len(line.words) \in Nat /\ Len(line.words) >= 1 /\ line.mark = "text"
        /\ {n \in DOMAIN line.words : Kind[line.words[n]] = "class"} = {}
    BY ProseIs
  <2>2. ~MostlyClasses(line)
    <3>1. Cardinality({n \in DOMAIN line.words : Kind[line.words[n]] = "class"}) = 0
      BY <2>1, FS_EmptySet
    <3>2. ~(2 * 0 > Len(line.words))
      BY <2>1
    <3>. QED BY <3>1, <3>2 DEF MostlyClasses
  <2>3. ~MostlyClasses(Blank)
    BY BlankKinds DEF MostlyClasses
  <2>4. Blank.mark = "text" /\ item.mark = "-"
    BY BlankIs
  <2>. QED BY <2>1, <2>2, <2>3, <2>4
<1>2. Opening(lines, line)
  <2>. HIDE DEF item
  <2>1. \A n \in 1..Len(doc) : doc[n] = line \/ doc[n] = Blank => n \in places
    BY <1>1, DocIs DEF Opening
  <2>. HIDE DEF places
  <2>. QED BY <2>1, KeepOpening
<1>3. StripCssClassLines(doc) = Lines([m \in DOMAIN lines |-> put(m)])
  BY DEF StripCssClassLines
<1>. HIDE DEF lines
<1>4. PICK n : At(lines, n, line)
  BY <1>2 DEF Opening, Begins
<1>5. lines \in Docs /\ DOMAIN lines = 1..Len(lines) /\ (\A m \in 1..Len(lines) : lines[m] \in Line) /\ n \in 1..Len(lines) /\ lines[n] = line
  BY <1>2, <1>4, DocIs DEF At, Opening
<1>6. \A m \in 1..Len(lines) : put(m) \in Line
  BY <1>5, LineIs, WithoutClassesIs, HavingPart
<1>7. \A m \in 1..Len(lines) : (lines[m] = line => put(m) = line) /\ (lines[m] = Blank => put(m) = Blank)
  BY ProseWords, BlankWords
<1>. HIDE DEF put
<1>8. out \in [1..Len(lines) -> Line] /\ out[n] = line /\ \A m \in 1..Len(lines) : lines[m] = Blank => out[m] = Blank
  BY <1>5, <1>6, <1>7
<1>9. StripCssClassLines(doc) = Lines(out)
  BY <1>3, <1>5
<1>. HIDE DEF out
<1>10. StripCssClassLines(doc) \in Docs /\ At(StripCssClassLines(doc), n, line)
  BY <1>4, <1>5, <1>8, <1>9, LinesAt
<1>. QED BY <1>10 DEF Opening, Begins

(* Of the blank lines before a paragraph one stays, or none if nothing is  *)
(* before them.                                                            *)
LEMMA WhitespaceOpening ==
  ASSUME NEW line \in Line, IsProse(line), NEW doc, Opening(doc, line)
  PROVE  Opening(CollapseWhitespace(doc), line)
<1>. DEFINE places == {n \in DOMAIN doc : doc[n] = Blank => n > 1 /\ doc[n - 1] # Blank /\ NextLine(doc, n) # 0}
            out == Keep(doc, places)
<1>1. doc \in Docs /\ Len(doc) \in Nat /\ DOMAIN doc = 1..Len(doc)
  BY DocIs DEF Opening
<1>2. PICK n : At(doc, n, line)
  BY DEF Opening, Begins
<1>3. n \in 1..Len(doc) /\ doc[n] = line /\ (n = 1 \/ doc[n - 1] = Blank) /\ line # Blank
  BY <1>2, ProseIs DEF At
<1>4. n \in places
  BY <1>1, <1>3
<1>5. \A m \in 1..(n - 1) : doc[m] = Blank => NextLine(doc, m) # 0
  <2>. SUFFICES ASSUME NEW m \in 1..(n - 1) PROVE NextLine(doc, m) # 0
    OBVIOUS
  <2>. DEFINE later == {j \in m..Len(doc) : doc[j] # Blank}
  <2>1. later \in SUBSET Nat /\ n \in later
    BY <1>1, <1>3
  <2>2. NextLine(doc, m) = IF later = {} THEN 0 ELSE Min(later)
    BY DEF NextLine
  <2>3. \A j \in later : j # 0
    BY <1>1, <1>3
  <2>. HIDE DEF later
  <2>4. Min(later) \in later /\ later # {}
    BY <2>1, MinIs
  <2>. QED BY <2>2, <2>3, <2>4
<1>6. \A m \in 2..(n - 1) : doc[m] = Blank => (m \in places <=> doc[m - 1] # Blank)
  BY <1>1, <1>3, <1>5
<1>7. doc[1] = Blank => 1 \notin places
  BY <1>1
<1>8. CollapseWhitespace(doc) = out
  BY DEF CollapseWhitespace
<1>. HIDE DEF places
<1>9. out \in Docs /\ \E at : Placed(at, doc, places, out)
  BY <1>1, KeepPlaced DEF Docs
<1>10. PICK at : Placed(at, doc, places, out)
  BY <1>9
<1>. HIDE DEF out
<1>11. /\ at[0] = 0 /\ at \in [0..Len(doc) -> Nat]
       /\ \A m \in 1..Len(doc) : at[m] = IF m \in places THEN at[m - 1] + 1 ELSE at[m - 1]
       /\ \A m \in 1..Len(doc) : m \in places => at[m] \in 1..Len(out) /\ out[at[m]] = doc[m]
  BY <1>10 DEF Placed
<1>. DEFINE blank(m) == at[m] = 0 \/ (at[m] \in 1..Len(out) /\ out[at[m]] = Blank)
            T == {m \in Nat : m < n /\ (m = 0 \/ doc[m] = Blank) => blank(m)}
<1>12. 0 \in T
  BY <1>11
<1>13. ASSUME NEW m \in Nat, m \in T PROVE m + 1 \in T
  <2>. SUFFICES ASSUME m + 1 < n, doc[m + 1] = Blank PROVE blank(m + 1)
    OBVIOUS
  <2>1. m + 1 \in 1..Len(doc) /\ (m + 1) - 1 = m /\ m < n
    BY <1>1, <1>3
  <2>2. CASE m + 1 \in places
    BY <1>11, <2>1, <2>2
  <2>3. CASE m + 1 \notin places
    <3>1. m = 0 \/ doc[m] = Blank
      <4>1. CASE m = 0
        BY <4>1
      <4>2. CASE m # 0
        <5>1. m + 1 \in 2..(n - 1)
          BY <1>3, <2>1, <4>2
        <5>. QED BY <1>6, <2>1, <2>3, <5>1
      <4>. QED BY <4>1, <4>2
    <3>2. blank(m)
      <4>. HIDE DEF blank
      <4>. QED BY <1>13, <2>1, <3>1
    <3>3. at[m + 1] = at[m]
      BY <1>11, <2>1, <2>3
    <3>. QED BY <3>2, <3>3
  <2>. QED BY <2>2, <2>3
<1>14. blank(n - 1)
  <2>1. n - 1 \in Nat /\ n - 1 < n /\ (n - 1 = 0 \/ doc[n - 1] = Blank)
    BY <1>3
  <2>. HIDE DEF blank
  <2>2. T = {m \in Nat : m < n /\ (m = 0 \/ doc[m] = Blank) => blank(m)}
    OBVIOUS
  <2>. HIDE DEF T
  <2>3. n - 1 \in T
    BY <1>12, <1>13, <2>1, SetInduction
  <2>. QED BY <2>1, <2>2, <2>3
<1>15. at[n] = at[n - 1] + 1 /\ at[n] \in 1..Len(out) /\ out[at[n]] = line /\ at[n - 1] \in Nat
  <2>1. n - 1 \in 0..Len(doc)
    BY <1>1, <1>3
  <2>. QED BY <1>3, <1>4, <1>11, <2>1
<1>16. At(out, at[n], line)
  <2>1. at[n] - 1 = at[n - 1]
    BY <1>15
  <2>. QED BY <1>14, <1>15, <2>1 DEF At
<1>. QED BY <1>8, <1>9, <1>16 DEF Opening, Begins

(* What a walk gives at a place it comes to. *)
LEMMA AtWalk ==
  ASSUME NEW a \in Docs, NEW rest \in Docs, NEW line \in Line
  PROVE  /\ At(<<line>> \o rest, 1, line)
         /\ At(a \o (<<Blank>> \o (<<line>> \o rest)), Len(a) + 2, line)
<1>. DEFINE blank == <<Blank>>
            one == <<line>>
<1>1. /\ blank \in Docs /\ Len(blank) = 1 /\ blank[1] = Blank
      /\ one \in Docs /\ Len(one) = 1 /\ one[1] = line
  BY OneIs, BlankIs DEF Docs
<1>. HIDE DEF blank, one
<1>. DEFINE b == one \o rest
            c == blank \o b
            d == a \o c
<1>2. b \in Docs /\ Len(b) = Len(rest) + 1 /\ b[1] = line /\ Len(rest) \in Nat
  BY <1>1, ConcatIs DEF Docs
<1>. HIDE DEF b
<1>3. c \in Docs /\ Len(c) = Len(b) + 1 /\ c[1] = Blank /\ c[2] = line
  <2>1. /\ c \in Docs /\ Len(c) = Len(blank) + Len(b)
        /\ (\A k \in 1..Len(blank) : c[k] = blank[k]) /\ \A k \in 1..Len(b) : c[Len(blank) + k] = b[k]
    <3>1. blank \in Seq(Line) /\ b \in Seq(Line)
      BY <1>1, <1>2 DEF Docs
    <3>. QED BY <3>1, ConcatIs DEF Docs
  <2>2. 1 \in 1..Len(blank) /\ 1 \in 1..Len(b) /\ Len(blank) + 1 = 2 /\ Len(blank) + Len(b) = Len(b) + 1
    BY <1>1, <1>2
  <2>. HIDE DEF c
  <2>. QED BY <1>1, <1>2, <2>1, <2>2
<1>. HIDE DEF c
<1>4. /\ d \in Docs /\ Len(d) = Len(a) + Len(c) /\ Len(a) \in Nat
      /\ d[Len(a) + 1] = Blank /\ d[Len(a) + 2] = line
  <2>1. d \in Docs /\ Len(d) = Len(a) + Len(c) /\ Len(a) \in Nat /\ \A n \in 1..Len(c) : d[Len(a) + n] = c[n]
    <3>1. a \in Seq(Line) /\ c \in Seq(Line)
      BY <1>3 DEF Docs
    <3>. QED BY <3>1, ConcatIs DEF Docs
  <2>2. 1 \in 1..Len(c) /\ 2 \in 1..Len(c)
    BY <1>2, <1>3
  <2>. HIDE DEF d
  <2>. QED BY <1>3, <2>1, <2>2
<1>. HIDE DEF d
<1>5. At(b, 1, line)
  BY <1>2 DEF At
<1>6. At(d, Len(a) + 2, line)
  <2>1. Len(a) + 2 \in 1..Len(d) /\ Len(a) + 2 - 1 = Len(a) + 1
    BY <1>2, <1>3, <1>4
  <2>. QED BY <1>4, <2>1 DEF At
<1>. QED BY <1>5, <1>6 DEF b, c, d, blank, one

LEMMA WalkBegins ==
  ASSUME NEW N \in Nat, NEW gives \in [1..N -> Docs], NEW next,
         \A n \in 1..N : next[n] \in (n + 1)..(N + 1), NEW g, Walks(g, gives, next, Line, N),
         NEW line \in Line, NEW n \in 1..N, gives[n] = <<line>>,
         \/ n = 1
         \/ /\ n - 1 \in 1..N /\ gives[n - 1] = <<Blank>> /\ next[n - 1] = n
            /\ \E a : Before(a, g, gives, next, Line, N, n - 1)
  PROVE  Begins(g[1], line)
<1>. DEFINE rest == g[next[n]]
<1>1. /\ rest \in Docs /\ g[n] = <<line>> \o rest
  <2>1. next[n] \in 1..(N + 1) /\ g \in [1..(N + 1) -> Docs] /\ g[n] = gives[n] \o g[next[n]]
    <3>1. next[n] \in (n + 1)..(N + 1)
      OBVIOUS
    <3>2. next[n] \in 1..(N + 1)
      BY <3>1
    <3>. QED BY <3>2 DEF Walks, Docs
  <2>. QED BY <2>1
<1>. HIDE DEF rest
<1>2. CASE n = 1
  <2>1. g[1] = <<line>> \o rest
    BY <1>1, <1>2
  <2>2. At(g[1], 1, line)
    <3>. DEFINE none == <<>>
    <3>1. none \in Docs
      BY NoneIs
    <3>. HIDE DEF none
    <3>. QED BY <1>1, <2>1, <3>1, AtWalk
  <2>. QED BY <2>2 DEF Begins
<1>3. CASE n # 1
  <2>1. n - 1 \in 1..N /\ gives[n - 1] = <<Blank>> /\ next[n - 1] = n
    BY <1>3
  <2>2. PICK a : Before(a, g, gives, next, Line, N, n - 1)
    BY <1>3
  <2>3. a \in Docs /\ g[1] = a \o g[n - 1]
    BY <2>2 DEF Before, Docs
  <2>4. g[n - 1] = <<Blank>> \o g[n]
    BY <2>1 DEF Walks
  <2>5. g[1] = a \o (<<Blank>> \o (<<line>> \o rest))
    BY ONLY <1>1, <2>3, <2>4
  <2>6. At(g[1], Len(a) + 2, line)
    BY <1>1, <2>3, <2>5, AtWalk
  <2>. QED BY <2>6 DEF Begins
<1>. QED BY <1>2, <1>3

LEMMA WalkGives ==
  ASSUME NEW V, NEW N \in Nat, NEW gives \in [1..N -> Seq(V)], NEW next,
         \A n \in 1..N : next[n] \in (n + 1)..(N + 1), NEW g, Walks(g, gives, next, V, N),
         NEW m \in 1..N, NEW a, Before(a, g, gives, next, V, N, m)
  PROVE  \A e \in Range(gives[m]) : e \in Range(g[1])
<1>. DEFINE part == gives[m]
            rest == g[next[m]]
            both == part \o rest
<1>1. a \in Seq(V) /\ g[1] = a \o g[m]
  BY DEF Before
<1>2. part \in Seq(V) /\ rest \in Seq(V) /\ g[m] = both
  <2>1. next[m] \in (m + 1)..(N + 1)
    OBVIOUS
  <2>2. next[m] \in 1..(N + 1)
    BY <2>1
  <2>. QED BY <2>2 DEF Walks
<1>. HIDE DEF part, rest
<1>3. both \in Seq(V) /\ Range(both) = Range(part) \cup Range(rest)
  BY <1>2, ConcatRange, ConcatIs
<1>. HIDE DEF both
<1>4. Range(a \o both) = Range(a) \cup Range(both)
  BY <1>1, <1>3, ConcatRange
<1>. QED BY <1>1, <1>2, <1>3, <1>4 DEF part

(* A paragraph that no row of images takes in. *)
LEMMA LogoImagesOpening ==
  ASSUME NEW line \in Line, IsProse(line), NEW doc \in Docs, NEW n, At(doc, n, line),
         \A m \in 1..(n - 1) : doc[m].mark = "image" => \E k \in m..(n - 1) : doc[k] # Blank /\ doc[k].mark # "image"
  PROVE  Opening(CollapseLogoImages(doc), line)
<1>. DEFINE N == Len(doc)
<1>1. PICK gives, next : CollapseLogoImages(doc) = Walked(gives, next) /\ ImageWalk(gives, next, doc)
  BY LogoImagesWalk
<1>2. /\ gives \in [1..N -> Docs] /\ \A m \in 1..N : next[m] \in (m + 1)..(N + 1)
      /\ \A m \in 1..N : doc[m].mark # "image" => gives[m] = <<doc[m]>> /\ next[m] = m + 1
      /\ \A m \in 1..N, k \in 1..N :
           doc[m].mark = "image" /\ m <= k /\ doc[k] # Blank /\ doc[k].mark # "image" => next[m] <= k
  BY <1>1 DEF ImageWalk
<1>3. Walked(gives, next) \in Docs
  BY <1>1, WalkedSub DEF ImageWalk
<1>4. N \in Nat /\ n \in 1..N /\ doc[n] = line /\ (n = 1 \/ doc[n - 1] = Blank) /\ line.mark # "image" /\ Blank.mark # "image"
  BY DocIs, ProseIs, BlankIs DEF At
<1>. HIDE DEF N
<1>5. IsWalk(Walked(gives, next), gives, next, Line, N)
  BY <1>2, <1>4, WalkedIs DEF Docs
<1>6. PICK g : Walks(g, gives, next, Line, N) /\ Walked(gives, next) = g[1]
  BY <1>5 DEF IsWalk
<1>7. gives[n] = <<line>>
  BY <1>2, <1>4
<1>8. n # 1 => /\ n - 1 \in 1..N /\ gives[n - 1] = <<Blank>> /\ next[n - 1] = n
               /\ \E a : Before(a, g, gives, next, Line, N, n - 1)
  <2>. SUFFICES ASSUME n # 1
                PROVE  /\ n - 1 \in 1..N /\ gives[n - 1] = <<Blank>> /\ next[n - 1] = n
                       /\ \E a : Before(a, g, gives, next, Line, N, n - 1)
    OBVIOUS
  <2>1. n - 1 \in 1..N /\ doc[n - 1] = Blank /\ (n - 1) + 1 = n
    BY <1>4
  <2>2. gives[n - 1] = <<Blank>> /\ next[n - 1] = n
    BY <1>2, <1>4, <2>1
  <2>3. ASSUME NEW m \in 1..(n - 2) PROVE next[m] < n
    <3>1. m \in 1..N /\ m \in 1..(n - 1) /\ next[m] \in Nat
      BY <1>2, <1>4
    <3>2. CASE doc[m].mark # "image"
      BY <1>2, <1>4, <3>1, <3>2
    <3>3. CASE doc[m].mark = "image"
      <4>1. PICK k \in m..(n - 1) : doc[k] # Blank /\ doc[k].mark # "image"
        BY <3>1, <3>3
      <4>2. k \in 1..N /\ m <= k
        BY <1>4, <3>1
      <4>3. next[m] <= k
        BY <1>2, <3>1, <3>3, <4>1, <4>2
      <4>. QED BY <1>4, <3>1, <4>1, <4>3
    <3>. QED BY <3>2, <3>3
  <2>4. \E m \in 1..(n - 1) : n - 1 < next[m] /\ \E a : Before(a, g, gives, next, Line, N, m)
    BY <1>2, <1>4, <1>6, <2>1, WalkCovers DEF Docs
  <2>5. PICK m \in 1..(n - 1) : n - 1 < next[m] /\ \E a : Before(a, g, gives, next, Line, N, m)
    BY <2>4
  <2>6. m = n - 1
    <3>1. m \in 1..N /\ next[m] \in (m + 1)..(N + 1)
      BY <1>2, <1>4, <2>1, <2>5
    <3>2. m \notin 1..(n - 2)
      BY <1>4, <2>3, <2>5, <3>1
    <3>. QED BY <1>4, <2>5, <3>2
  <2>. QED BY <2>1, <2>2, <2>5, <2>6
<1>9. Begins(g[1], line)
  BY <1>2, <1>4, <1>6, <1>7, <1>8, WalkBegins
<1>. QED BY <1>1, <1>3, <1>6, <1>9 DEF Opening

(* The paragraphs of the page that open before Restated still do. *)
LEMMA UnlinkedOpening ==
  ASSUME NEW doc \in Docs, NEW n \in 1..Len(doc), Opens(doc, n)
  PROVE  doc[n] \in Line /\ IsProse(doc[n]) /\ Opening(Unlinked(doc), doc[n])
<1>. DEFINE line == doc[n]
            a == StripLeakedJs(doc)
            b == StripA11yLinkChrome(a)
            c == CollapseLogoImages(b)
            d == StripAltTextNoise(StripBareImageRefs(c))
            e == StripCssArtifacts(StripLongAltDescriptions(StripUiControlText(d)))
<1>1. line \in Line /\ IsProse(line) /\ At(doc, n, line)
  BY DocIs DEF Opens, At
<1>2. \A m \in 1..(n - 1) : b[m].mark = "image" => \E k \in m..(n - 1) : b[k] # Blank /\ b[k].mark # "image"
  BY DEF Opens
<1>. HIDE DEF line
<1>3. a \in Docs /\ At(a, n, line)
  BY <1>1, LeakedJsAt
<1>. HIDE DEF a
<1>4. b \in Docs /\ At(b, n, line)
  BY <1>1, <1>3, ChromeAt
<1>. HIDE DEF b
<1>5. Opening(c, line)
  BY <1>1, <1>2, <1>4, LogoImagesOpening
<1>. HIDE DEF c
<1>6. Opening(d, line)
  <2>. DEFINE one == StripBareImageRefs(c)
  <2>1. Opening(one, line)
    BY <1>1, <1>5, WithoutOpening DEF StripBareImageRefs
  <2>. HIDE DEF one
  <2>2. Opening(StripAltTextNoise(one), line)
    BY <1>1, <2>1, WithoutOpening DEF StripAltTextNoise
  <2>. QED BY <2>2 DEF one
<1>. HIDE DEF d
<1>7. Opening(e, line)
  <2>. DEFINE one == StripUiControlText(d)
              two == StripLongAltDescriptions(one)
  <2>1. Opening(one, line)
    BY <1>1, <1>6, ControlsOpening
  <2>. HIDE DEF one
  <2>2. Opening(two, line)
    BY <1>1, <2>1, WithoutOpening DEF StripLongAltDescriptions
  <2>. HIDE DEF two
  <2>3. Opening(StripCssArtifacts(two), line)
    BY <1>1, <2>2, WithoutOpening DEF StripCssArtifacts
  <2>. QED BY <2>3 DEF one, two
<1>8. Unlinked(doc) = DedupAdjacentDescriptions(e)
  BY DEF Unlinked, e, d, c, b, a
<1>. HIDE DEF e
<1>9. Opening(DedupAdjacentDescriptions(e), line)
  BY <1>1, <1>7, DescriptionsOpening
<1>. QED BY <1>1, <1>8, <1>9 DEF line

-----------------------------------------------------------------------------
(* No blank line goes with a repeated heading. *)
LEMMA FollowingIs ==
  ASSUME NEW doc \in Docs, NEW n \in 1..Len(doc)
  PROVE  \A m \in Following(doc, n) : doc[m] # Blank
<1>. DEFINE first == LineAfter(doc, n)
            ends(m) == doc[m] = Blank \/ IsHeading(doc[m])
            end == {m \in first..Len(doc) : ends(m)}
            last == IF end = {} THEN Len(doc) + 1 ELSE Min(end)
<1>1. Following(doc, n) = IF first = 0 THEN {} ELSE first..(last - 1)
  BY DEF Following
<1>2. first \in Nat /\ Len(doc) \in Nat
  BY LineAfterIs, DocIs
<1>. HIDE DEF first
<1>3. ASSUME NEW m \in first..(last - 1) PROVE ~ends(m)
  <2>1. CASE end = {}
    <3>1. m \in first..Len(doc)
      BY <1>2, <2>1
    <3>. QED BY <2>1, <3>1
  <2>2. CASE end # {}
    <3>. HIDE DEF ends
    <3>1. end \in SUBSET Nat
      BY <1>2
    <3>. HIDE DEF end
    <3>2. Min(end) \in end /\ \A k \in end : Min(end) <= k
      BY <2>2, <3>1, MinIs
    <3>3. last = Min(end) /\ Min(end) \in Nat
      BY <2>2, <3>1, <3>2
    <3>. HIDE DEF last
    <3>4. m \notin end
      BY <1>2, <3>2, <3>3
    <3>5. Min(end) <= Len(doc)
      BY <1>2, <3>2 DEF end
    <3>6. m \in first..Len(doc)
      BY <1>2, <3>3, <3>5
    <3>. QED BY <3>4, <3>6 DEF end
  <2>. QED BY <2>1, <2>2
<1>4. \A m \in first..(last - 1) : doc[m] # Blank
  BY <1>3
<1>. HIDE DEF last
<1>. QED BY <1>1, <1>4

LEMMA RepetitionIs ==
  ASSUME NEW doc \in Docs
  PROVE  \A m \in Repetition(doc) : m \in 1..Len(doc) => doc[m] # Blank
<1>. DEFINE Same(m, n) == /\ IsHeading(doc[m]) /\ doc[m].mark = doc[n].mark
                          /\ Key(doc[m].words) = Key(doc[n].words)
            FirstOf(n) == Min({m \in 1..n : Same(m, n)})
            Copies == {n \in DOMAIN doc : IsHeading(doc[n]) /\ FirstOf(n) < n}
            mine(n) == Following(doc, n)
            its(n) == Following(doc, FirstOf(n))
            Equal(n, k) == /\ Min(its(n)) + k \in its(n)
                           /\ Key(doc[Min(mine(n)) + k].words) = Key(doc[Min(its(n)) + k].words)
            Copied(n) == IF mine(n) = {} \/ its(n) = {} THEN {}
                         ELSE {m \in mine(n) : \A k \in 0..(m - Min(mine(n))) : Equal(n, k)}
<1>1. Repetition(doc) = Copies \cup UNION {Copied(n) : n \in Copies}
  BY DEF Repetition
<1>2. \A n : Copied(n) \subseteq mine(n)
  <2>. HIDE DEF Equal, mine, its
  <2>. QED OBVIOUS
<1>3. \A n \in Copies : n \in 1..Len(doc) /\ IsHeading(doc[n])
  <2>. HIDE DEF FirstOf
  <2>. QED BY DocIs
<1>. HIDE DEF Copies, Copied
<1>4. \A n \in Copies : \A m \in mine(n) : doc[m] # Blank
  BY <1>3, FollowingIs
<1>5. \A n \in Copies : doc[n] # Blank
  BY <1>3, BlankIs
<1>. HIDE DEF mine
<1>. QED BY <1>1, <1>2, <1>4, <1>5

LEMMA DuplicateHeadingsOpening ==
  ASSUME NEW line \in Line, IsProse(line), NEW doc, Opening(doc, line)
  PROVE  \/ Opening(DedupDuplicateHeadings(doc), line)
         \/ \E m \in Repetition(doc) : doc[m] = line
<1>1. doc \in Docs /\ DOMAIN doc = 1..Len(doc)
  BY DocIs DEF Opening
<1>2. PICK n : At(doc, n, line)
  BY DEF Opening, Begins
<1>3. n \in 1..Len(doc) /\ doc[n] = line /\ (n = 1 \/ doc[n - 1] = Blank) /\ (n # 1 => n - 1 \in 1..Len(doc))
  BY <1>1, <1>2, DocIs DEF At
<1>4. CASE n \in Repetition(doc)
  BY <1>3, <1>4
<1>5. CASE n \notin Repetition(doc)
  <2>. DEFINE places == DOMAIN doc \ Repetition(doc)
  <2>1. n \in places /\ (n = 1 \/ n - 1 \in places)
    BY <1>1, <1>3, <1>5, RepetitionIs
  <2>. HIDE DEF places
  <2>2. Keep(doc, places) \in Docs /\ Begins(Keep(doc, places), line)
    BY <1>1, <1>2, <2>1, KeepAt
  <2>. QED BY <2>2 DEF DedupDuplicateHeadings, places, Opening
<1>. QED BY <1>4, <1>5

LEMMA ReducedOpening ==
  ASSUME NEW line \in Line, IsProse(line), NEW doc, Opening(Restated(doc), line)
  PROVE  \/ Opening(Reduced(doc), line)
         \/ \E m \in Repetition(Restated(doc)) : Restated(doc)[m] = line
<1>. DEFINE a == Restated(doc)
            b == DedupDuplicateHeadings(a)
            c == StripEmptyHeadings(b)
            d == StripAssetLabels(c)
<1>1. Reduced(doc) = StripCssClassLines(d)
  BY DEF Reduced
<1>2. Opening(b, line) \/ \E m \in Repetition(a) : a[m] = line
  BY DuplicateHeadingsOpening
<1>3. CASE Opening(b, line)
  <2>. HIDE DEF b
  <2>1. Opening(c, line)
    BY <1>3, EmptyHeadingsOpening
  <2>. HIDE DEF c
  <2>2. Opening(d, line)
    BY <2>1, WithoutOpening DEF StripAssetLabels
  <2>. HIDE DEF d
  <2>. QED BY <1>1, <2>2, ClassesOpening
<1>. QED BY <1>2, <1>3

(* A link of the text is listed. *)
LEMMA LinksListed ==
  ASSUME NEW doc \in Docs, NEW k \in 1..Len(doc), NEW w \in Range(doc[k].words),
         Href[w] # NoHref, Kind[w] = "prose"
  PROVE  \E link \in Range(LinksOf(doc)) : link.href = Href[w]
<1>. DEFINE parts == [n \in DOMAIN doc |-> doc[n].words]
            words == FlattenSeq(parts)
            Links(n) == Href[words[n]] # NoHref /\ Kind[words[n]] \notin {"control", "number"}
            First_(n) == \A m \in 1..(n - 1) : Links(m) => Href[words[m]] # Href[words[n]]
            places == {n \in DOMAIN words : Links(n) /\ First_(n)}
            listed == Keep(words, places)
<1>0. LinksOf(doc) = [n \in DOMAIN listed |-> [text |-> listed[n], href |-> Href[listed[n]]]]
  BY DEF LinksOf
<1>1. parts \in Seq(Seq(Words)) /\ Len(parts) = Len(doc) /\ parts[k] = doc[k].words
  <2>. DEFINE W == Seq(Words)
  <2>1. DOMAIN doc = 1..Len(doc) /\ Len(doc) \in Nat /\ \A n \in 1..Len(doc) : doc[n].words \in W
    BY DocIs, LineIs
  <2>. HIDE DEF W
  <2>2. parts \in [1..Len(doc) -> W] /\ parts[k] = doc[k].words
    BY <2>1
  <2>. HIDE DEF parts
  <2>3. parts \in Seq(W) /\ Len(parts) = Len(doc)
    BY <2>1, <2>2, FunctionIsSequence
  <2>. QED BY <2>2, <2>3 DEF W
<1>. HIDE DEF parts
<1>2. words \in Seq(Words) /\ w \in Range(words)
  BY <1>1, FlattenRange
<1>. HIDE DEF words
<1>3. Len(words) \in Nat /\ DOMAIN words = 1..Len(words)
  BY <1>2
<1>. DEFINE same == {n \in 1..Len(words) : Links(n) /\ Href[words[n]] = Href[w]}
            least == Min(same)
<1>4. same \in SUBSET Nat /\ same # {}
  <2>1. PICK n \in 1..Len(words) : words[n] = w
    BY <1>2, <1>3 DEF Range
  <2>2. n \in same
    BY <2>1
  <2>3. same \in SUBSET Nat
    BY <1>3
  <2>. QED BY <2>2, <2>3
<1>5. least \in same /\ \A n \in same : least <= n
  <2>. HIDE DEF same
  <2>. QED BY <1>4, MinIs
<1>. HIDE DEF least
<1>6. least \in places /\ least \in 1..Len(words) /\ Href[words[least]] = Href[w]
  <2>1. least \in 1..Len(words) /\ Links(least) /\ Href[words[least]] = Href[w]
    BY <1>5
  <2>2. First_(least)
    <3>. SUFFICES ASSUME NEW m \in 1..(least - 1), Links(m), Href[words[m]] = Href[words[least]] PROVE FALSE
      OBVIOUS
    <3>1. m \in 1..Len(words) /\ ~(least <= m)
      BY <1>3, <2>1
    <3>2. m \in same
      BY <2>1, <3>1
    <3>. QED BY <1>5, <3>1, <3>2
  <2>. HIDE DEF Links, First_
  <2>. QED BY <1>3, <2>1, <2>2
<1>. HIDE DEF places
<1>7. PICK n \in 1..Len(listed) : listed[n] = words[least]
  BY <1>2, <1>6, KeepMembers
<1>8. DOMAIN listed = 1..Len(listed)
  BY <1>2, KeepMembers
<1>. HIDE DEF listed
<1>9. LinksOf(doc)[n].href = Href[w] /\ n \in DOMAIN LinksOf(doc)
  BY <1>0, <1>6, <1>7, <1>8
<1>. QED BY <1>9 DEF Range

-----------------------------------------------------------------------------
(* A token stays, and no later than it was. *)
NoLater(out, s) == \A j \in 1..Len(s) : \E i \in 1..Len(out) : i <= j /\ out[i] = s[j]

LEMMA CollapseRepeatedKeeps ==
  ASSUME NEW V, NEW tokens \in Seq(V)
  PROVE  NoLater(CollapseRepeated(tokens), tokens)
<1>1. CASE CollapseRepeated(tokens) = tokens
  <2>1. Len(tokens) \in Nat
    OBVIOUS
  <2>. QED BY <1>1, <2>1 DEF NoLater
<1>2. CASE CollapseRepeated(tokens) # tokens
  <2>. DEFINE N == Len(tokens)
  <2>1. PICK gives, next : CollapseRepeated(tokens) = Walked(gives, next) /\ PhraseWalk(gives, next, tokens, V)
    BY <1>2, CollapseRepeatedWalk
  <2>2. /\ gives \in [1..N -> Seq(V)] /\ N \in Nat /\ (\A n \in 1..N : next[n] \in (n + 1)..(N + 1))
        /\ Short(gives, next, N)
        /\ \A n \in 1..N : \A j \in n..(next[n] - 1) :
             \E r \in 1..Len(gives[n]) : r <= j - n + 1 /\ gives[n][r] = tokens[j]
    <3>1. N \in Nat
      OBVIOUS
    <3>2. /\ gives \in [1..N -> Seq(V)]
          /\ \A n \in 1..N : next[n] \in (n + 1)..(N + 1) /\ Len(gives[n]) <= next[n] - n
          /\ \A n \in 1..N : \A j \in n..(next[n] - 1) :
               \E r \in 1..Len(gives[n]) : r <= j - n + 1 /\ gives[n][r] = tokens[j]
      BY <2>1, Zenon DEF PhraseWalk
    <3>. HIDE DEF N
    <3>3. Short(gives, next, N) /\ \A n \in 1..N : next[n] \in (n + 1)..(N + 1)
      BY <3>2, Zenon DEF Short
    <3>. QED BY <3>1, <3>2, <3>3
  <2>. HIDE DEF N
  <2>3. IsWalk(Walked(gives, next), gives, next, V, N)
    BY ONLY <2>2, WalkedIs
  <2>4. PICK g : Walks(g, gives, next, V, N) /\ Walked(gives, next) = g[1]
    BY <2>3 DEF IsWalk
  <2>5. ASSUME NEW j \in 1..N PROVE \E i \in 1..Len(g[1]) : i <= j /\ g[1][i] = tokens[j]
    <3>1. \E m \in 1..j : j < next[m] /\ \E a : Before(a, g, gives, next, V, N, m)
      BY <2>2, <2>4, WalkCovers
    <3>2. PICK m \in 1..j : j < next[m] /\ \E a : Before(a, g, gives, next, V, N, m)
      BY <3>1
    <3>3. PICK a : Before(a, g, gives, next, V, N, m)
      BY <3>2
    <3>4. a \in Seq(V) /\ g[1] = a \o g[m] /\ Len(a) < m
      BY <2>2, <3>3 DEF Before
    <3>5. m \in 1..N /\ next[m] \in (m + 1)..(N + 1) /\ j \in m..(next[m] - 1)
      BY <2>2, <3>2
    <3>6. PICK r \in 1..Len(gives[m]) : r <= j - m + 1 /\ gives[m][r] = tokens[j]
      BY <2>2, <3>5
    <3>. DEFINE part == gives[m]
                rest == g[next[m]]
                both == part \o rest
    <3>7. part \in Seq(V) /\ rest \in Seq(V) /\ g[m] = both
      <4>1. next[m] \in 1..(N + 1)
        BY <3>5
      <4>. QED BY <2>2, <2>4, <3>5, <4>1 DEF Walks
    <3>8. r \in 1..Len(part) /\ r <= j - m + 1 /\ part[r] = tokens[j]
      BY <3>6
    <3>. HIDE DEF part, rest
    <3>9. both \in Seq(V) /\ r \in 1..Len(both) /\ both[r] = tokens[j]
      <4>1. both \in Seq(V) /\ Len(both) = Len(part) + Len(rest) /\ Len(part) \in Nat /\ Len(rest) \in Nat
            /\ \A k \in 1..Len(part) : both[k] = part[k]
        BY <3>7, ConcatIs
      <4>. HIDE DEF both
      <4>. QED BY <3>8, <4>1
    <3>. HIDE DEF both
    <3>. DEFINE whole == a \o both
                i == Len(a) + r
    <3>10. Len(a) \in Nat /\ Len(whole) = Len(a) + Len(both) /\ Len(both) \in Nat /\ \A k \in 1..Len(both) : whole[Len(a) + k] = both[k]
      BY <3>4, <3>9, ConcatIs
    <3>11. g[1] = whole
      BY <3>4, <3>7
    <3>. HIDE DEF whole
    <3>12. i \in 1..Len(whole) /\ i <= j /\ whole[i] = tokens[j]
      <4>1. whole[i] = tokens[j]
        BY <3>9, <3>10
      <4>2. r \in Nat /\ m \in Nat /\ r >= 1 /\ r <= Len(both) /\ Len(a) < m /\ r <= j - m + 1
        BY <3>4, <3>5, <3>8, <3>9
      <4>. QED BY <3>10, <4>1, <4>2
    <3>. QED BY <3>11, <3>12
  <2>. QED BY <2>1, <2>4, <2>5 DEF NoLater, N
<1>. QED BY <1>1, <1>2

LEMMA EarlierFirst ==
  ASSUME NEW a \in Seq(Words), NEW b \in Seq(Words), NoLater(a, b)
  PROVE  First(b) \subseteq First(a)
<1>. SUFFICES ASSUME NEW w, w \in First(b) PROVE w \in First(a)
  OBVIOUS
<1>1. PICK n \in 1..Len(b) : n <= PrefixWords /\ w = b[n]
  BY FirstIs
<1>2. PICK i \in 1..Len(a) : i <= n /\ a[i] = b[n]
  BY <1>1 DEF NoLater
<1>3. i <= PrefixWords
  <2>1. i \in Nat /\ n \in Nat /\ PrefixWords \in Nat
    BY TextAssumption
  <2>. QED BY <1>1, <1>2, <2>1
<1>. QED BY <1>1, <1>2, <1>3, FirstIs

LEMMA OnceKeeps ==
  ASSUME NEW words \in Seq(Words), NEW commas \in [DOMAIN words -> BOOLEAN]
  PROVE  LET tokens == CollapseRepeated([m \in DOMAIN words |-> <<words[m], commas[m]>>])
             once == [m \in DOMAIN tokens |-> tokens[m][1]]
         IN  NoLater(once, words)
<1>. DEFINE V == Words \X BOOLEAN
            pair(m) == <<words[m], commas[m]>>
            pairs == [m \in DOMAIN words |-> pair(m)]
            tokens == CollapseRepeated(pairs)
            once == [m \in DOMAIN tokens |-> tokens[m][1]]
<1>1. DOMAIN words = 1..Len(words) /\ Len(words) \in Nat /\ \A m \in 1..Len(words) : pair(m) \in V /\ pair(m)[1] = words[m]
  OBVIOUS
<1>. HIDE DEF V, pair
<1>2. pairs \in Seq(V) /\ Len(pairs) = Len(words) /\ \A m \in 1..Len(words) : pairs[m] = pair(m)
  <2>1. pairs \in [1..Len(words) -> V] /\ \A m \in 1..Len(words) : pairs[m] = pair(m)
    BY <1>1
  <2>. HIDE DEF pairs
  <2>. QED BY <1>1, <2>1, FunctionIsSequence
<1>. HIDE DEF pairs
<1>3. tokens \in Seq(V) /\ NoLater(tokens, pairs)
  BY <1>2, CollapseRepeatedIs, CollapseRepeatedKeeps
<1>. HIDE DEF tokens
<1>4. DOMAIN tokens = 1..Len(tokens) /\ Len(tokens) \in Nat
  BY <1>3
<1>5. once \in [1..Len(tokens) -> {tokens[m][1] : m \in 1..Len(tokens)}] /\ \A m \in 1..Len(tokens) : once[m] = tokens[m][1]
  BY <1>4
<1>. HIDE DEF once
<1>6. Len(once) = Len(tokens)
  BY <1>4, <1>5, FunctionIsSequence
<1>7. ASSUME NEW j \in 1..Len(words) PROVE \E i \in 1..Len(once) : i <= j /\ once[i] = words[j]
  <2>1. PICK i \in 1..Len(tokens) : i <= j /\ tokens[i] = pairs[j]
    BY <1>2, <1>3 DEF NoLater
  <2>2. once[i] = words[j]
    BY <1>1, <1>2, <1>5, <2>1
  <2>. QED BY <1>6, <2>1, <2>2
<1>8. NoLater(once, words)
  BY <1>7 DEF NoLater
<1>9. once = [m \in DOMAIN tokens |-> tokens[m][1]]
  BY DEF once
<1>10. tokens = CollapseRepeated([m \in DOMAIN words |-> <<words[m], commas[m]>>])
  BY DEF tokens, pairs, pair
<1>. QED BY <1>8, <1>9, <1>10

LEMMA PartOfProse ==
  ASSUME NEW line \in Line, IsProse(line), NEW words \in Seq(Words), words # <<>>, Range(words) \subseteq Range(line.words)
  PROVE  [line EXCEPT !.words = words] \in Line /\ IsProse([line EXCEPT !.words = words])
<1>. DEFINE other == [line EXCEPT !.words = words]
<1>1. other \in Line /\ other.words = words /\ other.mark = "text"
  BY ProseIs, WordsChanged
<1>. HIDE DEF other
<1>2. other # Blank
  BY <1>1 DEF Blank
<1>3. \A n \in DOMAIN words : Kind[words[n]] = "prose"
  <2>. SUFFICES ASSUME NEW n \in DOMAIN words PROVE Kind[words[n]] = "prose"
    OBVIOUS
  <2>1. words[n] \in Range(line.words)
    BY DEF Range
  <2>2. PICK m \in DOMAIN line.words : line.words[m] = words[n]
    BY <2>1 DEF Range
  <2>. QED BY <2>2, ProseIs
<1>4. IsProse(other)
  BY <1>1, <1>2, <1>3 DEF IsProse
<1>. QED BY <1>1, <1>4 DEF other

(* The paragraph opens with the same words, and maybe more. *)
Opener(doc, words) == \E line \in Line : IsProse(line) /\ words \subseteq First(line.words) /\ Opening(doc, line)

LEMMA RepeatedPhrasesOpening ==
  ASSUME NEW line \in Line, IsProse(line), NEW doc, Opening(doc, line)
  PROVE  Opener(DedupRepeatedPhrases(doc), First(line.words))
<1>. DEFINE Once(a) ==
              LET comma(m) == a.mark = "list" /\ m < Len(a.words)
                  tokens == CollapseRepeated([m \in DOMAIN a.words |-> <<a.words[m], comma(m)>>])
              IN  [a EXCEPT !.words = [m \in DOMAIN tokens |-> tokens[m][1]]]
            put(n) == IF ~Outside(doc, n) \/ IsFence(doc[n]) \/ IsHeading(doc[n]) THEN doc[n] ELSE Once(doc[n])
            out == [n \in 1..Len(doc) |-> put(n)]
<1>0. doc \in Docs /\ DOMAIN doc = 1..Len(doc) /\ \A n \in 1..Len(doc) : doc[n] \in Line
  BY DocIs DEF Opening
<1>1. ASSUME NEW a \in Line
      PROVE  \E words \in Seq(Words) : /\ Once(a) = [a EXCEPT !.words = words]
                                       /\ Range(words) \subseteq Range(a.words) /\ NoLater(words, a.words)
  <2>. DEFINE commas == [m \in DOMAIN a.words |-> a.mark = "list" /\ m < Len(a.words)]
              tokens == CollapseRepeated([m \in DOMAIN a.words |-> <<a.words[m], commas[m]>>])
              once == [m \in DOMAIN tokens |-> tokens[m][1]]
  <2>1. a.words \in Seq(Words)
    BY LineIs
  <2>2. commas \in [DOMAIN a.words -> BOOLEAN]
    OBVIOUS
  <2>3. [m \in DOMAIN a.words |-> <<a.words[m], commas[m]>>]
          = [m \in DOMAIN a.words |-> <<a.words[m], a.mark = "list" /\ m < Len(a.words)>>]
    OBVIOUS
  <2>4. Once(a) = [a EXCEPT !.words = once]
    BY <2>3
  <2>5. once \in Seq(Words) /\ Range(once) \subseteq Range(a.words) /\ NoLater(once, a.words)
    <3>. HIDE DEF commas
    <3>. QED BY <2>1, <2>2, OnceIs, OnceKeeps
  <2>. HIDE DEF once, Once
  <2>. QED BY <2>4, <2>5
<1>2. DedupRepeatedPhrases(doc) = Lines(out)
  BY <1>0 DEF DedupRepeatedPhrases
<1>. HIDE DEF Once
<1>3. ASSUME NEW a \in Line PROVE Once(a) \in Line
  BY <1>1, WordsChanged
<1>4. Once(Blank) = Blank
  <2>1. PICK words \in Seq(Words) : Once(Blank) = [Blank EXCEPT !.words = words] /\ Range(words) \subseteq Range(Blank.words)
    BY <1>1, BlankIs
  <2>2. words = <<>>
    <3>1. Range(Blank.words) = {}
      BY BlankKinds DEF Range
    <3>2. \A k \in DOMAIN words : words[k] \in {}
      <4>1. Range(words) = {}
        BY <2>1, <3>1
      <4>. QED BY <4>1 DEF Range
    <3>3. DOMAIN words = 1..Len(words) /\ Len(words) \in Nat /\ words \in Seq(Words)
      BY <2>1
    <3>4. ASSUME Len(words) # 0 PROVE FALSE
      <4>1. 1 \in 1..Len(words)
        BY <3>3, <3>4
      <4>. QED BY <3>2, <3>3, <4>1
    <3>. QED BY <3>3, <3>4
  <2>. QED BY <2>1, <2>2 DEF Blank
<1>5. Once(line) \in Line /\ IsProse(Once(line)) /\ First(line.words) \subseteq First(Once(line).words)
  <2>1. PICK words \in Seq(Words) : /\ Once(line) = [line EXCEPT !.words = words]
                                    /\ Range(words) \subseteq Range(line.words) /\ NoLater(words, line.words)
    BY <1>1
  <2>2. words # <<>>
    <3>1. 1 \in 1..Len(line.words)
      BY ProseIs
    <3>2. \E i \in 1..Len(words) : i <= 1
      BY <2>1, <3>1 DEF NoLater
    <3>. QED BY <3>2
  <2>3. Once(line) \in Line /\ IsProse(Once(line))
    BY <2>1, <2>2, PartOfProse
  <2>4. First(line.words) \subseteq First(words)
    BY <2>1, LineIs, EarlierFirst
  <2>5. Once(line).words = words
    BY <2>1, WordsChanged
  <2>. QED BY <2>3, <2>4, <2>5
<1>6. PICK n : At(doc, n, line)
  BY DEF Opening, Begins
<1>7. n \in 1..Len(doc) /\ doc[n] = line
  BY <1>6 DEF At
<1>8. \A m \in 1..Len(doc) : put(m) \in Line /\ (doc[m] = Blank => put(m) = Blank)
  BY <1>0, <1>3, <1>4
<1>9. put(n) = line \/ put(n) = Once(line)
  BY <1>7
<1>. HIDE DEF put
<1>10. out \in [1..Len(doc) -> Line] /\ out[n] = put(n) /\ \A m \in 1..Len(doc) : doc[m] = Blank => out[m] = Blank
  BY <1>7, <1>8
<1>. HIDE DEF out
<1>11. Opening(Lines(out), put(n))
  BY <1>0, <1>6, <1>10, LinesAt DEF Opening, Begins
<1>. QED BY <1>2, <1>5, <1>9, <1>11 DEF Opener

(* Sums, and the size of a line. *)
SumSteps(up, numbers) ==
  /\ up[0] = 0 /\ (\A n \in 0..Len(numbers) : up[n] \in Nat)
  /\ \A n \in 1..Len(numbers) : up[n] = up[n - 1] + numbers[n]

LEMMA SumUp ==
  ASSUME NEW numbers \in Seq(Nat)
  PROVE  \E up : SumSteps(up, numbers) /\ Sum(numbers) = up[Len(numbers)]
<1>. DEFINE N == Len(numbers)
            step(n, x) == x + numbers[n]
            entry(h, n) == IF n = 0 THEN 0 ELSE h[n - 1] + numbers[n]
            S == [c \in (1..N) \X Nat |-> step(c[1], c[2])]
            up == CHOOSE h : h = [n \in 0..Len(numbers) |-> entry(h, n)]
<1>1. N \in Nat
  OBVIOUS
<1>2. \A n \in 1..N, x \in Nat : step(n, x) \in Nat
  OBVIOUS
<1>3. S \in [(1..N) \X Nat -> Nat] /\ \A n \in 1..N, x \in Nat : S[<<n, x>>] = step(n, x)
  <2>. HIDE DEF step, N
  <2>. QED BY <1>2
<1>. HIDE DEF S
<1>4. PICK g : Upwards(g, 0, S, Nat, N)
  BY <1>1, <1>3, UpwardsIs
<1>5. \A n \in 0..N : g[n] \in Nat /\ g[n] = entry(g, n)
  <2>1. g[0] = 0 /\ \A n \in 0..N : g[n] \in Nat
    BY <1>4 DEF Upwards
  <2>2. ASSUME NEW n \in 1..N PROVE g[n] = step(n, g[n - 1])
    <3>1. g[n] = S[<<n, g[n - 1]>>] /\ n - 1 \in 0..N
      BY <1>4 DEF Upwards
    <3>. HIDE DEF step, N
    <3>. QED BY <1>3, <2>1, <3>1
  <2>3. \A n \in 0..N : n = 0 \/ n \in 1..N
    BY <1>1
  <2>. HIDE DEF N
  <2>. QED BY <2>1, <2>2, <2>3
<1>6. g = [n \in 0..N |-> entry(g, n)]
  <2>1. DOMAIN g = 0..N /\ g = [n \in 0..N |-> g[n]]
    BY <1>4 DEF Upwards
  <2>. HIDE DEF N, entry
  <2>. QED BY <1>5, <2>1
<1>7. up = [n \in 0..N |-> entry(up, n)]
  <2>. HIDE DEF entry
  <2>. QED BY <1>6
<1>8. Sum(numbers) = up[N]
  BY DEF Sum
<1>. HIDE DEF up
<1>9. \A n \in 0..N : up[n] = entry(up, n)
  <2>. HIDE DEF entry, N
  <2>. QED BY <1>7
<1>. DEFINE T == {n \in Nat : n \in 0..N => up[n] \in Nat}
<1>10. 0 \in T
  BY <1>1, <1>9
<1>11. ASSUME NEW n \in Nat, n \in T PROVE n + 1 \in T
  <2>. SUFFICES ASSUME n + 1 \in 0..N PROVE up[n + 1] \in Nat
    OBVIOUS
  <2>1. n \in 0..N /\ n + 1 \in 1..N /\ n + 1 # 0 /\ n + 1 - 1 = n
    BY <1>1, OneBelow
  <2>2. up[n] \in Nat /\ numbers[n + 1] \in Nat
    BY <1>11, <2>1
  <2>3. up[n + 1] = entry(up, n + 1)
    <3>. HIDE DEF N, entry
    <3>. QED BY <1>9, <2>1
  <2>. QED BY <2>1, <2>2, <2>3
<1>12. \A n \in 0..N : up[n] \in Nat
  <2>. HIDE DEF T
  <2>1. \A n \in Nat : n \in T
    BY <1>10, <1>11, SetInduction
  <2>. QED BY <2>1 DEF T
<1>13. SumSteps(up, numbers)
  <2>1. up[0] = 0
    BY <1>1, <1>9
  <2>2. ASSUME NEW n \in 1..Len(numbers)
        PROVE  up[n] = up[n - 1] + numbers[n]
    BY <1>1, <1>9
  <2>. QED BY <1>12, <2>1, <2>2 DEF SumSteps
<1>. QED BY <1>8, <1>13

Widths(words) == [n \in DOMAIN words |-> Width[words[n]]]

LEMMA LongerSum ==
  ASSUME NEW a \in Seq(Words), NEW b \in Seq(Words), Len(a) < Len(b), \A n \in 1..Len(a) : a[n] = b[n]
  PROVE  Sum(Widths(a)) \in Nat /\ Sum(Widths(b)) \in Nat /\ Sum(Widths(a)) < Sum(Widths(b))
<1>1. ASSUME NEW s \in Seq(Words)
      PROVE  /\ Widths(s) \in Seq(Nat) /\ Len(Widths(s)) = Len(s) /\ Len(s) \in Nat
             /\ \A n \in 1..Len(s) : Widths(s)[n] = Width[s[n]] /\ Widths(s)[n] \in Nat \ {0}
  <2>1. Len(s) \in Nat /\ DOMAIN s = 1..Len(s) /\ \A n \in 1..Len(s) : Width[s[n]] \in Nat \ {0}
    BY TextAssumption
  <2>2. Widths(s) \in [1..Len(s) -> Nat] /\ \A n \in 1..Len(s) : Widths(s)[n] = Width[s[n]]
    BY <2>1 DEF Widths
  <2>3. Widths(s) \in Seq(Nat) /\ Len(Widths(s)) = Len(s)
    BY <2>1, <2>2, FunctionIsSequence
  <2>. QED BY <2>1, <2>2, <2>3
<1>. DEFINE x == Widths(a)
            y == Widths(b)
<1>2. /\ x \in Seq(Nat) /\ y \in Seq(Nat) /\ Len(x) = Len(a) /\ Len(y) = Len(b) /\ Len(a) \in Nat /\ Len(b) \in Nat
      /\ \A n \in 1..Len(b) : y[n] \in Nat \ {0}
  BY <1>1
<1>3. \A n \in 1..Len(a) : x[n] = y[n]
  <2>1. \A n \in 1..Len(a) : n \in 1..Len(b)
    BY <1>2
  <2>. HIDE DEF x, y
  <2>2. (\A n \in 1..Len(a) : x[n] = Width[a[n]]) /\ \A n \in 1..Len(b) : y[n] = Width[b[n]]
    BY <1>1 DEF x, y
  <2>. QED BY <2>1, <2>2
<1>. HIDE DEF x, y
<1>4. PICK f : SumSteps(f, x) /\ Sum(x) = f[Len(a)]
  BY <1>2, SumUp
<1>5. PICK g : SumSteps(g, y) /\ Sum(y) = g[Len(b)]
  BY <1>2, SumUp
<1>6. /\ f[0] = 0 /\ (\A n \in 0..Len(a) : f[n] \in Nat) /\ \A n \in 1..Len(a) : f[n] = f[n - 1] + x[n]
  BY <1>2, <1>4 DEF SumSteps
<1>7. /\ g[0] = 0 /\ (\A n \in 0..Len(b) : g[n] \in Nat) /\ \A n \in 1..Len(b) : g[n] = g[n - 1] + y[n]
  BY <1>2, <1>5 DEF SumSteps
<1>. DEFINE T == {n \in Nat : n <= Len(a) => f[n] = g[n]}
            U == {n \in Nat : Len(a) + 1 + n <= Len(b) => g[Len(a)] < g[Len(a) + 1 + n]}
<1>8. Len(a) \in T
  <2>1. 0 \in T
    BY <1>6, <1>7
  <2>2. ASSUME NEW n \in Nat, n \in T PROVE n + 1 \in T
    <3>. SUFFICES ASSUME n + 1 <= Len(a) PROVE f[n + 1] = g[n + 1]
      OBVIOUS
    <3>1. n + 1 \in 1..Len(a) /\ n + 1 \in 1..Len(b) /\ (n + 1) - 1 = n /\ n <= Len(a)
      BY <1>2
    <3>2. f[n + 1] = f[n] + x[n + 1] /\ g[n + 1] = g[n] + y[n + 1] /\ x[n + 1] = y[n + 1] /\ f[n] = g[n]
      BY <1>3, <1>6, <1>7, <2>2, <3>1
    <3>. QED BY <3>2
  <2>. HIDE DEF T
  <2>. QED BY <1>2, <2>1, <2>2, SetInduction
<1>9. Len(b) - Len(a) - 1 \in U
  <2>1. 0 \in U
    <3>1. Len(a) + 1 \in 1..Len(b) /\ (Len(a) + 1) - 1 = Len(a) /\ Len(a) \in 0..Len(b) /\ Len(a) + 1 + 0 = Len(a) + 1
      BY <1>2
    <3>2. g[Len(a) + 1] = g[Len(a)] + y[Len(a) + 1] /\ g[Len(a)] \in Nat /\ y[Len(a) + 1] \in Nat \ {0}
      BY <1>2, <1>7, <3>1
    <3>. QED BY <3>1, <3>2
  <2>2. ASSUME NEW n \in Nat, n \in U PROVE n + 1 \in U
    <3>. SUFFICES ASSUME Len(a) + 1 + (n + 1) <= Len(b) PROVE g[Len(a)] < g[Len(a) + 1 + (n + 1)]
      OBVIOUS
    <3>. DEFINE k == Len(a) + 1 + n
    <3>1. /\ k + 1 \in 1..Len(b) /\ (k + 1) - 1 = k /\ Len(a) + 1 + n <= Len(b) /\ k \in 0..Len(b) /\ Len(a) \in 0..Len(b)
          /\ Len(a) + 1 + (n + 1) = k + 1
      BY <1>2
    <3>2. g[Len(a)] < g[k]
      BY <2>2, <3>1
    <3>. HIDE DEF k
    <3>3. g[k + 1] = g[k] + y[k + 1] /\ g[k] \in Nat /\ y[k + 1] \in Nat \ {0} /\ g[Len(a)] \in Nat
      BY <1>2, <1>7, <3>1
    <3>4. g[Len(a)] < g[k + 1]
      BY <3>2, <3>3
    <3>. QED BY <3>1, <3>4
  <2>3. Len(b) - Len(a) - 1 \in Nat
    BY <1>2
  <2>. HIDE DEF U
  <2>. QED BY <2>1, <2>2, <2>3, SetInduction
<1>10. f[Len(a)] = g[Len(a)] /\ g[Len(a)] < g[Len(b)]
  <2>1. Len(a) + 1 + (Len(b) - Len(a) - 1) = Len(b) /\ Len(a) <= Len(a)
    BY <1>2
  <2>2. g[Len(a)] < g[Len(a) + 1 + (Len(b) - Len(a) - 1)]
    BY <1>2, <1>9, <2>1
  <2>. QED BY <1>8, <2>1, <2>2
<1>11. Len(a) \in 0..Len(a) /\ Len(b) \in 0..Len(b)
  BY <1>2
<1>. QED BY <1>4, <1>5, <1>6, <1>7, <1>10, <1>11 DEF x, y

Text(words) == [mark |-> "text", words |-> words]

LEMMA SizeIs ==
  ASSUME NEW words \in Seq(Words)
  PROVE  Size(Text(words)) = Sum(Widths(words)) + (IF words = <<>> THEN 0 ELSE Len(words) - 1)
<1>1. Text(words).mark = "text" /\ Text(words).words = words /\ "text" \in Mark
  BY Marks DEF Text
<1>2. MarkSize["text"] = 0
  BY <1>1 DEF MarkSize
<1>. DEFINE gaps == IF words = <<>> THEN 0 ELSE Len(words) - 1
<1>3. Size(Text(words)) = MarkSize["text"] + Sum(Widths(words)) + 1 * gaps
  BY <1>1 DEF Size, Widths
<1>4. Sum(Widths(words)) \in Nat /\ gaps \in Nat
  <2>1. \E up : SumSteps(up, Widths(words)) /\ Sum(Widths(words)) = up[Len(Widths(words))]
    <3>1. Widths(words) \in Seq(Nat)
      <4>1. Len(words) \in Nat /\ Widths(words) \in [1..Len(words) -> Nat]
        BY TextAssumption DEF Widths
      <4>. QED BY <4>1, FunctionIsSequence
    <3>. QED BY <3>1, SumUp
  <2>2. Len(Widths(words)) \in 0..Len(Widths(words))
    <3>1. Len(words) \in Nat /\ Widths(words) \in [1..Len(words) -> Nat]
      BY TextAssumption DEF Widths
    <3>2. Len(Widths(words)) = Len(words)
      BY <3>1, FunctionIsSequence
    <3>. QED BY <3>1, <3>2
  <2>3. Sum(Widths(words)) \in Nat
    BY <2>1, <2>2 DEF SumSteps
  <2>4. gaps \in Nat
    BY EmptySeq
  <2>. QED BY <2>3, <2>4
<1>. HIDE DEF gaps
<1>5. Size(Text(words)) = Sum(Widths(words)) + gaps
  BY <1>2, <1>3, <1>4
<1>. QED BY <1>5 DEF gaps

LEMMA LongerSize ==
  ASSUME NEW a \in Seq(Words), NEW b \in Seq(Words), Len(a) < Len(b), \A n \in 1..Len(a) : a[n] = b[n]
  PROVE  Size(Text(a)) < Size(Text(b))
<1>. DEFINE x == Sum(Widths(a))
            y == Sum(Widths(b))
            p == IF a = <<>> THEN 0 ELSE Len(a) - 1
            q == IF b = <<>> THEN 0 ELSE Len(b) - 1
<1>1. x \in Nat /\ y \in Nat /\ x < y
  BY LongerSum
<1>2. p \in Nat /\ q \in Nat /\ p <= q
  <2>1. Len(a) \in Nat /\ Len(b) \in Nat /\ (a = <<>> <=> Len(a) = 0) /\ (b = <<>> <=> Len(b) = 0)
    BY EmptySeq
  <2>. QED BY <2>1
<1>3. Size(Text(a)) = x + p /\ Size(Text(b)) = y + q
  BY SizeIs
<1>. HIDE DEF x, y, p, q
<1>. QED BY <1>1, <1>2, <1>3

(* What restates a heading and is not longer has the words of the heading. *)
LEMMA PrefixWordsAre ==
  ASSUME NEW a \in Seq(Words), NEW b \in Seq(Words), IsPrefix(a, b)
  PROVE  Len(a) <= Len(b) /\ (\A n \in 1..Len(a) : a[n] = b[n]) /\ Range(a) \subseteq Range(b)
<1>1. Len(a) \in Nat /\ Len(b) \in Nat /\ Len(a) <= Len(b) /\ Prefix(a, Len(a)) = Prefix(b, Len(a))
      /\ DOMAIN a = 1..Len(a) /\ DOMAIN b = 1..Len(b)
  BY DEF IsPrefix, Prefix
<1>2. Len(a) \in 0..Len(b) /\ Len(a) \in 0..Len(a)
  BY <1>1
<1>3. \A n \in 1..Len(a) : Prefix(a, Len(a))[n] = a[n] /\ Prefix(b, Len(a))[n] = b[n]
  BY <1>2, PrefixIs
<1>4. \A n \in 1..Len(a) : a[n] = b[n]
  BY <1>1, <1>3
<1>5. Range(a) \subseteq Range(b)
  <2>1. \A n \in 1..Len(a) : n \in 1..Len(b)
    BY <1>1
  <2>. QED BY <1>1, <1>4, <2>1 DEF Range
<1>. QED BY <1>1, <1>4, <1>5

LEMMA RestatesIs ==
  ASSUME NEW a \in Seq(Words), NEW b \in Seq(Words), Restates(a, b)
  PROVE  Range(b) \subseteq Range(IF Size(Text(a)) < Size(Text(b)) THEN b ELSE a)
<1>1. CASE IsPrefix(b, a)
  BY <1>1, PrefixWordsAre
<1>2. CASE IsPrefix(a, b)
  <2>1. Len(a) <= Len(b) /\ (\A n \in 1..Len(a) : a[n] = b[n])
    BY <1>2, PrefixWordsAre
  <2>2. CASE Len(a) < Len(b)
    BY <2>1, <2>2, LongerSize
  <2>3. CASE ~(Len(a) < Len(b))
    <3>1. Len(a) = Len(b)
      <4>1. Len(a) \in Nat /\ Len(b) \in Nat
        OBVIOUS
      <4>. QED BY <2>1, <2>3, <4>1
    <3>2. a = b
      <4>1. DOMAIN a = 1..Len(a) /\ DOMAIN b = 1..Len(b) /\ a = [n \in DOMAIN a |-> a[n]] /\ b = [n \in DOMAIN b |-> b[n]]
        OBVIOUS
      <4>. QED BY <2>1, <3>1, <4>1
    <3>. QED BY <3>2
  <2>. QED BY <2>2, <2>3
<1>. QED BY <1>1, <1>2 DEF Restates

(* A heading says the words. *)
HeadingSays(doc, words) == \E h \in 1..Len(doc) : IsHeading(doc[h]) /\ words \subseteq Range(doc[h].words)

LEMMA TakenSays ==
  ASSUME NEW doc \in Docs, NEW part, NEW m \in 1..Len(doc), NEW line \in Line, IsProse(line),
         NEW k, Taken(part, doc, m, k), doc[k] = line
  PROVE  \E h \in Line : part = <<h>> /\ IsHeading(h) /\ Range(line.words) \subseteq Range(h.words)
<1>. DEFINE a == doc[m].words
            b == line.words
            longer == IF Size([doc[m] EXCEPT !.mark = "text"]) < Size(line) THEN b ELSE a
            h == [doc[m] EXCEPT !.words = longer]
<1>1. doc[m] \in Line /\ IsHeading(doc[m]) /\ a \in Seq(Words) /\ b \in Seq(Words) /\ line.mark = "text"
  BY DocIs, LineIs, ProseIs DEF Taken
<1>2. Restates(a, b) /\ part = <<h>>
  BY <1>1 DEF Taken
<1>3. Text(a) = [doc[m] EXCEPT !.mark = "text"] /\ Text(b) = line
  BY <1>1, LineIs DEF Text
<1>4. longer = IF Size(Text(a)) < Size(Text(b)) THEN b ELSE a
  BY <1>3
<1>5. Range(b) \subseteq Range(IF Size(Text(a)) < Size(Text(b)) THEN b ELSE a)
  BY <1>1, <1>2, RestatesIs
<1>6. longer \in Seq(Words)
  BY <1>1
<1>. HIDE DEF longer
<1>7. h \in Line /\ h.words = longer /\ h.mark = doc[m].mark
  BY <1>1, <1>6, WordsChanged
<1>. HIDE DEF h
<1>8. IsHeading(h) /\ Range(b) \subseteq Range(h.words)
  BY <1>1, <1>4, <1>5, <1>7 DEF IsHeading
<1>. QED BY <1>2, <1>7, <1>8

LEMMA HeadingParagraphOpening ==
  ASSUME NEW line \in Line, IsProse(line), NEW doc, Opening(doc, line)
  PROVE  /\ DedupHeadingParagraph(doc) \in Docs
         /\ \/ Opening(DedupHeadingParagraph(doc), line)
            \/ HeadingSays(DedupHeadingParagraph(doc), Range(line.words))
<1>. DEFINE N == Len(doc)
<1>0. doc \in Docs
  BY DEF Opening
<1>1. PICK gives, next : DedupHeadingParagraph(doc) = Walked(gives, next) /\ HeadingWalk(gives, next, doc)
  BY <1>0, HeadingParagraphWalk
<1>2. /\ gives \in [1..N -> Docs] /\ (\A n \in 1..N : next[n] \in (n + 1)..(N + 1))
      /\ \A n \in 1..N : \/ gives[n] = <<doc[n]>> /\ next[n] = n + 1
                         \/ Taken(gives[n], doc, n, next[n] - 1)
  BY <1>1 DEF HeadingWalk
<1>3. Walked(gives, next) \in Docs
  BY <1>0, <1>1, WalkedSub DEF HeadingWalk
<1>4. PICK n : At(doc, n, line)
  BY DEF Opening, Begins
<1>5. N \in Nat /\ n \in 1..N /\ doc[n] = line /\ (n = 1 \/ doc[n - 1] = Blank) /\ ~IsHeading(line) /\ line # Blank
  BY <1>0, <1>4, DocIs, ProseIs DEF At
<1>6. IsWalk(Walked(gives, next), gives, next, Line, N)
  <2>. HIDE DEF N
  <2>. QED BY <1>2, <1>5, WalkedIs DEF Docs
<1>7. PICK g : Walks(g, gives, next, Line, N) /\ Walked(gives, next) = g[1]
  BY <1>6 DEF IsWalk
<1>8. gives[n] = <<line>>
  BY <1>2, <1>5 DEF Taken
<1>9. CASE n = 1
  <2>. HIDE DEF N
  <2>1. Begins(g[1], line)
    BY <1>2, <1>5, <1>7, <1>8, <1>9, WalkBegins
  <2>. QED BY <1>1, <1>3, <1>7, <2>1 DEF Opening
<1>10. CASE n # 1
  <2>1. n - 1 \in 1..N /\ doc[n - 1] = Blank /\ (n - 1) + 1 = n
    BY <1>5, <1>10
  <2>2. gives[n - 1] = <<Blank>> /\ next[n - 1] = n
    BY <1>2, <2>1, BlankIs DEF Taken
  <2>3. \E m \in 1..(n - 1) : n - 1 < next[m] /\ \E a : Before(a, g, gives, next, Line, N, m)
    <3>. HIDE DEF N
    <3>. QED BY <1>2, <1>5, <1>7, <2>1, WalkCovers DEF Docs
  <2>4. PICK m \in 1..(n - 1) : n - 1 < next[m] /\ \E a : Before(a, g, gives, next, Line, N, m)
    BY <2>3
  <2>5. CASE m = n - 1
    <3>. HIDE DEF N
    <3>1. Begins(g[1], line)
      BY <1>2, <1>5, <1>7, <1>8, <2>1, <2>2, <2>4, <2>5, WalkBegins
    <3>. QED BY <1>1, <1>3, <1>7, <3>1 DEF Opening
  <2>6. CASE m # n - 1
    <3>. DEFINE k == next[m] - 1
    <3>1. m \in 1..N /\ next[m] \in (m + 1)..(N + 1) /\ next[m] # m + 1 /\ k \in (m + 1)..N /\ n - 1 <= k
      BY <1>2, <1>5, <2>4, <2>6
    <3>2. Taken(gives[m], doc, m, k)
      BY <1>2, <3>1
    <3>. HIDE DEF k
    <3>3. doc[k] # Blank /\ \A j \in (m + 1)..(k - 1) : doc[j] = Blank
      BY <3>2 DEF Taken
    <3>4. k = n
      <4>1. k # n - 1
        BY <2>1, <3>3
      <4>2. n \notin (m + 1)..(k - 1)
        BY <1>5, <3>3
      <4>. QED BY <1>5, <2>4, <3>1, <4>1, <4>2
    <3>5. PICK h \in Line : gives[m] = <<h>> /\ IsHeading(h) /\ Range(line.words) \subseteq Range(h.words)
      <4>. DEFINE part == gives[m]
      <4>1. doc[k] = line /\ m \in 1..Len(doc) /\ Taken(part, doc, m, k)
        BY <1>5, <3>1, <3>2, <3>4
      <4>. HIDE DEF part
      <4>2. \E h \in Line : part = <<h>> /\ IsHeading(h) /\ Range(line.words) \subseteq Range(h.words)
        BY <1>0, <4>1, TakenSays
      <4>. QED BY <4>2 DEF part
    <3>6. h \in Range(gives[m])
      <4>1. 1 \in DOMAIN gives[m] /\ gives[m][1] = h
        BY <3>5, OneIs
      <4>. QED BY <4>1 DEF Range
    <3>7. h \in Range(g[1])
      <4>. HIDE DEF N
      <4>1. \A e \in Range(gives[m]) : e \in Range(g[1])
        BY <1>2, <1>5, <1>7, <2>4, <3>1, WalkGives DEF Docs
      <4>. QED BY <3>6, <4>1
    <3>8. PICK j \in 1..Len(g[1]) : g[1][j] = h
      BY <1>3, <1>7, <3>7, DocIs DEF Range
    <3>. QED BY <1>1, <1>3, <1>7, <3>5, <3>8 DEF HeadingSays
  <2>. QED BY <2>5, <2>6
<1>. QED BY <1>9, <1>10

LEMMA KeptSays ==
  ASSUME NEW doc \in Docs, NEW places, NEW words, HeadingSays(doc, words),
         \A n \in 1..Len(doc) : IsHeading(doc[n]) => n \in places
  PROVE  HeadingSays(Keep(doc, places), words)
<1>1. PICK h \in 1..Len(doc) : IsHeading(doc[h]) /\ words \subseteq Range(doc[h].words)
  BY DEF HeadingSays
<1>2. PICK k \in 1..Len(Keep(doc, places)) : Keep(doc, places)[k] = doc[h]
  BY <1>1, KeepMembers DEF Docs
<1>. QED BY <1>1, <1>2 DEF HeadingSays

LEMMA AgainstHeadingsOpening ==
  ASSUME NEW line \in Line, IsProse(line), NEW doc \in Docs,
         Opening(doc, line) \/ HeadingSays(doc, Range(line.words))
  PROVE  \/ Opening(DedupTextAgainstHeadings(doc), line)
         \/ HeadingSays(DedupTextAgainstHeadings(doc), Range(line.words))
<1>. DEFINE stays(n) == \A h \in DOMAIN doc : IsHeading(doc[h]) => doc[h].words # doc[n].words
            places == {n \in DOMAIN doc : doc[n].mark = "text" /\ doc[n] # Blank => stays(n)}
            out == Keep(doc, places)
<1>1. DedupTextAgainstHeadings(doc) = out
  BY DEF DedupTextAgainstHeadings
<1>2. DOMAIN doc = 1..Len(doc)
  BY DocIs
<1>3. \A n \in 1..Len(doc) : IsHeading(doc[n]) => n \in places
  <2>. HIDE DEF stays
  <2>. QED BY <1>2, Marks DEF IsHeading
<1>4. \A n \in 1..Len(doc) : doc[n] = Blank => n \in places
  <2>. HIDE DEF stays
  <2>. QED BY <1>2
<1>5. CASE HeadingSays(doc, Range(line.words))
  <2>. HIDE DEF places
  <2>. QED BY <1>1, <1>3, <1>5, KeptSays
<1>6. CASE Opening(doc, line) /\ \A h \in DOMAIN doc : IsHeading(doc[h]) => doc[h].words # line.words
  <2>1. \A n \in 1..Len(doc) : doc[n] = line => n \in places
    BY <1>2, <1>6
  <2>. HIDE DEF places
  <2>. QED BY <1>1, <1>4, <1>6, <2>1, KeepOpening
<1>7. CASE \E h \in DOMAIN doc : IsHeading(doc[h]) /\ doc[h].words = line.words
  <2>1. HeadingSays(doc, Range(line.words))
    BY <1>2, <1>7 DEF HeadingSays
  <2>. HIDE DEF places
  <2>. QED BY <1>1, <1>3, <2>1, KeptSays
<1>. QED BY <1>5, <1>6, <1>7

LEMMA RestatedOpening ==
  ASSUME NEW line \in Line, IsProse(line), NEW doc, Opening(doc, line)
  PROVE  \/ Opener(Restated(doc), First(line.words))
         \/ HeadingSays(Restated(doc), First(line.words))
<1>. DEFINE a == StripBareNumberLines(doc)
            b == StripUiControlText(a)
            c == DedupRepeatedPhrases(b)
            d == DedupHeadingParagraph(c)
<1>1. Restated(doc) = DedupTextAgainstHeadings(d)
  BY DEF Restated
<1>2. Opening(a, line)
  BY NumbersOpening
<1>. HIDE DEF a
<1>3. Opening(b, line)
  BY <1>2, ControlsOpening
<1>. HIDE DEF b
<1>4. Opener(c, First(line.words))
  BY <1>3, RepeatedPhrasesOpening
<1>5. PICK other \in Line : IsProse(other) /\ First(line.words) \subseteq First(other.words) /\ Opening(c, other)
  BY <1>4 DEF Opener
<1>. HIDE DEF c
<1>6. d \in Docs /\ (Opening(d, other) \/ HeadingSays(d, Range(other.words)))
  BY <1>5, HeadingParagraphOpening
<1>. HIDE DEF d
<1>7. Opening(Restated(doc), other) \/ HeadingSays(Restated(doc), Range(other.words))
  BY <1>1, <1>5, <1>6, AgainstHeadingsOpening
<1>8. First(line.words) \subseteq Range(other.words)
  BY <1>5, ProseIs, FirstIs
<1>. QED BY <1>5, <1>7, <1>8 DEF Opener, HeadingSays

(* What a scan holds it still holds after the lines that follow. *)
Grows(G) == G \subseteq Docs /\ <<>> \notin G /\ \A block \in G, line \in Line : Append(block, line) \in G
InScan(scan, G) == scan.open \in G \/ \E m \in 1..Len(scan.done) : scan.done[m] \in G

LEMMA ClosedHas ==
  ASSUME NEW scan \in Scan, NEW G, Grows(G), InScan(scan, G)
  PROVE  \E m \in 1..Len(Closed(scan)) : Closed(scan)[m] \in G
<1>. DEFINE done == scan.done
            open == scan.open
            more == Append(done, open)
<1>1. done \in Seq(Docs) /\ open \in Docs
  BY DEF Scan
<1>2. Closed(scan) = IF open = <<>> THEN done ELSE more
  BY DEF Closed
<1>3. open \in G \/ \E m \in 1..Len(done) : done[m] \in G
  BY DEF InScan
<1>. HIDE DEF done, open
<1>4. /\ Len(done) \in Nat /\ Len(more) = Len(done) + 1 /\ more[Len(done) + 1] = open
      /\ \A m \in 1..Len(done) : more[m] = done[m]
  BY <1>1
<1>. HIDE DEF more
<1>5. CASE open \in G
  <2>1. open # <<>>
    BY <1>5 DEF Grows
  <2>2. Len(done) + 1 \in 1..Len(more)
    BY <1>4
  <2>. QED BY <1>2, <1>4, <1>5, <2>1, <2>2
<1>6. CASE \E m \in 1..Len(done) : done[m] \in G
  <2>1. PICK m \in 1..Len(done) : done[m] \in G
    BY <1>6
  <2>2. m \in 1..Len(more) /\ more[m] \in G
    BY <1>4, <2>1
  <2>. QED BY <1>2, <2>1, <2>2
<1>. QED BY <1>3, <1>5, <1>6

LEMMA ScannedHas ==
  ASSUME NEW scan \in Scan, NEW line \in Line, NEW G, Grows(G), InScan(scan, G)
  PROVE  InScan(Scanned(scan, line), G)
<1>1. CASE line = Blank
  <2>1. Scanned(scan, line) = [done |-> Closed(scan), open |-> <<>>]
    BY <1>1 DEF Scanned
  <2>2. Scanned(scan, line).done = Closed(scan)
    BY <2>1
  <2>. QED BY <2>2, ClosedHas DEF InScan
<1>2. CASE line # Blank
  <2>1. Scanned(scan, line).done = scan.done /\ Scanned(scan, line).open = Append(scan.open, line)
    BY <1>2 DEF Scanned, Scan
  <2>. QED BY <2>1 DEF InScan, Grows
<1>. QED BY <1>1, <1>2

LEMMA BlocksHave ==
  ASSUME NEW doc \in Docs, NEW up, ScanSteps(up, doc), NEW n \in 1..Len(doc), NEW G, Grows(G), InScan(up[n], G)
  PROVE  \E m \in 1..Len(Blocks(doc)) : Blocks(doc)[m] \in G
<1>. DEFINE N == Len(doc)
            T == {k \in Nat : n + k <= N => InScan(up[n + k], G)}
<1>1. /\ N \in Nat /\ (\A k \in 1..N : doc[k] \in Line /\ up[k] = Scanned(up[k - 1], doc[k]))
      /\ (\A k \in 0..N : up[k] \in Scan) /\ Blocks(doc) = Closed(up[N])
  BY DocIs DEF ScanSteps
<1>2. 0 \in T
  BY <1>1
<1>3. ASSUME NEW k \in Nat, k \in T PROVE k + 1 \in T
  <2>. SUFFICES ASSUME n + (k + 1) <= N PROVE InScan(up[n + (k + 1)], G)
    OBVIOUS
  <2>. DEFINE x == n + k
  <2>1. x + 1 \in 1..N /\ (x + 1) - 1 = x /\ x \in 0..N /\ n + (k + 1) = x + 1 /\ x <= N
    BY <1>1
  <2>2. InScan(up[x], G)
    BY <1>3, <2>1
  <2>. HIDE DEF x
  <2>3. up[x + 1] = Scanned(up[x], doc[x + 1]) /\ doc[x + 1] \in Line /\ up[x] \in Scan
    BY <1>1, <2>1
  <2>. QED BY <2>1, <2>2, <2>3, ScannedHas
<1>4. N - n \in T
  <2>1. N - n \in Nat
    BY <1>1
  <2>. HIDE DEF T
  <2>. QED BY <1>2, <1>3, <2>1, SetInduction
<1>5. InScan(up[N], G) /\ up[N] \in Scan
  <2>1. n + (N - n) = N /\ N <= N /\ N \in 0..N
    BY <1>1
  <2>2. InScan(up[n + (N - n)], G)
    BY <1>4, <2>1
  <2>. QED BY <1>1, <2>1, <2>2
<1>. QED BY <1>1, <1>5, ClosedHas

LEMMA AppendLine ==
  ASSUME NEW block \in Docs, NEW line \in Line
  PROVE  /\ Append(block, line) \in Docs /\ Append(block, line) # <<>>
         /\ line \in Range(Append(block, line)) /\ Range(block) \subseteq Range(Append(block, line))
         /\ block = <<>> => Append(block, line)[1] = line
         /\ block # <<>> => Append(block, line)[1] = block[1]
<1>. DEFINE out == Append(block, line)
<1>1. /\ out \in Seq(Line) /\ Len(out) = Len(block) + 1 /\ Len(block) \in Nat /\ out[Len(block) + 1] = line
      /\ (\A k \in 1..Len(block) : out[k] = block[k]) /\ DOMAIN out = 1..(Len(block) + 1) /\ DOMAIN block = 1..Len(block)
  BY DEF Docs
<1>. HIDE DEF out
<1>2. out # <<>>
  BY <1>1
<1>3. line \in Range(out)
  <2>1. Len(block) + 1 \in DOMAIN out
    BY <1>1
  <2>. QED BY <1>1, <2>1 DEF Range
<1>4. Range(block) \subseteq Range(out)
  <2>1. \A k \in DOMAIN block : k \in DOMAIN out /\ out[k] = block[k]
    BY <1>1
  <2>. QED BY <2>1 DEF Range
<1>5. block = <<>> => out[1] = line
  <2>1. block = <<>> => Len(block) = 0
    OBVIOUS
  <2>. QED BY <1>1, <2>1
<1>6. block # <<>> => out[1] = block[1]
  <2>1. block # <<>> => Len(block) # 0
    BY DEF Docs
  <2>2. Len(block) # 0 => 1 \in 1..Len(block)
    BY <1>1
  <2>. QED BY <1>1, <2>1, <2>2
<1>. QED BY <1>1, <1>2, <1>3, <1>4, <1>5, <1>6 DEF out, Docs

(* The first line of a paragraph is the first of a block, and every line   *)
(* that is not blank is in one.                                            *)
LEMMA FirstOfBlock ==
  ASSUME NEW doc \in Docs, NEW line \in Line, line # Blank, Begins(doc, line)
  PROVE  \E m \in 1..Len(Blocks(doc)) : Blocks(doc)[m] \in Docs /\ Blocks(doc)[m] # <<>> /\ Blocks(doc)[m][1] = line
<1>. DEFINE G == {block \in Docs : block # <<>> /\ block[1] = line}
<1>1. Grows(G)
  BY AppendLine DEF Grows
<1>2. PICK n : At(doc, n, line)
  BY DEF Begins
<1>3. Len(doc) \in Nat /\ n \in 1..Len(doc) /\ doc[n] = line /\ (n = 1 \/ doc[n - 1] = Blank)
  BY <1>2, DocIs DEF At
<1>4. PICK up : ScanSteps(up, doc)
  BY BlocksUp
<1>5. /\ up[0] = [done |-> <<>>, open |-> <<>>] /\ (\A k \in 1..Len(doc) : up[k] = Scanned(up[k - 1], doc[k]))
      /\ \A k \in 0..Len(doc) : up[k] \in Scan
  BY <1>4 DEF ScanSteps
<1>6. up[n - 1].open = <<>>
  <2>1. CASE n = 1
    BY <1>5, <2>1
  <2>2. CASE n # 1
    <3>1. n - 1 \in 1..Len(doc) /\ doc[n - 1] = Blank
      BY <1>3, <2>2
    <3>2. up[n - 1] = Scanned(up[(n - 1) - 1], Blank)
      BY <1>5, <3>1
    <3>. QED BY <3>2 DEF Scanned
  <2>. QED BY <2>1, <2>2
<1>7. up[n - 1] \in Scan /\ up[n] = Scanned(up[n - 1], line)
  <2>1. n - 1 \in 0..Len(doc)
    BY <1>3
  <2>. QED BY <1>3, <1>5, <2>1
<1>8. up[n].open = Append(<<>>, line)
  BY <1>6, <1>7 DEF Scanned, Scan
<1>9. Append(<<>>, line) \in G
  <2>. DEFINE none == <<>>
  <2>1. none \in Docs /\ none = <<>>
    BY NoneIs
  <2>. HIDE DEF none
  <2>2. Append(none, line) \in G
    BY <2>1, AppendLine
  <2>. QED BY <2>1, <2>2
<1>10. InScan(up[n], G)
  BY <1>8, <1>9 DEF InScan
<1>. HIDE DEF G
<1>11. \E m \in 1..Len(Blocks(doc)) : Blocks(doc)[m] \in G
  BY <1>1, <1>3, <1>4, <1>10, BlocksHave
<1>. QED BY <1>11 DEF G

LEMMA LineInBlock ==
  ASSUME NEW doc \in Docs, NEW n \in 1..Len(doc), doc[n] # Blank
  PROVE  \E m \in 1..Len(Blocks(doc)) : doc[n] \in Range(Blocks(doc)[m])
<1>. DEFINE line == doc[n]
            G == {block \in Docs : line \in Range(block)}
<1>0. line \in Line /\ Len(doc) \in Nat
  BY DocIs
<1>. HIDE DEF line
<1>1. Grows(G)
  <2>1. <<>> \notin G
    BY DEF Range
  <2>2. \A block \in G, other \in Line : Append(block, other) \in G
    BY AppendLine
  <2>. QED BY <2>1, <2>2 DEF Grows
<1>2. PICK up : ScanSteps(up, doc)
  BY BlocksUp
<1>3. n - 1 \in 0..Len(doc)
  BY <1>0
<1>4. up[n] = Scanned(up[n - 1], line) /\ up[n - 1] \in Scan /\ line # Blank
  BY <1>2, <1>3 DEF ScanSteps, line
<1>5. up[n].open = Append(up[n - 1].open, line) /\ up[n - 1].open \in Docs
  BY <1>4 DEF Scanned, Scan
<1>6. up[n].open \in G
  BY <1>0, <1>5, AppendLine
<1>7. InScan(up[n], G)
  BY <1>6 DEF InScan
<1>. HIDE DEF G
<1>8. \E m \in 1..Len(Blocks(doc)) : Blocks(doc)[m] \in G
  BY <1>1, <1>2, <1>7, BlocksHave
<1>. QED BY <1>8 DEF G, line

(* A block that is left out opens with words that one that stays opens     *)
(* with.                                                                   *)
Vouched(words, blocks, kept, aside) ==
  \E i \in 1..Len(blocks) : i \in kept /\ i \notin aside /\ words \subseteq First(Fingerprint(blocks[i]))
Vouches(seen, blocks, aside, n) ==
  /\ \A print \in seen.exact : Vouched(First(print), blocks, seen.kept, aside)
  /\ \A prefix \in seen.prefix : Vouched(Range(prefix), blocks, seen.kept, aside)
  /\ \A m \in 1..n : m \in seen.kept \/ Vouched(First(Fingerprint(blocks[m])), blocks, seen.kept, aside)

LEMMA VouchedMore ==
  ASSUME NEW words, NEW blocks, NEW kept, NEW more, kept \subseteq more, NEW aside, Vouched(words, blocks, kept, aside)
  PROVE  Vouched(words, blocks, more, aside)
BY DEF Vouched

LEMMA FirstPrefix ==
  ASSUME NEW print \in Seq(Words), Len(print) >= PrefixWords
  PROVE  Range(SubSeq(print, 1, PrefixWords)) = First(print)
<1>1. PrefixWords \in 0..Len(print) /\ DOMAIN print = 1..Len(print) /\ PrefixWords \in Nat /\ Len(print) \in Nat
  BY TextAssumption
<1>. DEFINE part == Prefix(print, PrefixWords)
<1>2. part \in Seq(Words) /\ Len(part) = PrefixWords /\ \A k \in 1..PrefixWords : part[k] = print[k]
  BY <1>1, PrefixIs
<1>3. part = SubSeq(print, 1, PrefixWords)
  BY DEF Prefix
<1>. HIDE DEF part
<1>4. Range(part) = {part[k] : k \in 1..PrefixWords}
  BY <1>2 DEF Range
<1>5. {m \in DOMAIN print : m <= PrefixWords} = 1..PrefixWords
  BY <1>1
<1>. QED BY <1>2, <1>3, <1>4, <1>5 DEF First

LEMMA SiftedVouches ==
  ASSUME NEW blocks \in Seq(Docs), NEW aside, NEW n \in 1..Len(blocks), NEW seen \in SeenType,
         Vouches(seen, blocks, aside, n - 1), n \notin aside
  PROVE  Vouches(Sifted(seen, blocks[n], n), blocks, aside, n)
<1>. DEFINE print == Fingerprint(blocks[n])
            prefix == IF Len(print) >= PrefixWords THEN {SubSeq(print, 1, PrefixWords)} ELSE {}
            small == BlockSize(blocks[n]) < MinChars \/ (Len(blocks[n]) = 1 /\ IsStructural(blocks[n][1]))
            next == Sifted(seen, blocks[n], n)
<1>0. Len(blocks) \in Nat /\ n - 1 \in Nat /\ (\A m \in 1..n : m \in 1..(n - 1) \/ m = n) /\ blocks[n] \in Docs
  OBVIOUS
<1>1. next = IF small THEN [seen EXCEPT !.kept = @ \cup {n}]
             ELSE IF print \in seen.exact THEN seen
             ELSE IF prefix \subseteq seen.prefix /\ prefix # {} THEN [seen EXCEPT !.exact = @ \cup {print}]
             ELSE [kept |-> seen.kept \cup {n}, exact |-> seen.exact \cup {print},
                   prefix |-> seen.prefix \cup prefix]
  BY DEF Sifted
<1>2. \A p \in prefix : Range(p) = First(print)
  BY <1>0, PrintIs, FirstPrefix
<1>. HIDE DEF print, prefix, small, next
<1>3. /\ \A p \in seen.exact : Vouched(First(p), blocks, seen.kept, aside)
      /\ \A p \in seen.prefix : Vouched(Range(p), blocks, seen.kept, aside)
      /\ \A m \in 1..(n - 1) : m \in seen.kept \/ Vouched(First(Fingerprint(blocks[m])), blocks, seen.kept, aside)
  BY DEF Vouches
<1>4. \A kept : n \in kept => Vouched(First(print), blocks, kept, aside)
  BY DEF Vouched, print
<1>5. seen.kept \subseteq next.kept
  BY SiftedIs, <1>0 DEF next
<1>6. /\ \A p \in seen.exact : Vouched(First(p), blocks, next.kept, aside)
      /\ \A p \in seen.prefix : Vouched(Range(p), blocks, next.kept, aside)
      /\ \A m \in 1..(n - 1) : m \in next.kept \/ Vouched(First(Fingerprint(blocks[m])), blocks, next.kept, aside)
  BY <1>3, <1>5, VouchedMore
<1>7. /\ next.exact \subseteq seen.exact \cup {print} /\ next.prefix \subseteq seen.prefix \cup prefix
      /\ n \in next.kept \/ Vouched(First(print), blocks, next.kept, aside)
      /\ print \in next.exact /\ print \notin seen.exact => Vouched(First(print), blocks, next.kept, aside)
      /\ next.prefix \subseteq seen.prefix \/ n \in next.kept
  <2>1. CASE small
    BY <1>1, <2>1 DEF SeenType
  <2>2. CASE ~small /\ print \in seen.exact
    BY <1>1, <1>3, <2>2 DEF SeenType
  <2>3. CASE ~small /\ print \notin seen.exact /\ prefix \subseteq seen.prefix /\ prefix # {}
    <3>1. next = [seen EXCEPT !.exact = @ \cup {print}]
      BY <1>1, <2>3
    <3>2. next.kept = seen.kept /\ next.exact = seen.exact \cup {print} /\ next.prefix = seen.prefix
      BY <3>1 DEF SeenType
    <3>3. PICK p \in prefix : p \in seen.prefix
      BY <2>3
    <3>4. Vouched(First(print), blocks, seen.kept, aside)
      BY <1>2, <1>3, <3>3
    <3>. QED BY <3>2, <3>4
  <2>4. CASE ~small /\ print \notin seen.exact /\ ~(prefix \subseteq seen.prefix /\ prefix # {})
    <3>1. next = [kept |-> seen.kept \cup {n}, exact |-> seen.exact \cup {print}, prefix |-> seen.prefix \cup prefix]
      BY <1>1, <2>4
    <3>2. next.kept = seen.kept \cup {n} /\ next.exact = seen.exact \cup {print} /\ next.prefix = seen.prefix \cup prefix
      BY <3>1
    <3>. QED BY <1>4, <3>2
  <2>. QED BY <2>1, <2>2, <2>3, <2>4
<1>8. \A p \in next.exact : Vouched(First(p), blocks, next.kept, aside)
  BY <1>6, <1>7
<1>9. \A p \in next.prefix : Vouched(Range(p), blocks, next.kept, aside)
  BY <1>2, <1>4, <1>6, <1>7
<1>10. \A m \in 1..n : m \in next.kept \/ Vouched(First(Fingerprint(blocks[m])), blocks, next.kept, aside)
  BY <1>0, <1>6, <1>7 DEF print
<1>. QED BY <1>8, <1>9, <1>10 DEF Vouches, next

LEMMA LookVouches ==
  ASSUME NEW blocks \in Seq(Docs), NEW aside, NEW n \in 1..Len(blocks), NEW seen \in SeenType,
         Vouches(seen, blocks, aside, n - 1)
  PROVE  Vouches(Look(seen, blocks, aside, n), blocks, aside, n)
<1>1. CASE n \notin aside
  BY <1>1, SiftedVouches DEF Look
<1>2. CASE n \in aside
  <2>1. Look(seen, blocks, aside, n) = [seen EXCEPT !.kept = @ \cup {n}]
    BY <1>2 DEF Look
  <2>. DEFINE next == Look(seen, blocks, aside, n)
  <2>2. next.kept = seen.kept \cup {n} /\ next.exact = seen.exact /\ next.prefix = seen.prefix
    BY <2>1 DEF SeenType
  <2>. HIDE DEF next
  <2>3. n - 1 \in Nat /\ \A m \in 1..n : m \in 1..(n - 1) \/ m = n
    OBVIOUS
  <2>4. seen.kept \subseteq next.kept
    BY <2>2
  <2>5. /\ \A p \in seen.exact : Vouched(First(p), blocks, next.kept, aside)
        /\ \A p \in seen.prefix : Vouched(Range(p), blocks, next.kept, aside)
        /\ \A m \in 1..(n - 1) : m \in next.kept \/ Vouched(First(Fingerprint(blocks[m])), blocks, next.kept, aside)
    BY <2>4, VouchedMore DEF Vouches
  <2>6. Vouches(next, blocks, aside, n)
    BY <2>2, <2>3, <2>5 DEF Vouches
  <2>. QED BY <2>6 DEF next
<1>. QED BY <1>1, <1>2

LEMMA FreshVouches ==
  ASSUME NEW blocks \in Seq(Docs), NEW aside, NEW m \in 1..Len(blocks)
  PROVE  \/ m \in Fresh(blocks, aside)
         \/ Vouched(First(Fingerprint(blocks[m])), blocks, Fresh(blocks, aside), aside)
<1>. DEFINE N == Len(blocks)
<1>1. PICK up : FreshSteps(up, blocks, aside)
  BY FreshUp
<1>2. /\ N \in Nat /\ up[0] = Unseen /\ (\A n \in 1..N : up[n] = Look(up[n - 1], blocks, aside, n))
      /\ (\A n \in 0..N : up[n] \in SeenType) /\ Fresh(blocks, aside) = up[N].kept
  BY <1>1 DEF FreshSteps
<1>. DEFINE T == {n \in Nat : n <= N => Vouches(up[n], blocks, aside, n)}
<1>3. 0 \in T
  <2>1. Unseen.exact = {} /\ Unseen.prefix = {} /\ 1..0 = {}
    BY DEF Unseen
  <2>2. Vouches(Unseen, blocks, aside, 0)
    BY <2>1 DEF Vouches
  <2>. QED BY <1>2, <2>2
<1>4. ASSUME NEW n \in Nat, n \in T PROVE n + 1 \in T
  <2>. SUFFICES ASSUME n + 1 <= N PROVE Vouches(up[n + 1], blocks, aside, n + 1)
    OBVIOUS
  <2>1. n + 1 \in 1..N /\ (n + 1) - 1 = n /\ n \in 0..N /\ n <= N
    BY <1>2
  <2>2. Vouches(up[n], blocks, aside, n) /\ up[n] \in SeenType
    BY <1>2, <1>4, <2>1
  <2>3. up[n + 1] = Look(up[n], blocks, aside, n + 1)
    BY <1>2, <2>1
  <2>4. Vouches(Look(up[n], blocks, aside, n + 1), blocks, aside, n + 1)
    BY <2>1, <2>2, LookVouches
  <2>. QED BY <2>3, <2>4
<1>5. Vouches(up[N], blocks, aside, N)
  <2>1. N \in T
    <3>. HIDE DEF T
    <3>. QED BY <1>2, <1>3, <1>4, SetInduction
  <2>. QED BY <1>2, <2>1
<1>. QED BY <1>2, <1>5 DEF Vouches

(* The first words of two sequences put together are first words of one    *)
(* or of the other, and those of the first are among them.                 *)
LEMMA FirstConcat ==
  ASSUME NEW a \in Seq(Words), NEW b \in Seq(Words)
  PROVE  /\ First(a \o b) \subseteq First(a) \cup First(b)
         /\ First(a) \subseteq First(a \o b)
<1>1. /\ a \o b \in Seq(Words) /\ Len(a \o b) = Len(a) + Len(b) /\ Len(a) \in Nat /\ Len(b) \in Nat
      /\ (\A n \in 1..Len(a) : (a \o b)[n] = a[n]) /\ \A n \in 1..Len(b) : (a \o b)[Len(a) + n] = b[n]
  BY ConcatIs
<1>. DEFINE c == a \o b
<1>2. PrefixWords \in Nat /\ c \in Seq(Words) /\ Len(c) = Len(a) + Len(b)
  BY <1>1, TextAssumption
<1>3. (\A n \in 1..Len(a) : c[n] = a[n]) /\ \A n \in 1..Len(b) : c[Len(a) + n] = b[n]
  BY <1>1
<1>. HIDE DEF c
<1>4. ASSUME NEW w \in First(a) PROVE w \in First(c)
  <2>1. PICK n \in 1..Len(a) : n <= PrefixWords /\ w = a[n]
    BY <1>4, FirstIs
  <2>2. n \in 1..Len(c) /\ w = c[n]
    BY <1>1, <1>2, <1>3, <2>1
  <2>. QED BY <1>2, <2>1, <2>2, FirstIs
<1>5. ASSUME NEW w \in First(c) PROVE w \in First(a) \cup First(b)
  <2>1. PICK n \in 1..Len(c) : n <= PrefixWords /\ w = c[n]
    BY <1>2, <1>5, FirstIs
  <2>2. CASE n <= Len(a)
    <3>1. n \in 1..Len(a) /\ w = a[n]
      BY <1>1, <1>3, <2>1, <2>2
    <3>. QED BY <2>1, <3>1, FirstIs
  <2>3. CASE ~(n <= Len(a))
    <3>1. n - Len(a) \in 1..Len(b) /\ n - Len(a) <= PrefixWords /\ Len(a) + (n - Len(a)) = n
      BY <1>1, <1>2, <2>1, <2>3
    <3>2. w = b[n - Len(a)]
      BY <1>3, <2>1, <3>1
    <3>. QED BY <3>1, <3>2, FirstIs
  <2>. QED BY <2>2, <2>3
<1>. QED BY <1>4, <1>5 DEF c

(* The same, for any number of sequences.                                  *)
LEMMA FirstOfFlat ==
  ASSUME NEW ss \in Seq(Seq(Words))
  PROVE  /\ \A w \in First(FlattenSeq(ss)) : \E m \in 1..Len(ss) : w \in First(ss[m])
         /\ Len(ss) >= 1 => First(ss[1]) \subseteq First(FlattenSeq(ss))
<1>. DEFINE flat(n) == FlattenSeq(Prefix(ss, n))
            some(n) == \A w \in First(flat(n)) : \E m \in 1..n : w \in First(ss[m])
            starts(n) == n >= 1 => First(ss[1]) \subseteq First(flat(n))
            T == {n \in Nat : n <= Len(ss) => some(n) /\ starts(n)}
<1>0. Len(ss) \in Nat /\ \A n \in 1..Len(ss) : ss[n] \in Seq(Words)
  OBVIOUS
<1>1. /\ flat(0) = <<>> /\ flat(Len(ss)) = FlattenSeq(ss)
      /\ \A n \in 0..Len(ss) : flat(n) \in Seq(Words)
      /\ \A n \in Nat : n + 1 <= Len(ss) => flat(n + 1) = flat(n) \o ss[n + 1]
  BY FlattenPrefix
<1>. HIDE DEF flat
<1>2. 0 \in T
  <2>1. First(flat(0)) = {}
    BY <1>1 DEF First
  <2>. QED BY <2>1
<1>3. ASSUME NEW n \in Nat, n \in T PROVE n + 1 \in T
  <2>0. n + 1 \in Nat
    OBVIOUS
  <2>. SUFFICES ASSUME n + 1 <= Len(ss) PROVE some(n + 1) /\ starts(n + 1)
    <3>. HIDE DEF some, starts
    <3>. QED BY <2>0
  <2>1. n <= Len(ss) /\ n \in 0..Len(ss) /\ n + 1 \in 1..Len(ss)
    BY <1>0
  <2>2. some(n) /\ starts(n)
    <3>. HIDE DEF some, starts
    <3>. QED BY <1>3, <2>1
  <2>. DEFINE a == flat(n)
              b == ss[n + 1]
  <2>3. a \in Seq(Words) /\ b \in Seq(Words) /\ flat(n + 1) = a \o b
    BY <1>0, <1>1, <2>1
  <2>4. First(a) \subseteq First(flat(n + 1)) /\ First(flat(n + 1)) \subseteq First(a) \cup First(b)
    <3>. HIDE DEF a, b
    <3>1. First(a \o b) \subseteq First(a) \cup First(b) /\ First(a) \subseteq First(a \o b)
      BY <2>3, FirstConcat
    <3>. QED BY <2>3, <3>1
  <2>5. \A m \in 1..n : m \in 1..(n + 1)
    OBVIOUS
  <2>6. some(n + 1)
    <3>. SUFFICES ASSUME NEW w \in First(flat(n + 1)) PROVE \E m \in 1..(n + 1) : w \in First(ss[m])
      OBVIOUS
    <3>1. n + 1 \in 1..(n + 1)
      OBVIOUS
    <3>2. CASE w \in First(a)
      BY <2>2, <2>5, <3>2
    <3>3. CASE w \in First(b)
      BY <3>1, <3>3
    <3>. QED BY <2>4, <3>2, <3>3
  <2>7. starts(n + 1)
    <3>1. CASE n = 0
      <4>0. n + 1 = 1 /\ flat(n) = <<>>
        BY <1>1, <3>1
      <4>1. flat(n + 1) = <<>> \o ss[1]
        BY <2>3, <4>0
      <4>2. ss[1] \in Seq(Words)
        BY <2>3, <3>1
      <4>3. <<>> \o ss[1] = ss[1]
        BY <4>2, ConcatEmptySeq
      <4>. QED BY <4>1, <4>3
    <3>2. CASE n # 0
      <4>1. n >= 1
        BY <3>2
      <4>. QED BY <2>2, <2>4, <4>1
    <3>. QED BY <3>1, <3>2
  <2>. QED BY <2>6, <2>7
<1>4. Len(ss) \in T
  <2>. HIDE DEF T
  <2>. QED BY <1>0, <1>2, <1>3, SetInduction
<1>5. Len(ss) <= Len(ss)
  BY <1>0
<1>. QED BY <1>1, <1>4, <1>5

(* What a block is told apart by begins with the words of its first line,  *)
(* and its first words are first words of its lines.                       *)
LEMMA PrintFirst ==
  ASSUME NEW block \in Docs
  PROVE  /\ \A w \in First(Fingerprint(block)) : \E n \in 1..Len(block) : w \in First(Key(block[n].words))
         /\ block # <<>> => First(Key(block[1].words)) \subseteq First(Fingerprint(block))
<1>. DEFINE put(n) == Key(block[n].words)
            ss == [n \in 1..Len(block) |-> put(n)]
<1>0. Len(block) \in Nat /\ DOMAIN block = 1..Len(block) /\ \A n \in 1..Len(block) : block[n].words \in Seq(Words)
  BY DocIs, LineIs
<1>1. \A n \in 1..Len(block) : put(n) \in Seq(Words)
  BY <1>0, KeyIs
<1>2. Fingerprint(block) = FlattenSeq(ss)
  BY <1>0 DEF Fingerprint
<1>. HIDE DEF put
<1>3. ss \in [1..Len(block) -> Seq(Words)] /\ \A n \in 1..Len(block) : ss[n] = put(n)
  BY <1>1
<1>. HIDE DEF ss
<1>4. ss \in Seq(Seq(Words)) /\ Len(ss) = Len(block)
  BY <1>0, <1>3, FunctionIsSequence
<1>5. /\ \A w \in First(FlattenSeq(ss)) : \E m \in 1..Len(ss) : w \in First(ss[m])
      /\ Len(ss) >= 1 => First(ss[1]) \subseteq First(FlattenSeq(ss))
  BY <1>4, FirstOfFlat
<1>6. block # <<>> => Len(ss) >= 1 /\ 1 \in 1..Len(block)
  <2>1. block # <<>> => Len(block) # 0
    BY DEF Docs
  <2>. QED BY <1>0, <1>4, <2>1
<1>7. \A w \in First(Fingerprint(block)) : \E n \in 1..Len(block) : w \in First(put(n))
  BY <1>2, <1>3, <1>4, <1>5
<1>8. block # <<>> => First(put(1)) \subseteq First(Fingerprint(block))
  BY <1>2, <1>3, <1>5, <1>6
<1>. QED BY <1>7, <1>8 DEF put

(* A line of a block is a line of the blocks put together.                 *)
LEMMA JoinedHas ==
  ASSUME NEW blocks \in Seq(Docs), NEW m \in 1..Len(blocks)
  PROVE  Range(blocks[m]) \subseteq Range(Joined(blocks))
<1>. DEFINE put(n) == IF n = 1 THEN blocks[n] ELSE <<Blank>> \o blocks[n]
            apart == [n \in 1..Len(blocks) |-> put(n)]
<1>1. DOMAIN blocks = 1..Len(blocks) /\ Len(blocks) \in Nat /\ \A n \in 1..Len(blocks) : blocks[n] \in Docs
  OBVIOUS
<1>2. Joined(blocks) = FlattenSeq(apart)
  BY <1>1 DEF Joined
<1>3. ASSUME NEW n \in 1..Len(blocks) PROVE put(n) \in Docs /\ Range(blocks[n]) \subseteq Range(put(n))
  <2>1. CASE n = 1
    BY <1>1, <2>1
  <2>2. CASE n # 1
    <3>. DEFINE one == <<Blank>>
                block == blocks[n]
    <3>0. put(n) = one \o block /\ one \in Docs /\ block \in Docs
      BY <1>1, <2>2, BlankSub
    <3>1. one \in Seq(Line) /\ block \in Seq(Line)
      BY <3>0 DEF Docs
    <3>. HIDE DEF one, block, put
    <3>2. Range(one \o block) = Range(one) \cup Range(block)
      BY ONLY <3>1, ConcatRange
    <3>3. one \o block \in Docs
      BY <3>0, EndsConcat
    <3>. QED BY <3>0, <3>2, <3>3 DEF block
  <2>. QED BY <2>1, <2>2
<1>. HIDE DEF put
<1>4. apart \in [1..Len(blocks) -> Docs] /\ \A n \in 1..Len(blocks) : apart[n] = put(n)
  BY <1>3
<1>. HIDE DEF apart
<1>5. apart \in Seq(Docs) /\ Len(apart) = Len(blocks)
  BY <1>1, <1>4, FunctionIsSequence
<1>6. apart \in Seq(Seq(Line))
  BY <1>5 DEF Docs
<1>7. \A w : w \in Range(FlattenSeq(apart)) <=> \E n \in 1..Len(apart) : w \in Range(apart[n])
  BY <1>6, FlattenRange
<1>8. \A w \in Range(blocks[m]) : w \in Range(apart[m])
  BY <1>3, <1>4
<1>. QED BY <1>2, <1>5, <1>7, <1>8

(* Each of some words is among the first words of a line that is no fence. *)
Tells(doc, words) ==
  \A w \in words : \E n \in 1..Len(doc) : ~IsFence(doc[n]) /\ w \in First(Key(doc[n].words))

(* Of blocks that stay, the lines are in the document they make.           *)
LEMMA KeptBlocks ==
  ASSUME NEW blocks \in Seq(Docs), NEW places, NEW m \in 1..Len(blocks), m \in places
  PROVE  Range(blocks[m]) \subseteq Range(Joined(Keep(blocks, places)))
<1>. DEFINE rest == Keep(blocks, places)
<1>1. rest \in Seq(Docs)
  BY KeepMembers
<1>2. PICK k \in 1..Len(rest) : rest[k] = blocks[m]
  BY KeepMembers
<1>. HIDE DEF rest
<1>3. Range(rest[k]) \subseteq Range(Joined(rest))
  BY <1>1, JoinedHas
<1>. QED BY <1>2, <1>3 DEF rest

(* A block that goes has its first words in one that is looked at, too,    *)
(* and stays; code is not looked at.                                       *)
LEMMA ContentBlocksTell ==
  ASSUME NEW line \in Line, IsProse(line), NEW doc, Opening(doc, line)
  PROVE  Tells(DedupContentBlocks(doc), First(line.words))
<1>. DEFINE blocks == Blocks(doc)
            aside == {n \in DOMAIN blocks : InCode(blocks, n)}
            places == Fresh(blocks, aside)
            out == Joined(Keep(blocks, places))
<1>0. doc \in Docs /\ Begins(doc, line) /\ line # Blank
  BY ProseIs DEF Opening
<1>1. blocks \in Seq(Docs)
  BY <1>0, BlocksSub
<1>2. DedupContentBlocks(doc) = out
  BY DEF DedupContentBlocks
<1>3. PICK m \in 1..Len(blocks) : blocks[m] \in Docs /\ blocks[m] # <<>> /\ blocks[m][1] = line
  BY <1>0, FirstOfBlock
<1>. HIDE DEF blocks
<1>4. DOMAIN blocks = 1..Len(blocks) /\ (\A n \in 1..Len(blocks) : blocks[n] \in Docs /\ DOMAIN blocks[n] = 1..Len(blocks[n]))
  BY <1>1, DocIs
<1>5. \/ m \in places
      \/ Vouched(First(Fingerprint(blocks[m])), blocks, places, aside)
  BY <1>1, FreshVouches
<1>6. Key(line.words) = line.words /\ ~IsFence(line)
  BY ProseKey, ProseIs
<1>7. out \in Docs
  <2>1. Keep(blocks, places) \in Seq(Docs)
    <3>. HIDE DEF places
    <3>. QED BY <1>1, KeepMembers
  <2>. QED BY <2>1, JoinedSub
<1>8. CASE m \in places
  <2>1. Range(blocks[m]) \subseteq Range(out)
    <3>. HIDE DEF places
    <3>. QED BY <1>1, <1>8, KeptBlocks
  <2>2. line \in Range(blocks[m])
    <3>1. Len(blocks[m]) \in Nat /\ Len(blocks[m]) # 0
      BY <1>3 DEF Docs
    <3>2. 1 \in DOMAIN blocks[m]
      BY <1>4, <3>1
    <3>. QED BY <1>3, <3>2 DEF Range
  <2>. HIDE DEF out
  <2>3. PICK k \in 1..Len(out) : out[k] = line
    BY <1>7, <2>1, <2>2, RangeIs DEF Docs
  <2>. QED BY <1>2, <1>6, <2>3 DEF Tells
<1>9. CASE Vouched(First(Fingerprint(blocks[m])), blocks, places, aside)
  <2>1. PICK i \in 1..Len(blocks) : i \in places /\ i \notin aside /\ First(Fingerprint(blocks[m])) \subseteq First(Fingerprint(blocks[i]))
    BY <1>9 DEF Vouched
  <2>. DEFINE block == blocks[i]
  <2>2. block \in Docs /\ \A n \in 1..Len(block) : ~IsFence(block[n])
    BY <1>4, <2>1 DEF InCode
  <2>3. Range(block) \subseteq Range(out)
    <3>. HIDE DEF places
    <3>. QED BY <1>1, <2>1, KeptBlocks
  <2>. HIDE DEF out, places, aside
  <2>4. First(line.words) \subseteq First(Fingerprint(blocks[m]))
    BY <1>3, <1>6, PrintFirst
  <2>5. First(line.words) \subseteq First(Fingerprint(block))
    BY <2>1, <2>4
  <2>. HIDE DEF block
  <2>6. ASSUME NEW w \in First(line.words)
        PROVE  \E n \in 1..Len(out) : ~IsFence(out[n]) /\ w \in First(Key(out[n].words))
    <3>1. PICK n \in 1..Len(block) : w \in First(Key(block[n].words))
      BY <2>2, <2>5, <2>6, PrintFirst
    <3>2. block[n] \in Range(block)
      BY <2>2, RangeIs DEF Docs
    <3>3. PICK k \in 1..Len(out) : out[k] = block[n]
      BY <1>7, <2>3, <3>2, RangeIs DEF Docs
    <3>. QED BY <2>2, <3>1, <3>3
  <2>. QED BY <1>2, <2>6 DEF Tells
<1>. QED BY <1>5, <1>8, <1>9

(* A first word of a line of a block is a word of a line of it that stays. *)
LEMMA OnceEachSays ==
  ASSUME NEW block \in Docs, NEW p \in 1..Len(block), NEW w \in First(Key(block[p].words))
  PROVE  \E line \in Range(OnceEach(block)) : line \in Range(block) /\ w \in Range(line.words)
<1>. DEFINE one(n) == <<block[n]>>
            singles == [n \in 1..Len(block) |-> one(n)]
            places == Fresh(singles, {})
<1>0. Len(block) \in Nat /\ DOMAIN block = 1..Len(block) /\ \A n \in 1..Len(block) : block[n] \in Line /\ block[n].words \in Seq(Words)
  BY DocIs, LineIs
<1>1. OnceEach(block) = Keep(block, places)
  BY <1>0 DEF OnceEach
<1>2. \A n \in 1..Len(block) : one(n) \in Docs /\ one(n) # <<>> /\ Len(one(n)) = 1 /\ one(n)[1] = block[n]
  BY <1>0, OneIs DEF Docs
<1>. HIDE DEF one
<1>3. singles \in [1..Len(block) -> Docs] /\ \A n \in 1..Len(block) : singles[n] = one(n)
  BY <1>2
<1>. HIDE DEF singles
<1>4. singles \in Seq(Docs) /\ Len(singles) = Len(block)
  BY <1>0, <1>3, FunctionIsSequence
<1>5. \/ p \in places
      \/ Vouched(First(Fingerprint(singles[p])), singles, places, {})
  BY <1>4, FreshVouches
<1>. HIDE DEF places
<1>6. \A n \in 1..Len(block) : n \in places => block[n] \in Range(OnceEach(block)) /\ block[n] \in Range(block)
  <2>. SUFFICES ASSUME NEW n \in 1..Len(block), n \in places
                PROVE  block[n] \in Range(OnceEach(block)) /\ block[n] \in Range(block)
    OBVIOUS
  <2>1. Keep(block, places) \in Seq(Line) /\ \E k \in 1..Len(Keep(block, places)) : Keep(block, places)[k] = block[n]
    BY KeepMembers DEF Docs
  <2>2. block[n] \in Range(Keep(block, places))
    BY <2>1, RangeIs
  <2>. QED BY <1>0, <1>1, <2>2 DEF Range
<1>7. \A n \in 1..Len(block) : First(Key(block[n].words)) \subseteq Range(block[n].words)
  BY <1>0, KeyIs, FirstIs
<1>8. CASE p \in places
  BY <1>6, <1>7, <1>8
<1>9. CASE Vouched(First(Fingerprint(singles[p])), singles, places, {})
  <2>1. PICK i \in 1..Len(block) : i \in places /\ First(Fingerprint(singles[p])) \subseteq First(Fingerprint(singles[i]))
    BY <1>4, <1>9 DEF Vouched
  <2>2. w \in First(Fingerprint(singles[p]))
    BY <1>2, <1>3, PrintFirst
  <2>3. \E n \in 1..Len(singles[i]) : w \in First(Key(singles[i][n].words))
    BY <1>2, <1>3, <2>1, <2>2, PrintFirst
  <2>4. w \in First(Key(block[i].words))
    BY <1>2, <1>3, <2>3
  <2>. QED BY <1>6, <1>7, <2>1, <2>4
<1>. QED BY <1>5, <1>8, <1>9

LEMMA LinesSay ==
  ASSUME NEW doc \in Docs, NEW words, Tells(doc, words)
  PROVE  words \subseteq Said(DedupLines(doc))
<1>. SUFFICES ASSUME NEW w \in words PROVE w \in Said(DedupLines(doc))
  OBVIOUS
<1>. DEFINE blocks == Blocks(doc)
            put(n) == IF InCode(blocks, n) \/ Len(blocks[n]) <= 2 THEN blocks[n] ELSE OnceEach(blocks[n])
            out == [n \in 1..Len(blocks) |-> put(n)]
<1>1. blocks \in Seq(Docs)
  BY BlocksSub
<1>2. DOMAIN blocks = 1..Len(blocks) /\ Len(blocks) \in Nat
      /\ \A n \in 1..Len(blocks) : blocks[n] \in Docs /\ DOMAIN blocks[n] = 1..Len(blocks[n])
  <2>. HIDE DEF blocks
  <2>. QED BY <1>1, DocIs
<1>3. DedupLines(doc) = Joined(out)
  BY <1>2 DEF DedupLines
<1>4. PICK n \in 1..Len(doc) : ~IsFence(doc[n]) /\ w \in First(Key(doc[n].words))
  BY DEF Tells
<1>5. w \in Range(doc[n].words) /\ doc[n] # Blank
  <2>1. doc[n].words \in Seq(Words)
    BY DocIs, LineIs
  <2>2. w \in Range(doc[n].words)
    BY <1>4, <2>1, KeyIs, FirstIs
  <2>3. Range(<<>>) = {}
    BY EmptyRange
  <2>. QED BY <2>2, <2>3, BlankIs
<1>6. PICK m \in 1..Len(blocks) : doc[n] \in Range(blocks[m])
  BY <1>5, LineInBlock
<1>. HIDE DEF blocks
<1>7. \A k \in 1..Len(blocks) : OnceEach(blocks[k]) \in Docs
  <2>. SUFFICES ASSUME NEW k \in 1..Len(blocks) PROVE OnceEach(blocks[k]) \in Docs
    OBVIOUS
  <2>1. blocks[k] \in Seq(Line)
    BY <1>2 DEF Docs
  <2>. QED BY <2>1, KeepMembers DEF OnceEach, Docs
<1>8. \A k \in 1..Len(blocks) : put(k) \in Docs
  BY <1>2, <1>7
<1>9. \E line \in Range(put(m)) : ~IsFence(line) /\ w \in Range(line.words)
  <2>1. CASE InCode(blocks, m) \/ Len(blocks[m]) <= 2
    BY <1>4, <1>5, <1>6, <2>1
  <2>2. CASE ~(InCode(blocks, m) \/ Len(blocks[m]) <= 2)
    <3>. DEFINE block == blocks[m]
    <3>1. block \in Docs /\ DOMAIN block = 1..Len(block) /\ \A k \in 1..Len(block) : ~IsFence(block[k])
      BY <1>2, <2>2 DEF InCode
    <3>2. put(m) = OnceEach(block)
      BY <2>2
    <3>. HIDE DEF put
    <3>3. doc[n] \in Range(block)
      BY <1>6
    <3>. HIDE DEF block
    <3>4. PICK p \in 1..Len(block) : block[p] = doc[n]
      BY <3>1, <3>3, RangeIs DEF Docs
    <3>5. PICK line \in Range(OnceEach(block)) : line \in Range(block) /\ w \in Range(line.words)
      BY <1>4, <3>1, <3>4, OnceEachSays
    <3>6. ~IsFence(line)
      BY <3>1, <3>5, RangeIs DEF Docs
    <3>. QED BY <3>2, <3>5, <3>6
  <2>. QED BY <2>1, <2>2
<1>. HIDE DEF put
<1>10. out \in [1..Len(blocks) -> Docs] /\ out[m] = put(m)
  BY <1>8
<1>. HIDE DEF out
<1>11. out \in Seq(Docs) /\ Len(out) = Len(blocks)
  BY <1>2, <1>10, FunctionIsSequence
<1>12. Range(put(m)) \subseteq Range(Joined(out))
  BY <1>10, <1>11, JoinedHas
<1>13. PICK line \in Range(Joined(out)) : ~IsFence(line) /\ w \in Range(line.words)
  BY <1>9, <1>12
<1>14. \E k \in DOMAIN Joined(out) : ~IsFence(Joined(out)[k]) /\ w \in Range(Joined(out)[k].words)
  BY <1>13 DEF Range
<1>. QED BY <1>3, <1>14, SaidAre

LEMMA HeadingsAre ==
  ASSUME NEW doc, NEW w
  PROVE  w \in InHeadings(doc) <=> \E h \in DOMAIN doc : IsHeading(doc[h]) /\ w \in Range(doc[h].words)
BY DEF InHeadings

(* Line for line.                                                          *)
LEMMA CommaListsSay == ASSUME NEW doc \in Docs PROVE Said(doc) \subseteq Said(DedupCommaLists(doc))
<1>1. PICK out \in [1..Len(doc) -> Line] :
        /\ DedupCommaLists(doc) = Lines(out)
        /\ \A n \in 1..Len(doc) : (IsFence(out[n]) <=> IsFence(doc[n])) /\ Range(out[n].words) = Range(doc[n].words)
  BY CommaListsLines
<1>2. DedupCommaLists(doc) = out /\ DOMAIN out = 1..Len(doc) /\ DOMAIN doc = 1..Len(doc)
  BY <1>1, LinesIs, DocIs
<1>3. ASSUME NEW w \in Said(doc) PROVE w \in Said(DedupCommaLists(doc))
  BY <1>1, <1>2, <1>3, SaidAre
<1>. QED BY <1>3

(* What is lost when lines go: nothing with blank ones, what they say with *)
(* headings.                                                               *)
LEMMA KeptSaid ==
  ASSUME NEW doc \in Docs, NEW places, \A n \in 1..Len(doc) : n \in places \/ doc[n] = Blank \/ IsHeading(doc[n])
  PROVE  /\ Said(doc) \subseteq Said(Keep(doc, places)) \cup InHeadings(doc)
         /\ (\A n \in 1..Len(doc) : n \in places \/ doc[n] = Blank) => Said(doc) \subseteq Said(Keep(doc, places))
<1>. DEFINE out == Keep(doc, places)
<1>1. DOMAIN doc = 1..Len(doc)
  BY DocIs
<1>2. out \in Seq(Line) /\ \A n \in 1..Len(doc) : n \in places => \E k \in 1..Len(out) : out[k] = doc[n]
  BY KeepMembers DEF Docs
<1>. HIDE DEF out
<1>3. DOMAIN out = 1..Len(out)
  BY <1>2
<1>4. Range(<<>>) = {} /\ Blank.words = <<>>
  BY EmptyRange, BlankIs
<1>5. ASSUME NEW w \in Said(doc)
      PROVE  w \in Said(out) \/ \E n \in 1..Len(doc) : n \notin places /\ IsHeading(doc[n]) /\ w \in Range(doc[n].words)
  <2>1. PICK n \in 1..Len(doc) : ~IsFence(doc[n]) /\ w \in Range(doc[n].words)
    BY <1>1, <1>5, SaidAre
  <2>2. CASE n \in places
    <3>1. PICK k \in 1..Len(out) : out[k] = doc[n]
      BY <1>2, <2>2
    <3>. QED BY <1>3, <2>1, <3>1, SaidAre
  <2>3. CASE n \notin places
    BY <1>4, <2>1, <2>3
  <2>. QED BY <2>2, <2>3
<1>6. Said(doc) \subseteq Said(out) \cup InHeadings(doc)
  BY <1>1, <1>5, HeadingsAre
<1>7. (\A n \in 1..Len(doc) : n \in places \/ doc[n] = Blank) => Said(doc) \subseteq Said(out)
  BY <1>5, BlankIs
<1>. QED BY <1>6, <1>7 DEF out

LEMMA TrailingHeadingsSay ==
  ASSUME NEW doc \in Docs PROVE Said(doc) \subseteq Said(StripTrailingEmptyHeadings(doc)) \cup InHeadings(doc)
<1>0. DOMAIN doc = 1..Len(doc)
  BY DocIs
<1>. DEFINE below(n) == LET next == LineAfter(doc, n)
                        IN  next # 0 /\ (IsHeading(doc[next]) => Level[doc[next].mark] > Level[doc[n].mark])
            places == {n \in DOMAIN doc : IsHeading(doc[n]) => below(n)}
<1>1. StripTrailingEmptyHeadings(doc) = Keep(doc, places)
  BY DEF StripTrailingEmptyHeadings
<1>. HIDE DEF below
<1>2. \A n \in 1..Len(doc) : n \in places \/ doc[n] = Blank \/ IsHeading(doc[n])
  BY <1>0
<1>. HIDE DEF places
<1>. QED BY <1>1, <1>2, KeptSaid

LEMMA WhitespaceSays == ASSUME NEW doc \in Docs PROVE Said(doc) \subseteq Said(CollapseWhitespace(doc))
<1>0. DOMAIN doc = 1..Len(doc)
  BY DocIs
<1>. DEFINE between(n) == n > 1 /\ doc[n - 1] # Blank /\ NextLine(doc, n) # 0
            places == {n \in DOMAIN doc : doc[n] = Blank => between(n)}
<1>1. CollapseWhitespace(doc) = Keep(doc, places)
  BY DEF CollapseWhitespace
<1>. HIDE DEF between
<1>2. \A n \in 1..Len(doc) : n \in places \/ doc[n] = Blank
  BY <1>0
<1>. HIDE DEF places
<1>. QED BY <1>1, <1>2, KeptSaid

(* Every line is among those some step of a walk stands for.               *)
LEMMA FaithfulSays ==
  ASSUME NEW doc \in Docs, NEW gives, NEW next, FaithfulWalk(gives, next, doc)
  PROVE  Said(doc) \subseteq Said(Walked(gives, next))
<1>. DEFINE N == Len(doc)
            out == Walked(gives, next)
<1>0. N \in Nat /\ DOMAIN doc = 1..N
  BY DocIs
<1>1. gives \in [1..N -> Seq(Line)] /\ (\A n \in 1..N : next[n] \in (n + 1)..(N + 1))
      /\ \A n \in 1..N : SaidBy(gives[n], doc, n, next[n])
  BY DEF FaithfulWalk, Docs
<1>2. out \in Docs
  BY FaithfulMade DEF Made
<1>. HIDE DEF N, out
<1>3. PICK g : Walks(g, gives, next, Line, N) /\ out = g[1]
  <2>1. \A n \in 1..N : next[n] \in (n + 1)..(N + 1)
    BY <1>1
  <2>2. IsWalk(Walked(gives, next), gives, next, Line, N)
    BY ONLY <1>0, <1>1, <2>1, WalkedIs
  <2>. QED BY <2>2 DEF IsWalk, out
<1>4. ASSUME NEW w \in Said(doc) PROVE w \in Said(out)
  <2>1. PICK k \in 1..N : ~IsFence(doc[k]) /\ w \in Range(doc[k].words)
    BY <1>0, <1>4, SaidAre
  <2>2. PICK m \in 1..k : k < next[m] /\ \E a : Before(a, g, gives, next, Line, N, m)
    BY <1>0, <1>1, <1>3, WalkCovers
  <2>3. PICK a : Before(a, g, gives, next, Line, N, m)
    BY <2>2
  <2>4. m \in 1..N
    BY <1>0
  <2>5. k \in m..(next[m] - 1)
    BY <1>0, <1>1, <2>2, <2>4
  <2>6. PICK line \in Range(gives[m]) : ~IsFence(line) /\ w \in Range(line.words)
    BY <1>1, <2>1, <2>4, <2>5 DEF SaidBy
  <2>7. line \in Range(g[1])
    BY <1>0, <1>1, <1>3, <2>3, <2>4, <2>6, WalkGives
  <2>8. \E j \in DOMAIN out : ~IsFence(out[j]) /\ w \in Range(out[j].words)
    BY <1>3, <2>6, <2>7 DEF Range
  <2>. QED BY <2>8, SaidAre
<1>. QED BY <1>4 DEF out

LEMMA CodeAndStatsSay ==
  ASSUME NEW doc \in Docs
  PROVE  Said(doc) \subseteq Said(StripEmptyCodeBlocks(doc)) /\ Said(doc) \subseteq Said(MergeStatLines(doc))
BY EmptyCodeWalk, StatLinesWalk, FaithfulSays

(* The headings of what a pass makes of a document are its own.            *)
HeadsOf(out, doc) ==
  /\ out \in Docs
  /\ \A line \in Range(out) : IsHeading(line) => line \in Range(doc)

LEMMA HeadsTrans == ASSUME NEW a, NEW b, NEW c, HeadsOf(a, b), HeadsOf(b, c) PROVE HeadsOf(a, c)
BY DEF HeadsOf

LEMMA HeadsSay == ASSUME NEW out, NEW doc, HeadsOf(out, doc) PROVE InHeadings(out) \subseteq InHeadings(doc)
<1>1. ASSUME NEW w \in InHeadings(out) PROVE w \in InHeadings(doc)
  <2>1. PICK h \in DOMAIN out : IsHeading(out[h]) /\ w \in Range(out[h].words)
    BY <1>1, HeadingsAre
  <2>2. out[h] \in Range(out)
    BY DEF Range
  <2>3. out[h] \in Range(doc)
    BY <2>1, <2>2 DEF HeadsOf
  <2>4. \E k \in DOMAIN doc : doc[k] = out[h]
    BY <2>3 DEF Range
  <2>. QED BY <2>1, <2>4, HeadingsAre
<1>. QED BY <1>1

LEMMA KeepHeads == ASSUME NEW doc \in Docs, NEW places PROVE HeadsOf(Keep(doc, places), doc)
BY KeepMembers, KeepRange DEF HeadsOf, Docs

LEMMA ClassesHeads == ASSUME NEW doc \in Docs PROVE HeadsOf(StripCssClassLines(doc), doc)
<1>. DEFINE item == [mark |-> "-", words |-> <<>>]
            places == {n \in DOMAIN doc : Outside(doc, n) => ~MostlyClasses(doc[n]) /\ doc[n] # item}
            lines == Keep(doc, places)
            put(m) == IF Outside(lines, m) /\ lines[m].mark \in {"text", "list"}
                      THEN Having(lines[m], WithoutClasses(lines[m].words)) ELSE lines[m]
            out == [m \in 1..Len(lines) |-> put(m)]
<1>1. HeadsOf(lines, doc)
  <2>. HIDE DEF places
  <2>. QED BY KeepHeads
<1>2. StripCssClassLines(doc) = Lines([m \in DOMAIN lines |-> put(m)])
  BY DEF StripCssClassLines
<1>. HIDE DEF lines
<1>3. lines \in Docs /\ Len(lines) \in Nat /\ DOMAIN lines = 1..Len(lines) /\ \A m \in 1..Len(lines) : lines[m] \in Line
  BY <1>1, DocIs DEF HeadsOf
<1>4. ASSUME NEW m \in 1..Len(lines) PROVE put(m) \in Line /\ (IsHeading(put(m)) => put(m) = lines[m])
  <2>. DEFINE words == WithoutClasses(lines[m].words)
              changed == Having(lines[m], words)
  <2>1. words \in Seq(Words)
    BY <1>3, LineIs, WithoutClassesIs
  <2>. HIDE DEF words
  <2>2. changed \in Line /\ (lines[m].mark \in {"text", "list"} => ~IsHeading(changed))
    BY <1>3, <2>1, HavingIs, Marks DEF IsHeading
  <2>3. put(m) = IF Outside(lines, m) /\ lines[m].mark \in {"text", "list"} THEN changed ELSE lines[m]
    BY DEF words
  <2>. HIDE DEF changed, put
  <2>. QED BY <1>3, <2>2, <2>3
<1>. HIDE DEF put
<1>5. out \in [1..Len(lines) -> Line] /\ \A m \in 1..Len(lines) : out[m] = put(m)
  BY <1>4
<1>. HIDE DEF out
<1>6. StripCssClassLines(doc) = out /\ out \in Docs /\ DOMAIN out = 1..Len(lines)
  <2>1. StripCssClassLines(doc) = Lines(out)
    BY <1>2, <1>3 DEF out
  <2>. QED BY <1>3, <1>5, <2>1, LinesIs DEF Docs
<1>7. HeadsOf(out, lines)
  BY <1>3, <1>4, <1>5, <1>6 DEF HeadsOf, Range
<1>. QED BY <1>1, <1>6, <1>7, HeadsTrans

LEMMA CommaListsHeads == ASSUME NEW doc \in Docs PROVE HeadsOf(DedupCommaLists(doc), doc)
<1>1. PICK out \in [1..Len(doc) -> Line] :
        /\ DedupCommaLists(doc) = Lines(out)
        /\ \A n \in 1..Len(doc) : out[n].mark = doc[n].mark
        /\ \A n \in 1..Len(doc) : doc[n].mark # "list" => out[n] = doc[n]
  BY CommaListsLines
<1>2. DedupCommaLists(doc) = out /\ out \in Docs /\ DOMAIN out = 1..Len(doc) /\ DOMAIN doc = 1..Len(doc)
  BY <1>1, LinesIs, DocIs DEF Docs
<1>3. \A n \in 1..Len(doc) : IsHeading(out[n]) => out[n] = doc[n]
  BY <1>1, Marks DEF IsHeading
<1>. QED BY <1>2, <1>3 DEF HeadsOf, Range

(* The lines of the blocks of a document are lines of it.                  *)
LEMMA BlocksFrom ==
  ASSUME NEW doc \in Docs
  PROVE  \A m \in 1..Len(Blocks(doc)) : Range(Blocks(doc)[m]) \subseteq Range(doc)
<1>. DEFINE S == Range(doc)
            V == Seq(S)
            N == Len(doc)
<1>1. PICK up : ScanSteps(up, doc)
  BY BlocksUp
<1>2. /\ N \in Nat /\ up[0] = [done |-> <<>>, open |-> <<>>]
      /\ (\A n \in 1..N : up[n] = Scanned(up[n - 1], doc[n])) /\ Blocks(doc) = Closed(up[N])
  BY <1>1, DocIs DEF ScanSteps
<1>3. \A n \in 1..N : doc[n] \in S
  BY DocIs DEF Range
<1>. DEFINE T == {n \in Nat : n <= N => up[n].done \in Seq(V) /\ up[n].open \in V}
<1>. HIDE DEF S
<1>4. 0 \in T
  <2>1. up[0].done = <<>> /\ up[0].open = <<>>
    BY <1>2
  <2>2. <<>> \in V
    OBVIOUS
  <2>. HIDE DEF V
  <2>3. <<>> \in Seq(V)
    OBVIOUS
  <2>. QED BY <2>1, <2>2, <2>3
<1>5. \A n \in Nat : up[n].done \in Seq(V) /\ up[n].open \in V => Closed(up[n]) \in Seq(V)
  <2>. HIDE DEF V
  <2>. QED BY AppendProperties DEF Closed
<1>6. ASSUME NEW n \in Nat, n \in T PROVE n + 1 \in T
  <2>0. n + 1 \in Nat
    OBVIOUS
  <2>. SUFFICES ASSUME n + 1 <= N PROVE up[n + 1].done \in Seq(V) /\ up[n + 1].open \in V
    <3>. HIDE DEF V, N
    <3>. QED BY <2>0
  <2>1. n <= N /\ n + 1 \in 1..N /\ (n + 1) - 1 = n
    BY <1>2
  <2>2. up[n].done \in Seq(V) /\ up[n].open \in V
    BY <1>6, <2>1
  <2>3. up[n + 1] = Scanned(up[n], doc[n + 1]) /\ doc[n + 1] \in S
    <3>. HIDE DEF N, V
    <3>. QED BY <1>2, <1>3, <2>1
  <2>4. CASE doc[n + 1] = Blank
    <3>1. up[n + 1] = [done |-> Closed(up[n]), open |-> <<>>]
      BY <2>3, <2>4 DEF Scanned
    <3>2. <<>> \in V
      OBVIOUS
    <3>. HIDE DEF V
    <3>. QED BY <1>5, <2>2, <3>1, <3>2
  <2>5. CASE doc[n + 1] # Blank
    <3>1. Append(up[n].open, doc[n + 1]) \in V
      BY <2>2, <2>3, AppendProperties
    <3>2. up[n + 1] = [up[n] EXCEPT !.open = Append(@, doc[n + 1])]
      BY <2>3, <2>5 DEF Scanned
    <3>3. up[n] = [done |-> up[n].done, open |-> up[n].open]
      <4>1. up[n] \in Scan
        BY <1>1, <1>2, <2>1 DEF ScanSteps
      <4>. QED BY <4>1 DEF Scan
    <3>. HIDE DEF V
    <3>4. up[n + 1].done = up[n].done /\ up[n + 1].open = Append(up[n].open, doc[n + 1])
      BY <3>2, <3>3
    <3>. QED BY <2>2, <3>1, <3>4
  <2>. QED BY <2>4, <2>5
<1>7. up[N].done \in Seq(V) /\ up[N].open \in V
  <2>1. N \in T
    <3>. HIDE DEF T, N
    <3>. QED BY <1>2, <1>4, <1>6, SetInduction
  <2>. QED BY <1>2, <2>1
<1>8. Blocks(doc) \in Seq(V)
  <2>. HIDE DEF V, N
  <2>. QED BY <1>2, <1>5, <1>7
<1>9. \A m \in 1..Len(Blocks(doc)) : Blocks(doc)[m] \in V
  <2>. HIDE DEF V
  <2>. QED BY <1>8
<1>10. \A part \in V : Range(part) \subseteq S
  BY RangeIs
<1>. QED BY <1>9, <1>10 DEF S

(* What is put together of blocks has no other lines but blank ones.       *)
LEMMA JoinedFrom ==
  ASSUME NEW blocks \in Seq(Docs), NEW line \in Range(Joined(blocks))
  PROVE  line = Blank \/ \E m \in 1..Len(blocks) : line \in Range(blocks[m])
<1>. DEFINE put(n) == IF n = 1 THEN blocks[n] ELSE <<Blank>> \o blocks[n]
            apart == [n \in 1..Len(blocks) |-> put(n)]
<1>1. DOMAIN blocks = 1..Len(blocks) /\ Len(blocks) \in Nat /\ \A n \in 1..Len(blocks) : blocks[n] \in Docs
  OBVIOUS
<1>2. Joined(blocks) = FlattenSeq(apart)
  BY <1>1 DEF Joined
<1>3. ASSUME NEW n \in 1..Len(blocks) PROVE put(n) \in Docs /\ Range(put(n)) \subseteq Range(blocks[n]) \cup {Blank}
  <2>1. CASE n = 1
    BY <1>1, <2>1
  <2>2. CASE n # 1
    <3>. DEFINE one == <<Blank>>
                block == blocks[n]
    <3>0. put(n) = one \o block /\ one \in Docs /\ block \in Docs
      BY <1>1, <2>2, BlankSub
    <3>1. one \in Seq(Line) /\ block \in Seq(Line) /\ Range(one) = {Blank}
      BY <3>0, OneIs DEF Docs, Range
    <3>. HIDE DEF one, block, put
    <3>2. Range(one \o block) = Range(one) \cup Range(block)
      BY ONLY <3>1, ConcatRange
    <3>3. one \o block \in Docs
      BY <3>0, EndsConcat
    <3>. QED BY <3>0, <3>1, <3>2, <3>3 DEF block
  <2>. QED BY <2>1, <2>2
<1>. HIDE DEF put
<1>4. apart \in [1..Len(blocks) -> Docs] /\ \A n \in 1..Len(blocks) : apart[n] = put(n)
  BY <1>3
<1>. HIDE DEF apart
<1>5. apart \in Seq(Docs) /\ Len(apart) = Len(blocks)
  BY <1>1, <1>4, FunctionIsSequence
<1>6. apart \in Seq(Seq(Line))
  BY <1>5 DEF Docs
<1>7. PICK n \in 1..Len(apart) : line \in Range(apart[n])
  BY <1>2, <1>6, FlattenRange
<1>. QED BY <1>3, <1>4, <1>5, <1>7

LEMMA JoinedHeads ==
  ASSUME NEW doc \in Docs, NEW blocks \in Seq(Docs), \A m \in 1..Len(blocks) : Range(blocks[m]) \subseteq Range(doc)
  PROVE  HeadsOf(Joined(blocks), doc)
<1>1. Joined(blocks) \in Docs
  BY JoinedSub
<1>2. ASSUME NEW line \in Range(Joined(blocks)), IsHeading(line) PROVE line \in Range(doc)
  BY <1>2, JoinedFrom, BlankIs
<1>. QED BY <1>1, <1>2 DEF HeadsOf

LEMMA ContentBlocksHeads == ASSUME NEW doc \in Docs PROVE HeadsOf(DedupContentBlocks(doc), doc)
<1>. DEFINE blocks == Blocks(doc)
            places == Fresh(blocks, {n \in DOMAIN blocks : InCode(blocks, n)})
            rest == Keep(blocks, places)
<1>1. blocks \in Seq(Docs) /\ \A m \in 1..Len(blocks) : Range(blocks[m]) \subseteq Range(doc)
  BY BlocksSub, BlocksFrom
<1>2. DedupContentBlocks(doc) = Joined(rest)
  BY DEF DedupContentBlocks
<1>. HIDE DEF blocks, places
<1>3. rest \in Seq(Docs) /\ \A k \in 1..Len(rest) : \E n \in 1..Len(blocks) : n \in places /\ rest[k] = blocks[n]
  BY <1>1, KeepMembers
<1>. HIDE DEF rest
<1>. QED BY <1>1, <1>2, <1>3, JoinedHeads

LEMMA LinesHeads == ASSUME NEW doc \in Docs PROVE HeadsOf(DedupLines(doc), doc)
<1>. DEFINE blocks == Blocks(doc)
            put(n) == IF InCode(blocks, n) \/ Len(blocks[n]) <= 2 THEN blocks[n] ELSE OnceEach(blocks[n])
            out == [n \in 1..Len(blocks) |-> put(n)]
<1>1. blocks \in Seq(Docs) /\ \A m \in 1..Len(blocks) : Range(blocks[m]) \subseteq Range(doc)
  BY BlocksSub, BlocksFrom
<1>2. DOMAIN blocks = 1..Len(blocks) /\ Len(blocks) \in Nat /\ \A n \in 1..Len(blocks) : blocks[n] \in Docs
  <2>. HIDE DEF blocks
  <2>. QED BY <1>1, DocIs
<1>3. DedupLines(doc) = Joined(out)
  BY <1>2 DEF DedupLines
<1>. HIDE DEF blocks
<1>4. \A n \in 1..Len(blocks) : OnceEach(blocks[n]) \in Docs /\ Range(OnceEach(blocks[n])) \subseteq Range(blocks[n])
  <2>. SUFFICES ASSUME NEW n \in 1..Len(blocks)
                PROVE  OnceEach(blocks[n]) \in Docs /\ Range(OnceEach(blocks[n])) \subseteq Range(blocks[n])
    OBVIOUS
  <2>1. blocks[n] \in Seq(Line)
    BY <1>2 DEF Docs
  <2>. QED BY <2>1, KeepMembers, KeepRange DEF OnceEach, Docs
<1>5. \A n \in 1..Len(blocks) : put(n) \in Docs /\ Range(put(n)) \subseteq Range(blocks[n])
  BY <1>2, <1>4
<1>. HIDE DEF put
<1>6. out \in [1..Len(blocks) -> Docs] /\ \A n \in 1..Len(blocks) : out[n] = put(n)
  BY <1>5
<1>. HIDE DEF out
<1>7. out \in Seq(Docs) /\ Len(out) = Len(blocks)
  BY <1>2, <1>6, FunctionIsSequence
<1>. QED BY <1>1, <1>3, <1>5, <1>6, <1>7, JoinedHeads

LEMMA ReducedHeads == ASSUME NEW doc, Restated(doc) \in Docs PROVE HeadsOf(Reduced(doc), Restated(doc))
<1>. DEFINE a == Restated(doc)
            b == DedupDuplicateHeadings(a)
            c == StripEmptyHeadings(b)
            d == StripAssetLabels(c)
<1>1. Reduced(doc) = StripCssClassLines(d)
  BY DEF Reduced
<1>2. HeadsOf(b, a)
  BY KeepHeads DEF DedupDuplicateHeadings
<1>. HIDE DEF a, b
<1>3. HeadsOf(c, b)
  BY <1>2, KeepHeads DEF StripEmptyHeadings, HeadsOf
<1>. HIDE DEF c
<1>4. HeadsOf(d, c)
  BY <1>3, KeepHeads DEF StripAssetLabels, WithoutOutside, HeadsOf
<1>. HIDE DEF d
<1>5. HeadsOf(StripCssClassLines(d), d)
  BY <1>4, ClassesHeads DEF HeadsOf
<1>6. HeadsOf(Reduced(doc), a)
  BY <1>1, <1>2, <1>3, <1>4, <1>5, HeadsTrans
<1>. QED BY <1>6 DEF a

(* What a paragraph opens with is in the text, but for words of headings   *)
(* that have nothing below them.                                           *)
LEMMA CondensedSays ==
  ASSUME NEW line \in Line, IsProse(line), NEW doc, Opening(doc, line)
  PROVE  First(line.words) \subseteq Said(Condensed(doc)) \cup InHeadings(doc)
<1>. DEFINE a == CollapseWhitespace(doc)
            b == DedupContentBlocks(a)
            c == DedupLines(b)
            d == DedupCommaLists(c)
            e == StripTrailingEmptyHeadings(d)
            f == StripEmptyCodeBlocks(e)
            g == CollapseWhitespace(f)
            words == First(line.words)
<1>1. Condensed(doc) = MergeStatLines(g)
  BY DEF Condensed
<1>2. Opening(a, line) /\ HeadsOf(a, doc) /\ a \in Docs
  BY WhitespaceOpening, KeepHeads DEF Opening, CollapseWhitespace, HeadsOf
<1>. HIDE DEF a
<1>3. Tells(b, words) /\ HeadsOf(b, a) /\ b \in Docs
  BY <1>2, ContentBlocksTell, ContentBlocksHeads DEF HeadsOf
<1>. HIDE DEF b
<1>4. words \subseteq Said(c) /\ HeadsOf(c, b) /\ c \in Docs
  BY <1>3, LinesSay, LinesHeads DEF HeadsOf
<1>. HIDE DEF c
<1>5. Said(c) \subseteq Said(d) /\ HeadsOf(d, c) /\ d \in Docs
  BY <1>4, CommaListsSay, CommaListsHeads DEF HeadsOf
<1>. HIDE DEF d
<1>6. InHeadings(d) \subseteq InHeadings(doc)
  BY <1>2, <1>3, <1>4, <1>5, HeadsTrans, HeadsSay
<1>7. Said(d) \subseteq Said(e) \cup InHeadings(d) /\ e \in Docs
  BY <1>5, TrailingHeadingsSay, TrailingHeadingsMade DEF Made
<1>. HIDE DEF e
<1>8. Said(e) \subseteq Said(f) /\ f \in Docs
  BY <1>7, CodeAndStatsSay, EmptyCodeMade DEF Made
<1>. HIDE DEF f
<1>9. Said(f) \subseteq Said(g) /\ g \in Docs
  BY <1>8, WhitespaceSays, WhitespaceMade DEF Made
<1>. HIDE DEF g
<1>10. Said(g) \subseteq Said(MergeStatLines(g))
  BY <1>9, CodeAndStatsSay
<1>11. words \subseteq Said(MergeStatLines(g)) \cup InHeadings(doc)
  BY <1>4, <1>5, <1>6, <1>7, <1>8, <1>9, <1>10
<1>. QED BY <1>1, <1>11

(* The paragraph through all passes, and what it links to.                 *)
LEMMA OpeningKept ==
  ASSUME NEW doc \in Docs, NEW n \in 1..Len(doc), Opens(doc, n)
  PROVE  LET restated == Restated(Unlinked(doc))
         IN  \/ Lead(doc[n]) \subseteq Said(ProcessBody(doc).text) \cup InHeadings(restated)
             \/ \E m \in Repetition(restated) : Lead(doc[n]) \subseteq Range(restated[m].words)
<1>. DEFINE line == doc[n]
            plain == Unlinked(doc)
            restated == Restated(plain)
            text == Condensed(Reduced(plain))
            words == First(line.words)
<1>1. line \in Line /\ IsProse(line) /\ Opening(plain, line)
  BY UnlinkedOpening
<1>2. Lead(line) = words /\ ProcessBody(doc).text = text
  BY <1>1, LeadIs DEF ProcessBody
<1>3. restated \in Docs
  BY <1>1, RestatedMade DEF Made, Opening
<1>. HIDE DEF line, plain
<1>4. Opener(restated, words) \/ HeadingSays(restated, words)
  BY <1>1, RestatedOpening
<1>5. CASE HeadingSays(restated, words)
  <2>1. words \subseteq InHeadings(restated)
    BY <1>3, <1>5, DocIs, HeadingsAre DEF HeadingSays
  <2>. QED BY <1>2, <2>1 DEF line, plain
<1>6. CASE Opener(restated, words)
  <2>1. PICK other \in Line : IsProse(other) /\ words \subseteq First(other.words) /\ Opening(restated, other)
    BY <1>6 DEF Opener
  <2>2. \/ Opening(Reduced(plain), other)
        \/ \E m \in Repetition(restated) : restated[m] = other
    BY <2>1, ReducedOpening
  <2>3. CASE \E m \in Repetition(restated) : restated[m] = other
    <3>1. words \subseteq Range(other.words)
      BY <2>1, ProseIs, FirstIs
    <3>2. \E m \in Repetition(restated) : words \subseteq Range(restated[m].words)
      BY <2>3, <3>1
    <3>. QED BY <1>2, <3>2 DEF line, plain
  <2>4. CASE Opening(Reduced(plain), other)
    <3>1. First(other.words) \subseteq Said(text) \cup InHeadings(Reduced(plain))
      BY <2>1, <2>4, CondensedSays
    <3>2. InHeadings(Reduced(plain)) \subseteq InHeadings(restated)
      BY <1>3, ReducedHeads, HeadsSay
    <3>3. words \subseteq Said(text) \cup InHeadings(restated)
      BY <2>1, <3>1, <3>2
    <3>. QED BY <1>2, <3>3 DEF line, plain
  <2>. QED BY <2>2, <2>3, <2>4
<1>. QED BY <1>4, <1>5, <1>6

LEMMA LinksKept ==
  ASSUME NEW doc \in Docs, NEW n \in 1..Len(doc), Opens(doc, n), NEW w \in Range(doc[n].words), Href[w] # NoHref
  PROVE  \E link \in Range(ProcessBody(doc).links) : link.href = Href[w]
<1>. DEFINE line == doc[n]
            plain == Unlinked(doc)
<1>1. line \in Line /\ IsProse(line) /\ Opening(plain, line) /\ w \in Range(line.words)
  BY UnlinkedOpening
<1>2. ProcessBody(doc).links = LinksOf(plain)
  BY DEF ProcessBody
<1>. HIDE DEF line, plain
<1>3. plain \in Docs /\ \E k \in 1..Len(plain) : plain[k] = line
  BY <1>1 DEF Opening, Begins, At
<1>4. Kind[w] = "prose"
  BY <1>1, ProseIs DEF Range
<1>. QED BY <1>1, <1>2, <1>3, <1>4, LinksListed

(* No paragraph of a page is lost: the words it opens with are in the text *)
(* a reader of format "llm" gets, or in a heading, or in a line that goes  *)
(* with a heading seen before; and what it links to is among the links.    *)
THEOREM ParagraphsStay == PageSpec => []KeptButForHeadings
<1>1. PageInv => KeptButForHeadings
  <2>. SUFFICES ASSUME PageInv, NEW n \in DOMAIN page, Opens(page, n)
                PROVE  /\ LET doc == Restated(Unlinked(page))
                          IN  \/ Lead(page[n]) \subseteq Said(body.text) \cup InHeadings(doc)
                              \/ \E m \in Repetition(doc) : Lead(page[n]) \subseteq Range(doc[m].words)
                       /\ \A w \in Range(page[n].words) :
                            Href[w] # NoHref => \E link \in Range(body.links) : link.href = Href[w]
    BY DEF KeptButForHeadings
  <2>1. page \in Docs /\ n \in 1..Len(page) /\ body = ProcessBody(page)
    BY DocIs DEF PageInv
  <2>2. LET doc == Restated(Unlinked(page))
        IN  \/ Lead(page[n]) \subseteq Said(ProcessBody(page).text) \cup InHeadings(doc)
            \/ \E m \in Repetition(doc) : Lead(page[n]) \subseteq Range(doc[m].words)
    BY <2>1, OpeningKept
  <2>3. \A w \in Range(page[n].words) :
          Href[w] # NoHref => \E link \in Range(ProcessBody(page).links) : link.href = Href[w]
    BY <2>1, LinksKept
  <2>. QED BY <2>1, <2>2, <2>3
<1>. QED BY <1>1, PageInductive, PTL
=============================================================================
