---------------------------- MODULE CrawlProofs ----------------------------
(***************************************************************************)
(* Proofs about Crawl, for every site, budget and limit: its types and     *)
(* capacities, the bound on the pages counted beyond max_pages, that a     *)
(* site called exhausted has been processed completely, that every page    *)
(* counted is delivered, that no URL is fetched twice and no budget is     *)
(* passed, and that the engine implements CrawlPromise.                    *)
(***************************************************************************)
EXTENDS Crawl, FiniteSetTheorems, TLAPS

USE SeedAssumption, GraphAssumption, SitemapAssumption, SizeAssumption,
    BudgetAssumption, ModeAssumption

-----------------------------------------------------------------------------
(* The capacities are numbers, and a dedup set has room for one key. *)
LEMMA CapTypes ==
  /\ FrontierCap \in Nat
  /\ DedupCap \in Nat /\ DedupCap >= 1
  /\ ChannelCap \in Nat
<1>1. MaxPages * CapFactor \in Nat
  OBVIOUS
<1>. QED BY <1>1 DEF FrontierCap, DedupCap, ChannelCap

(* An element of a sequence is of the sequence's type. *)
LEMMA ElementType ==
  ASSUME NEW S, NEW q \in Seq(S), NEW i \in 1..Len(q)
  PROVE  q[i] \in S
OBVIOUS

(* Appending to a bounded memory keeps its type and its bound: what        *)
(* UrlDedup and ContentDedup rely on.                                      *)
LEMMA RememberType ==
  ASSUME NEW S, NEW seen \in Seq(S), NEW x \in S, Len(seen) <= DedupCap
  PROVE  /\ Remember(seen, x) \in Seq(S)
         /\ Len(Remember(seen, x)) <= DedupCap
<1>1. DedupCap \in Nat /\ DedupCap >= 1
  BY CapTypes
<1>2. CASE Len(seen) < DedupCap
  BY <1>1, <1>2 DEF Remember
<1>3. CASE ~(Len(seen) < DedupCap)
  <2>1. Len(seen) = DedupCap /\ seen # <<>>
    BY <1>1, <1>3
  <2>2. Tail(seen) \in Seq(S) /\ Len(Tail(seen)) = Len(seen) - 1
    BY <2>1
  <2>. QED BY <1>1, <1>3, <2>1, <2>2 DEF Remember
<1>. QED BY <1>2, <1>3

(* The frontier never exceeds its capacity. *)
FrontierOK ==
  /\ frontier \in SUBSET Entry /\ nextSeq \in Nat
  /\ IsFiniteSet(frontier) /\ Cardinality(frontier) <= FrontierCap
  /\ lost \subseteq Urls

LEMMA PushFrontier ==
  ASSUME NEW u \in Urls, NEW d \in Nat, NEW p \in Nat, FrontierOK, Push(u, d, p)
  PROVE  FrontierOK'
<1> DEFINE e == [url |-> u, depth |-> d, priority |-> p, seq |-> nextSeq]
<1>1. e \in Entry
  BY DEF Entry, FrontierOK
<1>2. FrontierCap \in Nat /\ Cardinality(frontier) \in Nat
  BY FS_CardinalityType, CapTypes DEF FrontierOK
<1>3. CASE Cardinality(frontier) < FrontierCap
  <2>1. frontier' = frontier \cup {e} /\ nextSeq' = nextSeq + 1 /\ lost' = lost
    BY <1>3 DEF Push
  <2>2. IsFiniteSet(frontier') /\ Cardinality(frontier') <= Cardinality(frontier) + 1
    <3>1. /\ IsFiniteSet(frontier \cup {e})
          /\ Cardinality(frontier \cup {e}) =
               IF e \in frontier THEN Cardinality(frontier) ELSE Cardinality(frontier) + 1
      BY FS_AddElement DEF FrontierOK
    <3>. QED BY <2>1, <3>1, <1>2
  <2>3. Cardinality(frontier') \in Nat
    BY <2>2, FS_CardinalityType
  <2>. QED BY <1>1, <1>2, <1>3, <2>1, <2>2, <2>3 DEF FrontierOK
<1>4. CASE ~(Cardinality(frontier) < FrontierCap)
  BY <1>4 DEF Push, frontVars, FrontierOK, FrontierCap
<1>. QED BY <1>3, <1>4

-----------------------------------------------------------------------------
(* Typing.  TypeOK is inductive once the frontier is known to be finite. *)
TypeInv == TypeOK /\ IsFiniteSet(frontier)

LEMMA TypeInit == Init => TypeInv
<1> SUFFICES ASSUME Init PROVE TypeInv
  OBVIOUS
<1>1. IsFiniteSet(frontier) /\ Cardinality(frontier) = 0
  BY FS_EmptySet DEF Init
<1>2. NoJob \in Job
  BY DEF NoJob, Job
<1>3. frontier \in SUBSET Entry /\ Cardinality(frontier) <= FrontierCap
  BY <1>1, CapTypes DEF Init
<1>4. /\ dedup \in Seq(Urls) /\ Len(dedup) <= DedupCap
      /\ bodies \in Seq({Body[u] : u \in Urls}) /\ Len(bodies) <= DedupCap
      /\ chan \in Seq(Result) /\ Len(chan) <= ChannelCap
  BY CapTypes DEF Init
<1>5. /\ spent \in [BudgetKeys -> Nat] /\ pc \in [Slot -> TaskPc]
      /\ job \in [Slot -> Job] /\ cand \in [Slot -> Urls]
      /\ todo \in [Slot -> Seq(Urls)]
  BY <1>2 DEF Init, TaskPc
<1>6. seeded \in 0..Len(Sitemap)
  <2>1. Len(Sitemap) \in Nat
    OBVIOUS
  <2>. QED BY <2>1 DEF Init
<1>7. /\ mpc \in MainPc /\ held \in Job /\ nextSeq \in Nat /\ pages \in Nat /\ got \in Nat
      /\ closed \in BOOLEAN /\ evicted \in BOOLEAN
      /\ stop \in {"none", "closed", "limit", "exhausted"}
      /\ found \subseteq Urls /\ handled \subseteq Urls
      /\ lost \subseteq Urls /\ skipped \subseteq Urls
  BY <1>2 DEF Init, MainPc
<1>. QED
  BY <1>1, <1>3, <1>4, <1>5, <1>6, <1>7 DEF TypeInv, TypeOK

LEMMA TypeStep == TypeInv /\ [Next]_vars => TypeInv'
<1> SUFFICES ASSUME TypeInv, [Next]_vars PROVE TypeInv'
  OBVIOUS
<1> USE DEF TypeInv, TypeOK
<1>0. FrontierOK
  BY DEF FrontierOK
<1>1. ASSUME SeedRoot PROVE TypeInv'
  <2>1. FrontierOK'
    BY <1>0, <1>1, PushFrontier DEF SeedRoot, DefaultPriority
  <2>2. dedup' \in Seq(Urls) /\ Len(dedup') <= DedupCap
    BY <1>1, RememberType DEF SeedRoot, Discover
  <2>. QED
    BY <1>1, <2>1, <2>2 DEF SeedRoot, Discover, FrontierOK, mainVars, taskVars, chanVars
<1>2. ASSUME SeedSitemap PROVE TypeInv'
  <2> DEFINE e == Sitemap[seeded + 1]
  <2>1. e \in [url : Urls, priority : Nat] /\ seeded + 1 \in 0..Len(Sitemap)
    <3>1. seeded + 1 \in 1..Len(Sitemap)
      BY <1>2 DEF SeedSitemap
    <3>2. Sitemap[seeded + 1] \in [url : Urls, priority : Nat]
      <4> DEFINE R == [url : Urls, priority : Nat]
      <4>1. Sitemap \in Seq(R)
        OBVIOUS
      <4> HIDE DEF R
      <4>2. Sitemap[seeded + 1] \in R
        BY <3>1, <4>1, ElementType
      <4>. QED BY <4>2 DEF R
    <3>. QED BY <3>1, <3>2
  <2>2. CASE e.url \in Range(dedup)
    BY <1>2, <2>1, <2>2 DEF SeedSitemap, frontVars, taskVars, chanVars
  <2>3. CASE e.url \notin Range(dedup)
    <3>1. Discover(e.url) /\ Push(e.url, 0, e.priority)
      BY <1>2, <2>3 DEF SeedSitemap
    <3>2. FrontierOK'
      BY <1>0, <2>1, <3>1, PushFrontier
    <3>3. dedup' \in Seq(Urls) /\ Len(dedup') <= DedupCap
      BY <2>1, <3>1, RememberType DEF Discover
    <3>. QED
      BY <1>2, <2>1, <3>1, <3>2, <3>3
      DEF SeedSitemap, Discover, FrontierOK, taskVars, chanVars
  <2>. QED BY <2>2, <2>3
<1>3. ASSUME SeedDone PROVE TypeInv'
  BY <1>3 DEF SeedDone, MainPc, frontVars, taskVars, chanVars, history
<1>4. ASSUME MainCheck PROVE TypeInv'
  BY <1>4 DEF MainCheck, MainPc, frontVars, taskVars, chanVars
<1>5. ASSUME MainPop PROVE TypeInv'
  <2>1. PICK e \in frontier : /\ frontier' = frontier \ {e}
                              /\ held' = [url |-> e.url, depth |-> e.depth]
    BY <1>5 DEF MainPop
  <2>2. IsFiniteSet(frontier') /\ Cardinality(frontier') <= Cardinality(frontier)
    BY <2>1, FS_Subset
  <2>3. Cardinality(frontier) \in Nat /\ Cardinality(frontier') \in Nat
    BY <2>2, FS_CardinalityType
  <2>4. held' \in Job
    BY <2>1 DEF Job, Entry
  <2>. QED
    BY <1>5, <2>1, <2>2, <2>3, <2>4, CapTypes
    DEF MainPop, MainPc, taskVars, chanVars, history
<1>6. ASSUME MainPopNone PROVE TypeInv'
  BY <1>6 DEF MainPopNone, MainPc, frontVars, taskVars, chanVars, history
<1>7. ASSUME MainIdle PROVE TypeInv'
  BY <1>7 DEF MainIdle, MainPc, frontVars, taskVars, chanVars
<1>8. ASSUME MainDrain PROVE TypeInv'
  <2>1. DedupCap \in Nat
    BY CapTypes
  <2>. QED
    BY <1>8, <2>1 DEF MainDrain, MainPc, frontVars, taskVars, chanVars, history
<1>9. ASSUME NEW s \in Slot, MainSpawn(s) PROVE TypeInv'
  BY <1>9 DEF MainSpawn, GoTo, MainPc, TaskPc, Job, NoJob, frontVars, chanVars, history
<1>10. ASSUME NEW s \in Slot, TaskStart(s) PROVE TypeInv'
  <2>1. job[s].url \in Urls
    BY DEF Job
  <2>2. NoJob \in Job
    BY DEF NoJob, Job
  <2>3. pc' \in [Slot -> TaskPc]
    BY <1>10 DEF TaskStart, Free, GoTo, TaskPc
  <2>4. /\ job' \in [Slot -> Job] /\ todo' = todo /\ cand' = cand
        /\ skipped' \subseteq Urls
    BY <1>10, <2>1, <2>2 DEF TaskStart, Free
  <2>. QED
    BY <1>10, <2>3, <2>4 DEF TaskStart, mainVars, frontVars, chanVars
<1>11. ASSUME NEW s \in Slot, TaskFetch(s) PROVE TypeInv'
  BY <1>11 DEF TaskFetch, GoTo, TaskPc, mainVars, frontVars, chanVars, history
<1>12. ASSUME NEW s \in Slot, TaskBody(s) PROVE TypeInv'
  <2>1. job[s].url \in Urls
    BY DEF Job
  <2>2. CASE Body[job[s].url] \in Range(bodies)
    BY <1>12, <2>2 DEF TaskBody, GoTo, TaskPc, mainVars, frontVars, chanVars, history
  <2>3. CASE Body[job[s].url] \notin Range(bodies)
    <3>1. /\ bodies' \in Seq({Body[u] : u \in Urls})
          /\ Len(bodies') <= DedupCap
      <4>1. bodies' = Remember(bodies, Body[job[s].url])
        BY <1>12, <2>3 DEF TaskBody
      <4>2. Body[job[s].url] \in {Body[u] : u \in Urls}
        BY <2>1
      <4>. QED BY <4>1, <4>2, RememberType
    <3>2. todo' \in [Slot -> Seq(Urls)]
      <4>1. PICK l \in Seq(Urls) : todo' = [todo EXCEPT ![s] = l]
        <5>1. Links[job[s].url] \in Seq(Urls) /\ <<>> \in Seq(Urls)
          BY <2>1
        <5>. QED BY <1>12, <2>3, <5>1 DEF TaskBody
      <4>. QED BY <4>1
    <3>. QED
      BY <1>12, <2>3, <3>1, <3>2
      DEF TaskBody, GoTo, TaskPc, mainVars, frontVars, chanVars, history
  <2>. QED BY <2>2, <2>3
<1>13. ASSUME NEW s \in Slot, TaskLink(s) PROVE TypeInv'
  <2> DEFINE u == Head(todo[s])
  <2>1. u \in Urls /\ Tail(todo[s]) \in Seq(Urls)
    BY <1>13 DEF TaskLink
  <2>2. todo' \in [Slot -> Seq(Urls)]
    BY <1>13, <2>1 DEF TaskLink
  <2>3. spent' \in [BudgetKeys -> Nat]
    <3>1. Charge(u) \in [BudgetKeys -> Nat]
      BY DEF Charge
    <3>. QED BY <1>13, <3>1 DEF TaskLink
  <2>4. cand' \in [Slot -> Urls] /\ pc' \in [Slot -> TaskPc]
    <3>1. PICK v \in Urls : cand' \in {cand, [cand EXCEPT ![s] = v]}
      BY <1>13, <2>1 DEF TaskLink
    <3>2. PICK p \in TaskPc : pc' \in {pc, [pc EXCEPT ![s] = p]}
      BY <1>13 DEF TaskLink, GoTo, TaskPc
    <3>. QED BY <3>1, <3>2
  <2>. QED
    BY <1>13, <2>2, <2>3, <2>4 DEF TaskLink, mainVars, frontVars, chanVars, history
<1>21. ASSUME NEW s \in Slot, TaskDedup(s) PROVE TypeInv'
  <2>1. cand[s] \in Urls
    OBVIOUS
  <2>2. CASE cand[s] \in Range(dedup)
    BY <1>21, <2>2 DEF TaskDedup, GoTo, TaskPc, mainVars, frontVars, chanVars
  <2>3. CASE cand[s] \notin Range(dedup)
    <3>1. dedup' \in Seq(Urls) /\ Len(dedup') <= DedupCap
      <4>1. dedup' = Remember(dedup, cand[s])
        BY <1>21, <2>3 DEF TaskDedup, Discover
      <4>. QED BY <2>1, <4>1, RememberType
    <3>. QED
      BY <1>21, <2>1, <2>3, <3>1
      DEF TaskDedup, Discover, GoTo, TaskPc, mainVars, frontVars, chanVars
  <2>. QED BY <2>2, <2>3
<1>14. ASSUME NEW s \in Slot, TaskPush(s) PROVE TypeInv'
  <2>1. cand[s] \in Urls /\ job[s].depth + 1 \in Nat
    BY DEF Job
  <2>2. FrontierOK'
    BY <1>0, <1>14, <2>1, PushFrontier DEF TaskPush, DefaultPriority
  <2>. QED
    BY <1>14, <2>2 DEF TaskPush, FrontierOK, GoTo, TaskPc, mainVars, chanVars
<1>15. ASSUME NEW s \in Slot, TaskLinksDone(s) PROVE TypeInv'
  BY <1>15 DEF TaskLinksDone, GoTo, TaskPc, mainVars, frontVars, chanVars, history
<1>16. ASSUME NEW s \in Slot, TaskCount(s) PROVE TypeInv'
  BY <1>16 DEF TaskCount, GoTo, TaskPc, mainVars, frontVars, chanVars, history
<1>17. ASSUME NEW s \in Slot, TaskSend(s) PROVE TypeInv'
  <2>1. job[s].url \in Urls
    BY DEF Job
  <2>2. chan' \in Seq(Result) /\ Len(chan') <= ChannelCap
    <3>1. ResultOf(s) \in Result
      BY DEF ResultOf, Result
    <3>2. CASE closed
      BY <1>17, <3>2 DEF TaskSend
    <3>3. CASE ~closed
      <4>1. PICK r \in Result : chan' = Append(chan, r) /\ Len(chan) < ChannelCap
        BY <1>17, <3>1, <3>3 DEF TaskSend
      <4>. QED BY <4>1, CapTypes
    <3>. QED BY <3>2, <3>3
  <2>. QED
    BY <1>17, <2>1, <2>2 DEF TaskSend, Free, TaskPc, Job, NoJob, mainVars, frontVars
<1>18. ASSUME Receive PROVE TypeInv'
  BY <1>18, CapTypes DEF Receive, mainVars, frontVars, taskVars
<1>19. ASSUME Disconnect PROVE TypeInv'
  BY <1>19, CapTypes DEF Disconnect, mainVars, frontVars, taskVars, history
<1>20. CASE UNCHANGED vars
  BY <1>20 DEF vars, mainVars, frontVars, taskVars, chanVars, history
<1>. QED
  BY <1>1, <1>2, <1>3, <1>4, <1>5, <1>6, <1>7, <1>8, <1>9, <1>10, <1>11, <1>12, <1>13,
     <1>14, <1>15, <1>16, <1>17, <1>18, <1>19, <1>20, <1>21
  DEF Next, Main, Task, Finished

(* Every variable keeps its type, and the frontier, the two dedup sets and *)
(* the channel never exceed their capacities, for every site and limit.    *)
THEOREM Typing == Spec => []TypeOK
<1>1. Spec => []TypeInv
  BY TypeInit, TypeStep, PTL DEF Spec
<1>2. TypeInv => TypeOK
  BY DEF TypeInv
<1>. QED BY <1>1, <1>2, PTL

-----------------------------------------------------------------------------
(* The page limit.  Every task that has not counted its page yet may still *)
(* count it; when the main loop has passed the limit test and not spawned  *)
(* yet, there is room for one page more.                                   *)
Uncounted == {s \in Slot : pc[s] \in {"start", "fetch", "body", "links", "dedup", "push",
                                   "count"}}

PageInv ==
  /\ pages + Cardinality(Uncounted) <= MaxPages + Concurrency
  /\ mpc \in {"pop", "permit"} => pages + Cardinality(Uncounted) < MaxPages + Concurrency

LEMMA SlotSets ==
  ASSUME NEW T \in SUBSET Slot
  PROVE  IsFiniteSet(T) /\ Cardinality(T) \in Nat /\ Cardinality(T) <= Concurrency
<1>1. IsFiniteSet(Slot) /\ Cardinality(Slot) = Concurrency
  BY FS_Interval DEF Slot
<1>. QED
  BY <1>1, FS_Subset, FS_CardinalityType

LEMMA PageInit == Init => PageInv
<1> SUFFICES ASSUME Init PROVE PageInv
  OBVIOUS
<1>1. Uncounted = {}
  BY DEF Init, Uncounted
<1>2. Cardinality(Uncounted) = 0
  BY <1>1, FS_EmptySet
<1>. QED
  BY <1>2 DEF Init, PageInv

(* A step that counts no page and starts no task keeps the bound. *)
LEMMA PageQuiet ==
  ASSUME TypeOK, PageInv, pages' = pages, Uncounted' \subseteq Uncounted,
         mpc' \in {"pop", "permit"} => mpc \in {"pop", "permit"}
  PROVE  PageInv'
<1> DEFINE C == Cardinality(Uncounted)
           D == Cardinality(Uncounted')
<1>1. Uncounted \in SUBSET Slot /\ Uncounted' \in SUBSET Slot
  BY DEF Uncounted, Slot
<1>2. IsFiniteSet(Uncounted) /\ C \in Nat /\ D \in Nat
  BY <1>1, SlotSets
<1>3. D <= C
  BY <1>2, FS_Subset
<1>4. pages \in Nat
  BY DEF TypeOK
<1> HIDE DEF C, D
<1>5. pages + D <= pages + C
  BY <1>2, <1>3, <1>4
<1>6. pages + C <= MaxPages + Concurrency
  BY DEF PageInv, C
<1>7. mpc \in {"pop", "permit"} => pages + C < MaxPages + Concurrency
  BY DEF PageInv, C
<1>8. /\ pages' + D <= MaxPages + Concurrency
      /\ mpc' \in {"pop", "permit"} => pages' + D < MaxPages + Concurrency
  BY <1>2, <1>4, <1>5, <1>6, <1>7
<1>. QED
  BY <1>8 DEF PageInv, D, Slot, Uncounted

LEMMA PageStep == TypeOK /\ PageInv /\ [Next]_vars => PageInv'
<1> SUFFICES ASSUME TypeOK, PageInv, [Next]_vars PROVE PageInv'
  OBVIOUS
<1> DEFINE C == Cardinality(Uncounted)
<1>0. /\ Uncounted \in SUBSET Slot
      /\ IsFiniteSet(Uncounted) /\ C \in Nat /\ C <= Concurrency
      /\ pages \in Nat
  BY SlotSets DEF Uncounted, TypeOK
<1>1. ASSUME SeedRoot \/ SeedSitemap \/ SeedDone \/ MainPop \/ MainPopNone \/ MainIdle
             \/ MainDrain \/ Receive \/ Disconnect \/ UNCHANGED vars
      PROVE  PageInv'
  <2>1. pages' = pages /\ pc' = pc
    BY <1>1 DEF SeedRoot, SeedSitemap, SeedDone, MainPop, MainPopNone, MainIdle, MainDrain,
                Receive, Disconnect, vars, taskVars
  <2>2. mpc' \in {"pop", "permit"} => mpc \in {"pop", "permit"}
    BY <1>1 DEF SeedRoot, SeedSitemap, SeedDone, MainPop, MainPopNone, MainIdle, MainDrain,
                Receive, Disconnect, vars, mainVars
  <2>3. Uncounted' = Uncounted
    BY <2>1 DEF Uncounted, Slot
  <2>. QED BY <2>1, <2>2, <2>3, PageQuiet
<1>2. ASSUME MainCheck PROVE PageInv'
  <2>1. pages' = pages /\ Uncounted' = Uncounted
    BY <1>2 DEF MainCheck, taskVars, Uncounted, Slot
  <2>2. CASE mpc' \notin {"pop", "permit"}
    BY <2>1, <2>2, PageQuiet
  <2>3. CASE mpc' \in {"pop", "permit"}
    <3>1. pages < MaxPages
      BY <1>0, <1>2, <2>3 DEF MainCheck
    <3>2. pages + C < MaxPages + Concurrency
      BY <1>0, <3>1
    <3>. QED BY <1>0, <2>1, <3>2 DEF PageInv
  <2>. QED BY <2>2, <2>3
<1>3. ASSUME NEW s \in Slot, MainSpawn(s) PROVE PageInv'
  <2>1. pages' = pages /\ mpc = "permit" /\ mpc' = "check"
    BY <1>3 DEF MainSpawn
  <2>2. Uncounted' = Uncounted \cup {s}
    BY <1>3 DEF MainSpawn, GoTo, Uncounted, TypeOK, Slot
  <2>3. Cardinality(Uncounted') <= C + 1 /\ Cardinality(Uncounted') \in Nat
    <3>1. Cardinality(Uncounted \cup {s}) = IF s \in Uncounted THEN C ELSE C + 1
      BY <1>0, FS_AddElement
    <3>. QED BY <1>0, <2>2, <3>1
  <2>4. pages + C < MaxPages + Concurrency
    BY <2>1 DEF PageInv
  <2>. QED BY <1>0, <2>1, <2>3, <2>4 DEF PageInv
<1>4. ASSUME NEW s \in Slot,
             TaskStart(s) \/ TaskFetch(s) \/ TaskBody(s) \/ TaskLink(s) \/ TaskDedup(s)
             \/ TaskPush(s) \/ TaskLinksDone(s) \/ TaskSend(s)
      PROVE  PageInv'
  <2>1. pages' = pages /\ mpc' = mpc
    BY <1>4 DEF TaskStart, TaskFetch, TaskBody, TaskLink, TaskDedup, TaskPush, TaskLinksDone, TaskSend,
                mainVars
  <2>2. \A t \in Slot : t # s => pc'[t] = pc[t]
    BY <1>4 DEF TaskStart, TaskFetch, TaskBody, TaskLink, TaskDedup, TaskPush, TaskLinksDone, TaskSend,
                GoTo, Free, TypeOK
  <2>3. s \in Uncounted' => s \in Uncounted
    BY <1>4 DEF TaskStart, TaskFetch, TaskBody, TaskLink, TaskDedup, TaskPush, TaskLinksDone, TaskSend,
                GoTo, Free, TypeOK, Uncounted
  <2>4. Uncounted' \subseteq Uncounted
    BY <2>2, <2>3 DEF Uncounted, Slot
  <2>. QED BY <2>1, <2>4, PageQuiet
<1>5. ASSUME NEW s \in Slot, TaskCount(s) PROVE PageInv'
  <2>1. pages' = pages + 1 /\ mpc' = mpc
    BY <1>5 DEF TaskCount, mainVars
  <2>2. s \in Uncounted /\ Uncounted' = Uncounted \ {s}
    BY <1>5 DEF TaskCount, GoTo, Uncounted, TypeOK, Slot
  <2>3. Cardinality(Uncounted') = C - 1
    BY <1>0, <2>2, FS_RemoveElement
  <2>. QED BY <1>0, <2>1, <2>3 DEF PageInv
<1>. QED
  BY <1>1, <1>2, <1>3, <1>4, <1>5 DEF Next, Main, Task, Finished

(* Whatever the interleaving, a crawl counts at most max_pages +           *)
(* concurrency pages: the tasks in flight and the one waiting for a permit *)
(* are all that can pass the limit.                                        *)
THEOREM PageBound == Spec => []PageOvershootBound
<1>1. Spec => []PageInv
  BY Typing, PageInit, PageStep, PTL DEF Spec
<1>2. TypeOK /\ PageInv => PageOvershootBound
  <2> SUFFICES ASSUME TypeOK, PageInv PROVE PageOvershootBound
    OBVIOUS
  <2>1. Cardinality(Uncounted) \in Nat
    BY SlotSets DEF Uncounted
  <2>. QED BY <2>1 DEF PageInv, PageOvershootBound, TypeOK
<1>. QED BY <1>1, <1>2, Typing, PTL

-----------------------------------------------------------------------------
(* Exhaustion.  The main loop may call the site exhausted only with an     *)
(* empty frontier and every permit back, and from then on nothing can be   *)
(* added; URLs are skipped only when the receiver is gone.                 *)
StopInv ==
  /\ stop = "none" <=> mpc \notin {"drain", "done"}
  /\ stop = "exhausted" => frontier = {} /\ AllIdle
  /\ mpc = "done" => AllIdle
  /\ skipped # {} => closed

LEMMA StopInit == Init => StopInv
BY DEF Init, StopInv

LEMMA StopStep == TypeOK /\ StopInv /\ [Next]_vars => StopInv'
<1> SUFFICES ASSUME TypeOK, StopInv, [Next]_vars PROVE StopInv'
  OBVIOUS
<1> USE DEF StopInv, AllIdle
<1>1. ASSUME SeedRoot \/ SeedSitemap \/ SeedDone PROVE StopInv'
  BY <1>1 DEF SeedRoot, SeedSitemap, SeedDone, Discover, mainVars, taskVars, chanVars, history
<1>2. ASSUME MainCheck PROVE StopInv'
  BY <1>2 DEF MainCheck, taskVars, chanVars
<1>3. ASSUME MainPop \/ MainPopNone PROVE StopInv'
  BY <1>3 DEF MainPop, MainPopNone, taskVars, chanVars, history
<1>4. ASSUME MainIdle PROVE StopInv'
  BY <1>4 DEF MainIdle, frontVars, taskVars, chanVars
<1>5. ASSUME NEW s \in Slot, MainSpawn(s) PROVE StopInv'
  BY <1>5 DEF MainSpawn, GoTo, frontVars, chanVars, history
<1>6. ASSUME MainDrain PROVE StopInv'
  BY <1>6 DEF MainDrain, frontVars, taskVars, chanVars, history
<1>7. ASSUME NEW s \in Slot, Task(s) PROVE StopInv'
  <2>1. pc[s] # "idle"
    BY <1>7 DEF Task, TaskStart, TaskFetch, TaskBody, TaskLink, TaskDedup, TaskPush, TaskLinksDone,
                TaskCount, TaskSend
  <2>2. stop # "exhausted" /\ mpc # "done"
    BY <2>1
  <2>3. stop' = stop /\ mpc' = mpc
    BY <1>7 DEF Task, TaskStart, TaskFetch, TaskBody, TaskLink, TaskDedup, TaskPush, TaskLinksDone,
                TaskCount, TaskSend, Discover, mainVars, history
  <2>4. closed' = closed /\ (skipped' # {} => closed)
    BY <1>7 DEF Task, TaskStart, TaskFetch, TaskBody, TaskLink, TaskDedup, TaskPush, TaskLinksDone,
                TaskCount, TaskSend, Discover, chanVars, history
  <2>. QED BY <2>2, <2>3, <2>4
<1>8. ASSUME Receive \/ Disconnect \/ UNCHANGED vars PROVE StopInv'
  BY <1>8 DEF Receive, Disconnect, vars, mainVars, frontVars, taskVars, chanVars, history
<1>. QED
  BY <1>1, <1>2, <1>3, <1>4, <1>5, <1>6, <1>7, <1>8 DEF Next, Main, Finished

-----------------------------------------------------------------------------
(* Nothing is lost. *)
Accounted(u) == u \in handled \cup lost \cup skipped \/ IsPending(u)

LEMMA NothingLostInit == Init => NothingLost
BY DEF Init, NothingLost

(* A push leaves its URL in the frontier or on record as dropped. *)
LEMMA PushAccounts ==
  ASSUME NEW u, NEW d, NEW p, Push(u, d, p)
  PROVE  /\ u \in lost' \/ \E e \in frontier' : e.url = u
         /\ lost \subseteq lost' /\ frontier \subseteq frontier'
<1>1. CASE Cardinality(frontier) < FrontierCap
  <2> DEFINE e == [url |-> u, depth |-> d, priority |-> p, seq |-> nextSeq]
  <2>1. frontier' = frontier \cup {e} /\ lost' = lost
    BY <1>1 DEF Push
  <2>2. e \in frontier' /\ e.url = u
    BY <2>1
  <2>. QED BY <2>1, <2>2
<1>2. CASE ~(Cardinality(frontier) < FrontierCap)
  BY <1>2 DEF Push, frontVars
<1>. QED BY <1>1, <1>2

LEMMA NothingLostStep == TypeOK /\ NothingLost /\ [Next]_vars => NothingLost'
<1> SUFFICES ASSUME TypeOK, NothingLost, [Next]_vars, NEW u \in found'
             PROVE  u \in handled' \cup lost' \cup skipped' \/ IsPending(u)'
  BY DEF NothingLost
<1>0. u \in found => Accounted(u)
  BY DEF NothingLost, Accounted
<1>1. ASSUME SeedRoot PROVE Accounted(u)'
  <2>1. u = Seed \/ u \in found
    BY <1>1 DEF SeedRoot, Discover
  <2>2. Push(Seed, 0, DefaultPriority)
    BY <1>1 DEF SeedRoot
  <2>3. /\ UNCHANGED <<mpc, held, pc, job, cand, handled, skipped>>
    BY <1>1 DEF SeedRoot, mainVars, taskVars
  <2>. QED
    BY <1>0, <2>1, <2>2, <2>3, PushAccounts DEF Accounted, IsPending, Slot
<1>2. ASSUME SeedSitemap PROVE Accounted(u)'
  <2> DEFINE e == Sitemap[seeded + 1]
  <2>1. UNCHANGED <<mpc, held, pc, job, cand, handled, skipped>>
    BY <1>2 DEF SeedSitemap, taskVars
  <2>2. CASE e.url \in Range(dedup)
    <3>1. UNCHANGED <<frontier, found, lost>>
      BY <1>2, <2>2 DEF SeedSitemap, frontVars
    <3>. QED BY <1>0, <2>1, <3>1 DEF Accounted, IsPending, Slot
  <2>3. CASE e.url \notin Range(dedup)
    <3>1. Push(e.url, 0, e.priority) /\ (u = e.url \/ u \in found)
      BY <1>2, <2>3 DEF SeedSitemap, Discover
    <3>2. /\ e.url \in lost' \/ \E f \in frontier' : f.url = e.url
          /\ lost \subseteq lost' /\ frontier \subseteq frontier'
      BY ONLY <3>1, PushAccounts
    <3>. HIDE DEF e
    <3>3. CASE u = e.url
      BY ONLY <3>2, <3>3 DEF Accounted, IsPending
    <3>4. CASE u \in found
      BY <1>0, <2>1, <3>2, <3>4 DEF Accounted, IsPending, Slot
    <3>. QED BY <3>1, <3>3, <3>4
  <2>. QED BY <2>2, <2>3
<1>3. ASSUME SeedDone \/ MainCheck \/ MainPopNone \/ MainIdle \/ MainDrain \/ Receive
             \/ Disconnect \/ UNCHANGED vars
      PROVE  Accounted(u)'
  <2>1. UNCHANGED <<frontier, held, pc, job, cand, found, handled, lost, skipped>>
    BY <1>3 DEF SeedDone, MainCheck, MainPopNone, MainIdle, MainDrain, Receive, Disconnect,
                vars, mainVars, frontVars, taskVars, history
  <2>2. mpc = "permit" => mpc' = "permit"
    BY <1>3 DEF SeedDone, MainCheck, MainPopNone, MainIdle, MainDrain, Receive, Disconnect,
                vars, mainVars
  <2>. QED BY <1>0, <2>1, <2>2 DEF Accounted, IsPending, Slot
<1>4. ASSUME MainPop PROVE Accounted(u)'
  <2>1. PICK e \in frontier : /\ frontier' = frontier \ {e}
                              /\ held' = [url |-> e.url, depth |-> e.depth]
    BY <1>4 DEF MainPop
  <2>2. held'.url = e.url
    BY <2>1
  <2>3. /\ mpc = "pop" /\ mpc' = "permit"
        /\ UNCHANGED <<pc, job, cand, found, handled, lost, skipped>>
    BY <1>4 DEF MainPop, taskVars, history
  <2>. QED BY <1>0, <2>1, <2>2, <2>3 DEF Accounted, IsPending, Slot
<1>5. ASSUME NEW s \in Slot, MainSpawn(s) PROVE Accounted(u)'
  <2>1. /\ pc[s] = "idle" /\ pc' = [pc EXCEPT ![s] = "start"]
        /\ job' = [job EXCEPT ![s] = held]
        /\ UNCHANGED <<frontier, cand, found, handled, lost, skipped>>
    BY <1>5 DEF MainSpawn, GoTo, frontVars, history
  <2>2. pc'[s] = "start" /\ job'[s] = held
    BY <2>1 DEF TypeOK
  <2>3. \A t \in Slot : t # s => pc'[t] = pc[t] /\ job'[t] = job[t]
    BY <2>1 DEF TypeOK
  <2>. QED BY <1>0, <2>1, <2>2, <2>3 DEF Accounted, IsPending, Slot
<1>6. ASSUME NEW s \in Slot, Task(s) PROVE Accounted(u)'
  <2>1. UNCHANGED <<mpc, held>> /\ pc[s] # "idle"
    BY <1>6 DEF Task, TaskStart, TaskFetch, TaskBody, TaskLink, TaskDedup, TaskPush, TaskLinksDone,
                TaskCount, TaskSend, mainVars
  <2>2. \A t \in Slot : t # s => pc'[t] = pc[t] /\ job'[t] = job[t] /\ cand'[t] = cand[t]
    BY <1>6 DEF Task, TaskStart, TaskFetch, TaskBody, TaskLink, TaskDedup, TaskPush, TaskLinksDone,
                TaskCount, TaskSend, GoTo, Free, TypeOK
  <2>3. CASE TaskStart(s)
    <3>1. UNCHANGED <<frontier, found, handled, lost>>
      BY <2>3 DEF TaskStart, frontVars
    <3>2. CASE closed
      <4>1. job[s].url \in skipped' /\ skipped \subseteq skipped'
        BY <2>3, <3>2 DEF TaskStart
      <4>2. pc[s] # "push"
        BY <2>3 DEF TaskStart
      <4>. QED BY <1>0, <2>1, <2>2, <3>1, <4>1, <4>2 DEF Accounted, IsPending, Slot
    <3>3. CASE ~closed
      <4>1. pc'[s] # "idle" /\ UNCHANGED <<job, cand, skipped>> /\ pc[s] # "push"
        BY <2>3, <3>3 DEF TaskStart, GoTo, TypeOK
      <4>. QED BY <1>0, <2>1, <2>2, <3>1, <4>1 DEF Accounted, IsPending, Slot
    <3>. QED BY <3>2, <3>3
  <2>4. CASE TaskFetch(s) \/ TaskBody(s) \/ TaskLinksDone(s) \/ TaskCount(s)
    <3>1. UNCHANGED <<frontier, job, cand, found, handled, lost, skipped>>
      BY <2>4 DEF TaskFetch, TaskBody, TaskLinksDone, TaskCount, frontVars, history
    <3>2. pc'[s] # "idle" /\ pc[s] # "push"
      BY <2>4 DEF TaskFetch, TaskBody, TaskLinksDone, TaskCount, GoTo, TypeOK
    <3>. QED BY <1>0, <2>1, <2>2, <3>1, <3>2 DEF Accounted, IsPending, Slot
  <2>5. CASE TaskLink(s)
    <3>1. UNCHANGED <<frontier, job, found, handled, lost, skipped>> /\ pc[s] = "links"
      BY <2>5 DEF TaskLink, frontVars, history
    <3>2. pc'[s] \in {"links", "dedup"}
      BY <2>5, <3>1 DEF TaskLink, GoTo, TypeOK
    <3>. QED BY <1>0, <2>1, <2>2, <3>1, <3>2 DEF Accounted, IsPending, Slot
  <2>8. CASE TaskDedup(s)
    <3>1. UNCHANGED <<frontier, job, handled, lost, skipped>> /\ pc[s] = "dedup"
      BY <2>8 DEF TaskDedup, frontVars
    <3>2. \/ found' = found /\ pc'[s] = "links"
          \/ /\ found' = found \cup {cand[s]}
             /\ pc'[s] = "push" /\ cand'[s] = cand[s]
      BY <2>8 DEF TaskDedup, Discover, GoTo, TypeOK
    <3>3. pc'[s] # "idle"
      BY <3>2
    <3>. QED BY <1>0, <2>1, <2>2, <3>1, <3>2, <3>3 DEF Accounted, IsPending, Slot
  <2>6. CASE TaskPush(s)
    <3>1. UNCHANGED <<job, found, handled, skipped>> /\ pc'[s] = "links"
      BY <2>6 DEF TaskPush, GoTo, TypeOK
    <3>2. Push(cand[s], job[s].depth + 1, DefaultPriority)
      BY <2>6 DEF TaskPush
    <3>3. /\ cand[s] \in lost' \/ \E e \in frontier' : e.url = cand[s]
          /\ lost \subseteq lost' /\ frontier \subseteq frontier'
      BY <3>2, PushAccounts
    <3>. QED BY <1>0, <2>1, <2>2, <3>1, <3>3 DEF Accounted, IsPending, Slot
  <2>7. CASE TaskSend(s)
    <3>1. /\ UNCHANGED <<frontier, found, lost, skipped>>
          /\ handled' = handled \cup {job[s].url} /\ pc[s] # "push"
      BY <2>7 DEF TaskSend, frontVars
    <3>. QED BY <1>0, <2>1, <2>2, <3>1 DEF Accounted, IsPending, Slot
  <2>. QED BY <1>6, <2>3, <2>4, <2>5, <2>6, <2>7, <2>8 DEF Task
<1>7. Accounted(u)'
  BY <1>1, <1>2, <1>3, <1>4, <1>5, <1>6 DEF Next, Main, Finished
<1>. QED BY <1>7 DEF Accounted

(* No URL that dedup accepted disappears, whichever tasks race on it. *)
THEOREM NoUrlLost == Spec => []NothingLost
<1>1. QED BY Typing, NothingLostInit, NothingLostStep, PTL DEF Spec

(* A crawl that stops because the site is exhausted has run every URL it   *)
(* found, except those it recorded as dropped: the test "frontier empty    *)
(* and all permits back" detects termination correctly.                    *)
THEOREM ExhaustionIsComplete == Spec => []ExhaustedMeansDone
<1>1. Spec => []StopInv
  BY Typing, StopInit, StopStep, PTL DEF Spec
<1>2. StopInv /\ NothingLost => ExhaustedMeansDone
  <2> SUFFICES ASSUME StopInv, NothingLost, stop = "exhausted", ~closed, NEW u \in found
               PROVE  u \in handled \cup lost
    BY DEF ExhaustedMeansDone
  <2>1. frontier = {} /\ mpc \in {"drain", "done"} /\ skipped = {}
    BY DEF StopInv
  <2>2. \A s \in Slot : pc[s] = "idle"
    BY DEF StopInv, AllIdle
  <2>3. ~IsPending(u)
    BY <2>1, <2>2 DEF IsPending
  <2>. QED BY <2>1, <2>3 DEF NothingLost
<1>. QED BY <1>1, <1>2, NoUrlLost, PTL

-----------------------------------------------------------------------------
(* Delivery.  The pages in the channel, and the tasks about to send one.   *)
PagesIn(c) == {i \in DOMAIN c : c[i] = "page"}
Sending == {s \in Slot : pc[s] = "sendOk"}

DeliveryInv ==
  ~closed => pages = got + Cardinality(PagesIn(chan)) + Cardinality(Sending)

LEMMA PagesFinite ==
  ASSUME NEW c \in Seq(Result)
  PROVE  IsFiniteSet(PagesIn(c)) /\ Cardinality(PagesIn(c)) \in Nat
<1>1. IsFiniteSet(1..Len(c))
  BY FS_Interval
<1>2. PagesIn(c) \subseteq 1..Len(c)
  BY DEF PagesIn
<1>. QED BY <1>1, <1>2, FS_Subset, FS_CardinalityType

LEMMA PagesAppend ==
  ASSUME NEW c \in Seq(Result), NEW r \in Result
  PROVE  Cardinality(PagesIn(Append(c, r)))
           = Cardinality(PagesIn(c)) + (IF r = "page" THEN 1 ELSE 0)
<1>1. PagesIn(Append(c, r)) = IF r = "page" THEN PagesIn(c) \cup {Len(c) + 1} ELSE PagesIn(c)
  BY DEF PagesIn
<1>2. Len(c) + 1 \notin PagesIn(c)
  BY DEF PagesIn
<1>3. Cardinality(PagesIn(c) \cup {Len(c) + 1}) = Cardinality(PagesIn(c)) + 1
  BY <1>2, PagesFinite, FS_AddElement
<1>. QED BY <1>1, <1>3, PagesFinite

LEMMA PagesTail ==
  ASSUME NEW c \in Seq(Result), c # <<>>
  PROVE  Cardinality(PagesIn(c))
           = Cardinality(PagesIn(Tail(c))) + (IF Head(c) = "page" THEN 1 ELSE 0)
<1> DEFINE A == PagesIn(Tail(c))
           B == PagesIn(c) \ {1}
           shift == [i \in A |-> i + 1]
<1>1. Tail(c) \in Seq(Result) /\ Len(Tail(c)) = Len(c) - 1 /\ Len(c) \in Nat \ {0}
  OBVIOUS
<1>2. \A i \in 1..(Len(c) - 1) : Tail(c)[i] = c[i + 1]
  OBVIOUS
<1>3. A = {i \in 1..(Len(c) - 1) : c[i + 1] = "page"}
  BY <1>1, <1>2 DEF PagesIn
<1>4. B = {i \in 2..Len(c) : c[i] = "page"}
  BY <1>1 DEF PagesIn
<1>. HIDE DEF A, B
<1>5. shift \in Bijection(A, B)
  <2>1. shift \in [A -> B]
    BY <1>1, <1>3, <1>4
  <2>2. \A i, j \in A : shift[i] = shift[j] => i = j
    BY <1>3
  <2>3. ASSUME NEW b \in B PROVE \E a \in A : shift[a] = b
    <3>1. b - 1 \in A /\ shift[b - 1] = b
      BY <1>1, <1>3, <1>4
    <3>. QED BY <3>1
  <2>. QED BY <2>1, <2>2, <2>3 DEF Bijection, Injection, Surjection, IsInjective
<1>6. IsFiniteSet(A)
  BY <1>1, PagesFinite DEF A
<1>7. Cardinality(B) = Cardinality(A) /\ Cardinality(A) \in Nat
  BY <1>5, <1>6, FS_Bijection, FS_CardinalityType DEF ExistsBijection
<1>8. (1 \in PagesIn(c)) = (Head(c) = "page")
  BY <1>1 DEF PagesIn
<1>9. Cardinality(B) = IF 1 \in PagesIn(c) THEN Cardinality(PagesIn(c)) - 1
                       ELSE Cardinality(PagesIn(c))
  BY PagesFinite, FS_RemoveElement DEF B
<1>. QED BY <1>7, <1>8, <1>9, PagesFinite DEF A

LEMMA SendingFinite ==
  IsFiniteSet(Sending) /\ Cardinality(Sending) \in Nat
BY SlotSets DEF Sending

(* A step of the others does not disturb the sum. *)
LEMMA DeliveryQuiet ==
  ASSUME DeliveryInv, UNCHANGED <<pages, got, chan>>, Sending' = Sending, closed' = closed
  PROVE  DeliveryInv'
BY DEF DeliveryInv

LEMMA DeliveryInit == Init => DeliveryInv
<1> SUFFICES ASSUME Init PROVE DeliveryInv
  OBVIOUS
<1>1. PagesIn(chan) = {} /\ Sending = {}
  BY DEF Init, PagesIn, Sending
<1>2. Cardinality({}) = 0
  BY FS_EmptySet
<1>3. pages = 0 /\ got = 0
  BY DEF Init
<1>. QED BY <1>1, <1>2, <1>3 DEF DeliveryInv

LEMMA DeliveryStep == TypeOK /\ DeliveryInv /\ [Next]_vars => DeliveryInv'
<1> SUFFICES ASSUME TypeOK, DeliveryInv, [Next]_vars PROVE DeliveryInv'
  OBVIOUS
<1>0. /\ pages \in Nat /\ got \in Nat /\ chan \in Seq(Result)
      /\ Cardinality(PagesIn(chan)) \in Nat /\ Cardinality(Sending) \in Nat
  BY PagesFinite, SendingFinite DEF TypeOK
<1>1. CASE Main \/ UNCHANGED vars
  <2>1. UNCHANGED <<pages, got, chan, closed>>
    BY <1>1 DEF Main, SeedRoot, SeedSitemap, SeedDone, MainCheck, MainPop, MainPopNone, MainIdle,
                MainDrain, MainSpawn, vars, chanVars, history
  <2>2. \A s \in Slot : (pc'[s] = "sendOk") = (pc[s] = "sendOk")
    BY <1>1 DEF Main, SeedRoot, SeedSitemap, SeedDone, MainCheck, MainPop, MainPopNone, MainIdle,
                MainDrain, MainSpawn, GoTo, vars, taskVars, TypeOK
  <2>3. Sending' = Sending
    BY <2>2 DEF Sending, Slot
  <2>. QED BY <2>1, <2>3, DeliveryQuiet
<1>2. ASSUME NEW s \in Slot,
             TaskStart(s) \/ TaskFetch(s) \/ TaskBody(s) \/ TaskLink(s) \/ TaskDedup(s)
             \/ TaskPush(s) \/ TaskLinksDone(s)
      PROVE  DeliveryInv'
  <2>1. UNCHANGED <<pages, got, chan, closed>>
    BY <1>2 DEF TaskStart, TaskFetch, TaskBody, TaskLink, TaskDedup, TaskPush, TaskLinksDone,
                chanVars, history
  <2>2. \A t \in Slot : (pc'[t] = "sendOk") = (pc[t] = "sendOk")
    <3>1. pc[s] \in {"start", "fetch", "body", "links", "dedup", "push"}
      BY <1>2 DEF TaskStart, TaskFetch, TaskBody, TaskLink, TaskDedup, TaskPush, TaskLinksDone
    <3>2. pc' = pc \/ \E to \in {"idle", "fetch", "body", "sendErr", "links", "dedup", "push", "count"} :
                         pc' = [pc EXCEPT ![s] = to]
      <4>1. CASE TaskStart(s)
        BY <4>1 DEF TaskStart, GoTo, Free
      <4>2. CASE TaskFetch(s) \/ TaskBody(s) \/ TaskLink(s)
        BY <4>2 DEF TaskFetch, TaskBody, TaskLink, GoTo
      <4>3. CASE TaskDedup(s) \/ TaskPush(s) \/ TaskLinksDone(s)
        BY <4>3 DEF TaskDedup, TaskPush, TaskLinksDone, GoTo
      <4>. QED BY <1>2, <4>1, <4>2, <4>3
    <3>. QED BY <3>1, <3>2 DEF TypeOK
  <2>3. Sending' = Sending
    BY <2>2 DEF Sending, Slot
  <2>. QED BY <2>1, <2>3, DeliveryQuiet
<1>3. ASSUME NEW s \in Slot, TaskCount(s) PROVE DeliveryInv'
  <2>1. pages' = pages + 1 /\ UNCHANGED <<got, chan, closed>>
    BY <1>3 DEF TaskCount, chanVars, history
  <2>2. s \notin Sending /\ Sending' = Sending \cup {s}
    BY <1>3 DEF TaskCount, GoTo, Sending, TypeOK, Slot
  <2>3. Cardinality(Sending') = Cardinality(Sending) + 1
    BY <2>2, SendingFinite, FS_AddElement
  <2>. QED BY <1>0, <2>1, <2>3 DEF DeliveryInv
<1>4. ASSUME NEW s \in Slot, TaskSend(s) PROVE DeliveryInv'
  <2>1. UNCHANGED <<pages, got, closed>> /\ pc[s] \in {"sendOk", "sendErr"}
    BY <1>4 DEF TaskSend
  <2>2. Sending' = Sending \ {s}
    BY <1>4 DEF TaskSend, Free, Sending, TypeOK, Slot
  <2>3. Cardinality(Sending')
          = IF pc[s] = "sendOk" THEN Cardinality(Sending) - 1 ELSE Cardinality(Sending)
    <3>1. s \in Sending <=> pc[s] = "sendOk"
      BY DEF Sending
    <3>2. Cardinality(Sending \ {s})
            = IF s \in Sending THEN Cardinality(Sending) - 1 ELSE Cardinality(Sending)
      BY SendingFinite, FS_RemoveElement
    <3>. QED BY <2>2, <3>1, <3>2
  <2>4. CASE ~closed
    <3>1. PICK r \in Result : r = ResultOf(s)
      BY DEF ResultOf, Result
    <3>2. chan' = Append(chan, r)
      BY <1>4, <2>4, <3>1 DEF TaskSend
    <3>3. Cardinality(PagesIn(chan'))
            = Cardinality(PagesIn(chan)) + (IF r = "page" THEN 1 ELSE 0)
      BY <1>0, <3>2, PagesAppend
    <3>4. r = "page" <=> pc[s] = "sendOk"
      BY <3>1 DEF ResultOf
    <3>. QED BY <1>0, <2>1, <2>3, <2>4, <3>3, <3>4 DEF DeliveryInv
  <2>. QED BY <2>1, <2>4 DEF DeliveryInv
<1>5. ASSUME Receive PROVE DeliveryInv'
  <2>1. /\ UNCHANGED <<pages, pc, closed>> /\ chan # <<>> /\ chan' = Tail(chan)
        /\ got' = IF Head(chan) = "page" THEN got + 1 ELSE got
    BY <1>5 DEF Receive, taskVars
  <2>2. Sending' = Sending
    BY <2>1 DEF Sending, Slot
  <2>3. Tail(chan) \in Seq(Result)
    BY <1>0, <2>1
  <2>4. Cardinality(PagesIn(chan))
          = Cardinality(PagesIn(chan')) + (IF Head(chan) = "page" THEN 1 ELSE 0)
        /\ Cardinality(PagesIn(chan')) \in Nat
    BY <1>0, <2>1, <2>3, PagesTail, PagesFinite
  <2>. QED BY <1>0, <2>1, <2>2, <2>4 DEF DeliveryInv
<1>6. ASSUME Disconnect PROVE DeliveryInv'
  BY <1>6 DEF Disconnect, DeliveryInv
<1>. QED BY <1>1, <1>2, <1>3, <1>4, <1>5, <1>6 DEF Next, Task, Finished

(* Every page counted is a successful result the receiver took, one in the *)
(* channel, or one a task is about to send: none is lost while the         *)
(* receiver is there.                                                      *)
THEOREM PagesDelivered == Spec => []DeliveryAccounting
<1>1. DeliveryInv => DeliveryAccounting
  BY DEF DeliveryInv, DeliveryAccounting, PagesIn, Sending
<1>. QED BY <1>1, Typing, DeliveryInit, DeliveryStep, PTL DEF Spec

-----------------------------------------------------------------------------
(* Budgets.  What only links led to has been charged, and so has each link *)
(* a task holds between the charge and dedup.                              *)
Seeds == {Seed} \cup {e.url : e \in Range(Sitemap)}
Charged(k) == {u \in found \ Seeds : k \in Applicable(u)}
Asking(k) == {s \in Slot : pc[s] = "dedup" /\ k \in Applicable(cand[s])}

BudgetInv ==
  /\ IsFiniteSet(found)
  /\ \A k \in BudgetKeys :
       /\ spent[k] <= Limits[k]
       /\ Cardinality(Charged(k)) <= Limits[k]
       /\ mpc # "done" => Cardinality(Charged(k)) + Cardinality(Asking(k)) <= spent[k]

LEMMA BudgetSets ==
  ASSUME IsFiniteSet(found), NEW k
  PROVE  /\ IsFiniteSet(Charged(k)) /\ Cardinality(Charged(k)) \in Nat
         /\ IsFiniteSet(Asking(k)) /\ Cardinality(Asking(k)) \in Nat
<1>1. Charged(k) \subseteq found /\ Asking(k) \subseteq Slot
  BY DEF Charged, Asking
<1>. QED BY <1>1, SlotSets, FS_Subset, FS_CardinalityType

LEMMA BudgetInit == Init => BudgetInv
<1> SUFFICES ASSUME Init PROVE BudgetInv
  OBVIOUS
<1>1. IsFiniteSet(found) /\ Cardinality({}) = 0
  BY FS_EmptySet DEF Init
<1>2. ASSUME NEW k \in BudgetKeys
      PROVE  /\ spent[k] <= Limits[k]
             /\ Cardinality(Charged(k)) <= Limits[k]
             /\ mpc # "done" => Cardinality(Charged(k)) + Cardinality(Asking(k)) <= spent[k]
  <2>1. Charged(k) = {} /\ Asking(k) = {} /\ spent[k] = 0
    BY DEF Init, Charged, Asking
  <2>2. Limits[k] \in Nat
    OBVIOUS
  <2>. QED BY <1>1, <2>1, <2>2
<1>. QED BY <1>1, <1>2 DEF BudgetInv

(* A step that charges nothing and moves no link past dedup. *)
LEMMA BudgetQuiet ==
  ASSUME BudgetInv, spent' = spent, IsFiniteSet(found'),
         \A k \in BudgetKeys : Charged(k)' = Charged(k) /\ Asking(k)' = Asking(k),
         mpc = "done" => mpc' = "done"
  PROVE  BudgetInv'
BY DEF BudgetInv

LEMMA BudgetStep == TypeOK /\ StopInv /\ BudgetInv /\ [Next]_vars => BudgetInv'
<1> SUFFICES ASSUME TypeOK, StopInv, BudgetInv, [Next]_vars PROVE BudgetInv'
  OBVIOUS
<1>1. ASSUME SeedRoot PROVE BudgetInv'
  <2>1. UNCHANGED <<mpc, spent, pc, cand>> /\ found' = found \cup {Seed}
    BY <1>1 DEF SeedRoot, Discover, mainVars, taskVars
  <2>2. IsFiniteSet(found')
    BY <2>1, FS_AddElement DEF BudgetInv
  <2>3. \A k \in BudgetKeys : Charged(k)' = Charged(k) /\ Asking(k)' = Asking(k)
    BY <2>1 DEF Charged, Asking, Seeds, Applicable, Slot
  <2>. QED BY <2>1, <2>2, <2>3, BudgetQuiet
<1>2. ASSUME SeedSitemap PROVE BudgetInv'
  <2>1. PICK v \in Seeds : found' = found \/ found' = found \cup {v}
    <3>1. seeded + 1 \in DOMAIN Sitemap
      BY <1>2 DEF SeedSitemap, TypeOK
    <3>2. Sitemap[seeded + 1].url \in Seeds
      BY <3>1 DEF Seeds, Range
    <3>. QED BY <1>2, <3>2 DEF SeedSitemap, Discover
  <2>2. UNCHANGED <<mpc, spent, pc, cand>>
    BY <1>2 DEF SeedSitemap, taskVars
  <2>3. IsFiniteSet(found')
    <3>1. IsFiniteSet(found) /\ IsFiniteSet(found \cup {v})
      BY FS_AddElement DEF BudgetInv
    <3>. QED BY <2>1, <3>1
  <2>4. \A k \in BudgetKeys : Charged(k)' = Charged(k) /\ Asking(k)' = Asking(k)
    BY <2>1, <2>2 DEF Charged, Asking, Seeds, Applicable, Slot
  <2>. QED BY <2>2, <2>3, <2>4, BudgetQuiet
<1>3. ASSUME SeedDone \/ MainCheck \/ MainPop \/ MainPopNone \/ MainIdle \/ Receive
             \/ Disconnect \/ UNCHANGED vars
      PROVE  BudgetInv'
  <2>1. UNCHANGED <<found, spent, pc, cand>> /\ (mpc = "done" => mpc' = "done")
    BY <1>3 DEF SeedDone, MainCheck, MainPop, MainPopNone, MainIdle, Receive, Disconnect,
                vars, mainVars, taskVars, history
  <2>2. \A k \in BudgetKeys : Charged(k)' = Charged(k) /\ Asking(k)' = Asking(k)
    BY <2>1 DEF Charged, Asking, Seeds, Applicable, Slot
  <2>. QED BY <2>1, <2>2, BudgetQuiet DEF BudgetInv
<1>4. ASSUME MainDrain PROVE BudgetInv'
  <2>1. mpc' = "done" /\ found' = found /\ spent' = [k \in BudgetKeys |-> 0]
    BY <1>4 DEF MainDrain, history
  <2>2. \A k \in BudgetKeys : Charged(k)' = Charged(k) /\ spent'[k] <= Limits[k]
    BY <2>1 DEF Charged, Seeds, Applicable
  <2>. QED BY <2>1, <2>2 DEF BudgetInv
<1>5. ASSUME NEW s \in Slot, MainSpawn(s) PROVE BudgetInv'
  <2>1. UNCHANGED <<found, spent, cand>> /\ mpc # "done" /\ mpc' # "done"
    BY <1>5 DEF MainSpawn, history
  <2>2. \A t \in Slot : (pc'[t] = "dedup") = (pc[t] = "dedup")
    BY <1>5 DEF MainSpawn, GoTo, TypeOK
  <2>3. \A k \in BudgetKeys : Charged(k)' = Charged(k) /\ Asking(k)' = Asking(k)
    BY <2>1, <2>2 DEF Charged, Asking, Seeds, Applicable, Slot
  <2>. QED BY <2>1, <2>3, BudgetQuiet DEF BudgetInv
<1>6. ASSUME NEW s \in Slot,
             TaskStart(s) \/ TaskFetch(s) \/ TaskBody(s) \/ TaskPush(s) \/ TaskLinksDone(s)
             \/ TaskCount(s) \/ TaskSend(s)
      PROVE  BudgetInv'
  <2>1. UNCHANGED <<mpc, found, spent>>
    BY <1>6 DEF TaskStart, TaskFetch, TaskBody, TaskPush, TaskLinksDone, TaskCount, TaskSend,
                mainVars, history
  <2>2. \A t \in Slot : (pc'[t] = "dedup") = (pc[t] = "dedup")
    BY <1>6 DEF TaskStart, TaskFetch, TaskBody, TaskPush, TaskLinksDone, TaskCount, TaskSend,
                GoTo, Free, TypeOK
  <2>3. \A t \in Slot : pc[t] = "dedup" => cand'[t] = cand[t]
    BY <1>6 DEF TaskStart, TaskFetch, TaskBody, TaskPush, TaskLinksDone, TaskCount, TaskSend,
                GoTo, Free, TypeOK
  <2>4. \A k \in BudgetKeys : Charged(k)' = Charged(k) /\ Asking(k)' = Asking(k)
    BY <2>1, <2>2, <2>3 DEF Charged, Asking, Seeds, Applicable, Slot
  <2>. QED BY <2>1, <2>4, BudgetQuiet DEF BudgetInv
<1>7. ASSUME NEW s \in Slot, TaskLink(s) PROVE BudgetInv'
  <2> DEFINE u == Head(todo[s])
  <2>1. UNCHANGED <<mpc, found>> /\ pc[s] = "links" /\ mpc # "done"
    BY <1>7 DEF TaskLink, mainVars, history, StopInv, AllIdle
  <2>2. \A k \in BudgetKeys : Charged(k)' = Charged(k)
    BY <2>1 DEF Charged, Seeds, Applicable
  <2>3. CASE ~Affordable(u)
    <3>1. UNCHANGED <<spent, cand, pc>>
      BY <1>7, <2>3 DEF TaskLink
    <3>2. \A k \in BudgetKeys : Asking(k)' = Asking(k)
      BY <3>1 DEF Asking, Applicable, Slot
    <3>. QED BY <2>1, <2>2, <3>1, <3>2, BudgetQuiet DEF BudgetInv
  <2>4. CASE Affordable(u)
    <3>1. PICK v \in Urls : /\ Affordable(v) /\ spent' = Charge(v)
                            /\ cand' = [cand EXCEPT ![s] = v] /\ pc' = [pc EXCEPT ![s] = "dedup"]
      <4>1. u \in Urls
        BY <1>7 DEF TaskLink, TypeOK
      <4>. QED BY <1>7, <2>4, <4>1 DEF TaskLink, GoTo
    <3>2. /\ cand'[s] = v /\ pc'[s] = "dedup"
          /\ \A t \in Slot : t # s => cand'[t] = cand[t] /\ pc'[t] = pc[t]
      BY <3>1 DEF TypeOK
    <3>3. ASSUME NEW k \in BudgetKeys
          PROVE  /\ spent'[k] <= Limits[k]
                 /\ Cardinality(Charged(k)') <= Limits[k]
                 /\ Cardinality(Charged(k)') + Cardinality(Asking(k)') <= spent'[k]
      <4>0. /\ spent[k] \in Nat /\ Limits[k] \in Nat
            /\ IsFiniteSet(Asking(k)) /\ Cardinality(Asking(k)) \in Nat
            /\ Cardinality(Charged(k)) \in Nat
        BY BudgetSets DEF TypeOK, BudgetInv
      <4>1. /\ spent[k] <= Limits[k] /\ Cardinality(Charged(k)) <= Limits[k]
            /\ Cardinality(Charged(k)) + Cardinality(Asking(k)) <= spent[k]
        BY <2>1 DEF BudgetInv
      <4>2. CASE k \in Applicable(v)
        <5>1. spent'[k] = spent[k] + 1 /\ spent[k] < Limits[k]
          BY <3>1, <4>2 DEF Charge, Affordable
        <5>2. s \notin Asking(k) /\ Asking(k)' = Asking(k) \cup {s}
          BY <2>1, <3>2, <4>2 DEF Asking, Applicable, Slot
        <5>3. Cardinality(Asking(k)') = Cardinality(Asking(k)) + 1
          BY <4>0, <5>2, FS_AddElement
        <5>. QED BY <2>2, <4>0, <4>1, <5>1, <5>3
      <4>3. CASE k \notin Applicable(v)
        <5>1. spent'[k] = spent[k]
          BY <3>1, <4>3 DEF Charge
        <5>2. Asking(k)' = Asking(k)
          BY <2>1, <3>2, <4>3 DEF Asking, Applicable, Slot
        <5>. QED BY <2>2, <4>0, <4>1, <5>1, <5>2
      <4>. QED BY <4>2, <4>3
    <3>. QED BY <2>1, <3>3 DEF BudgetInv
  <2>. QED BY <2>3, <2>4
<1>8. ASSUME NEW s \in Slot, TaskDedup(s) PROVE BudgetInv'
  <2>1. UNCHANGED <<mpc, spent>> /\ pc[s] = "dedup" /\ mpc # "done" /\ cand[s] \in Urls
    BY <1>8 DEF TaskDedup, mainVars, StopInv, AllIdle, TypeOK
  <2>2. found' = found \/ found' = found \cup {cand[s]}
    BY <1>8 DEF TaskDedup, Discover
  <2>3. IsFiniteSet(found')
    <3>1. IsFiniteSet(found) /\ IsFiniteSet(found \cup {cand[s]})
      BY FS_AddElement DEF BudgetInv
    <3>. QED BY <2>2, <3>1
  <2>4. /\ pc'[s] # "dedup"
        /\ \A t \in Slot : t # s => pc'[t] = pc[t] /\ cand'[t] = cand[t]
    BY <1>8 DEF TaskDedup, GoTo, TypeOK
  <2>5. ASSUME NEW k \in BudgetKeys
        PROVE  /\ Cardinality(Charged(k)') <= Limits[k]
               /\ Cardinality(Charged(k)') + Cardinality(Asking(k)') <= spent[k]
    <3>0. /\ spent[k] \in Nat /\ Limits[k] \in Nat
          /\ IsFiniteSet(Asking(k)) /\ Cardinality(Asking(k)) \in Nat
          /\ IsFiniteSet(Charged(k)) /\ Cardinality(Charged(k)) \in Nat
      BY BudgetSets DEF TypeOK, BudgetInv
    <3>1. /\ spent[k] <= Limits[k] /\ Cardinality(Charged(k)) <= Limits[k]
          /\ Cardinality(Charged(k)) + Cardinality(Asking(k)) <= spent[k]
      BY <2>1 DEF BudgetInv
    <3>2. Asking(k)' = Asking(k) \ {s}
      BY <2>4 DEF Asking, Applicable, Slot
    <3>3. CASE k \in Applicable(cand[s])
      <4>1. s \in Asking(k)
        BY <2>1, <3>3 DEF Asking
      <4>2. Cardinality(Asking(k)') = Cardinality(Asking(k)) - 1
        <5>1. Cardinality(Asking(k) \ {s}) = Cardinality(Asking(k)) - 1
          BY ONLY <3>0, <4>1, FS_RemoveElement
        <5>. QED BY ONLY <3>2, <5>1
      <4>3. Charged(k)' = Charged(k) \/ Charged(k)' = Charged(k) \cup {cand[s]}
        BY <2>2 DEF Charged, Seeds, Applicable
      <4>4. /\ Cardinality(Charged(k)') \in Nat
            /\ Cardinality(Charged(k)') <= Cardinality(Charged(k)) + 1
        <5>1. Cardinality(Charged(k) \cup {cand[s]})
                = IF cand[s] \in Charged(k) THEN Cardinality(Charged(k))
                  ELSE Cardinality(Charged(k)) + 1
          BY <3>0, FS_AddElement
        <5>2. CASE Charged(k)' = Charged(k)
          BY <3>0, <5>2
        <5>3. CASE Charged(k)' = Charged(k) \cup {cand[s]}
          BY <3>0, <5>1, <5>3
        <5>. QED BY <4>3, <5>2, <5>3
      <4> DEFINE A == Cardinality(Asking(k))
                 C == Cardinality(Charged(k))
                 D == Cardinality(Charged(k)')
      <4>5. /\ A \in Nat /\ C \in Nat /\ D \in Nat /\ spent[k] \in Nat /\ Limits[k] \in Nat
            /\ C + A <= spent[k] /\ spent[k] <= Limits[k] /\ D <= C + 1
        BY <3>0, <3>1, <4>4
      <4>6. A >= 1
        BY <3>0, <4>1, FS_EmptySet
      <4> HIDE DEF A, C, D
      <4>7. D <= Limits[k] /\ D + (A - 1) <= spent[k]
        BY <4>5, <4>6
      <4>. QED BY <4>2, <4>7 DEF A, D
    <3>4. CASE k \notin Applicable(cand[s])
      <4>1. s \notin Asking(k)
        BY <3>4 DEF Asking
      <4>2. Asking(k)' = Asking(k)
        BY <3>2, <4>1
      <4>3. Charged(k)' = Charged(k)
        BY <2>2, <3>4 DEF Charged, Seeds, Applicable
      <4>. QED BY <3>1, <4>2, <4>3
    <3>. QED BY <3>3, <3>4
  <2>. QED BY <2>1, <2>3, <2>5 DEF BudgetInv
<1>. QED
  BY <1>1, <1>2, <1>3, <1>4, <1>5, <1>6, <1>7, <1>8 DEF Next, Main, Task, Finished

(* Whatever the tasks that find them at the same time, the pages reached   *)
(* through links never pass a budget that applies to them: the charge      *)
(* comes before dedup, and is never given back before the crawl ends.      *)
THEOREM BudgetsHold == Spec => []LinkBudgetHolds
<1>1. BudgetInv => LinkBudgetHolds
  BY DEF BudgetInv, LinkBudgetHolds, Charged, Seeds
<1>. QED BY <1>1, Typing, StopInit, StopStep, BudgetInit, BudgetStep, PTL DEF Spec

-----------------------------------------------------------------------------
(* Refinement: every step of the crawl is a step of CrawlPromise or leaves *)
(* its variables alone.                                                    *)
PromiseStepOrStutter == Promise!Next \/ UNCHANGED Promise!vars

(* Every URL in the frontier, with the main loop or with a task is one     *)
(* that dedup accepted.                                                    *)
KnownInv ==
  /\ \A e \in frontier : e.url \in found
  /\ mpc = "permit" => held.url \in found
  /\ \A s \in Slot : pc[s] # "idle" => job[s].url \in found
  /\ \A s \in Slot : pc[s] = "push" => cand[s] \in found

LEMMA KnownInit == Init => KnownInv
BY DEF Init, KnownInv

LEMMA PushKnown ==
  ASSUME NEW u \in found', NEW d, NEW p, Push(u, d, p), found \subseteq found',
         \A e \in frontier : e.url \in found
  PROVE  \A e \in frontier' : e.url \in found'
BY DEF Push, frontVars

LEMMA KnownStep == TypeOK /\ KnownInv /\ [Next]_vars => KnownInv'
<1> SUFFICES ASSUME TypeOK, KnownInv, [Next]_vars PROVE KnownInv'
  OBVIOUS
<1>1. ASSUME SeedRoot PROVE KnownInv'
  <2>1. /\ Push(Seed, 0, DefaultPriority) /\ found' = found \cup {Seed}
        /\ UNCHANGED <<mpc, held, pc, job, cand>>
    BY <1>1 DEF SeedRoot, Discover, mainVars, taskVars
  <2>2. \A e \in frontier' : e.url \in found'
    BY <2>1, PushKnown DEF KnownInv
  <2>. QED BY <2>1, <2>2 DEF KnownInv, Slot
<1>2. ASSUME SeedSitemap PROVE KnownInv'
  <2> DEFINE e == Sitemap[seeded + 1]
  <2>1. UNCHANGED <<mpc, held, pc, job, cand>>
    BY <1>2 DEF SeedSitemap, taskVars
  <2>2. CASE e.url \in Range(dedup)
    <3>1. UNCHANGED <<frontier, found>>
      BY <1>2, <2>2 DEF SeedSitemap, frontVars
    <3>. QED BY <2>1, <3>1 DEF KnownInv, Slot
  <2>3. CASE e.url \notin Range(dedup)
    <3>1. Push(e.url, 0, e.priority) /\ found' = found \cup {e.url}
      BY <1>2, <2>3 DEF SeedSitemap, Discover
    <3>2. \A f \in frontier' : f.url \in found'
      BY <3>1, PushKnown DEF KnownInv
    <3>. QED BY <2>1, <3>1, <3>2 DEF KnownInv, Slot
  <2>. QED BY <2>2, <2>3
<1>3. ASSUME SeedDone \/ MainCheck \/ MainPopNone \/ MainIdle \/ MainDrain \/ Receive
             \/ Disconnect \/ UNCHANGED vars
      PROVE  KnownInv'
  <2>1. UNCHANGED <<frontier, held, pc, job, cand, found>>
    BY <1>3 DEF SeedDone, MainCheck, MainPopNone, MainIdle, MainDrain, Receive, Disconnect,
                vars, mainVars, frontVars, taskVars, history
  <2>2. mpc' = "permit" => mpc = "permit"
    BY <1>3 DEF SeedDone, MainCheck, MainPopNone, MainIdle, MainDrain, Receive, Disconnect,
                vars, mainVars
  <2>. QED BY <2>1, <2>2 DEF KnownInv, Slot
<1>4. ASSUME MainPop PROVE KnownInv'
  <2>1. PICK e \in frontier : /\ frontier' = frontier \ {e}
                              /\ held' = [url |-> e.url, depth |-> e.depth]
    BY <1>4 DEF MainPop
  <2>2. UNCHANGED <<pc, job, cand, found>> /\ held'.url = e.url
    BY <1>4, <2>1 DEF MainPop, taskVars, history
  <2>. QED BY <2>1, <2>2 DEF KnownInv, Slot
<1>5. ASSUME NEW s \in Slot, MainSpawn(s) PROVE KnownInv'
  <2>1. /\ mpc = "permit" /\ mpc' = "check"
        /\ UNCHANGED <<frontier, cand, found>>
        /\ pc'[s] = "start" /\ job'[s] = held
        /\ \A t \in Slot : t # s => pc'[t] = pc[t] /\ job'[t] = job[t]
    BY <1>5 DEF MainSpawn, GoTo, TypeOK, frontVars, history
  <2>. QED BY <2>1 DEF KnownInv, Slot
<1>6. ASSUME NEW s \in Slot, Task(s) PROVE KnownInv'
  <2>1. UNCHANGED <<mpc, held>> /\ pc[s] # "idle" /\ found \subseteq found'
    BY <1>6 DEF Task, TaskStart, TaskFetch, TaskBody, TaskLink, TaskDedup, TaskPush, TaskLinksDone,
                TaskCount, TaskSend, Discover, mainVars, history
  <2>2. \A t \in Slot : t # s => pc'[t] = pc[t] /\ job'[t] = job[t] /\ cand'[t] = cand[t]
    BY <1>6 DEF Task, TaskStart, TaskFetch, TaskBody, TaskLink, TaskDedup, TaskPush, TaskLinksDone,
                TaskCount, TaskSend, GoTo, Free, TypeOK
  <2>3. pc'[s] # "idle" => job'[s] = job[s]
    BY <1>6 DEF Task, TaskStart, TaskFetch, TaskBody, TaskLink, TaskDedup, TaskPush, TaskLinksDone,
                TaskCount, TaskSend, GoTo, Free, TypeOK, history
  <2>4. pc'[s] = "push" => cand'[s] \in found'
    BY <1>6 DEF Task, TaskStart, TaskFetch, TaskBody, TaskLink, TaskDedup, TaskPush, TaskLinksDone,
                TaskCount, TaskSend, Discover, GoTo, Free, TypeOK
  <2>5. \A e \in frontier' : e.url \in found'
    <3>1. CASE TaskPush(s)
      BY <3>1, PushKnown DEF TaskPush, KnownInv
    <3>2. CASE ~TaskPush(s)
      <4>1. frontier' = frontier
        BY <1>6, <3>2 DEF Task, TaskStart, TaskFetch, TaskBody, TaskLink, TaskDedup, TaskLinksDone,
                          TaskCount, TaskSend, frontVars
      <4>. QED BY <2>1, <4>1 DEF KnownInv
    <3>. QED BY <3>1, <3>2
  <2>. QED BY <2>1, <2>2, <2>3, <2>4, <2>5 DEF KnownInv, Slot
<1>. QED
  BY <1>1, <1>2, <1>3, <1>4, <1>5, <1>6 DEF Next, Main, Finished

LEMMA PromiseInit == Init => Promise!Init
BY DEF Init, Promise!Init

(* The four ways a step of the crawl shows at the abstract level. *)
LEMMA PromiseAccept ==
  ASSUME NEW u \in Urls, found' = found \cup {u}, stop # "exhausted", mpc # "done",
         UNCHANGED <<handled, skipped, lost, pages, stop, mpc>>
  PROVE  PromiseStepOrStutter
<1>1. CASE u \in handled \cup skipped \cup lost
  BY <1>1 DEF PromiseStepOrStutter, Promise!vars
<1>2. CASE u \notin handled \cup skipped \cup lost
  <2>1. Promise!Accept(u)
    BY <1>2 DEF Promise!Accept, Promise!Running
  <2>. QED BY <2>1 DEF PromiseStepOrStutter, Promise!Next
<1>. QED BY <1>1, <1>2

LEMMA PromiseDrop ==
  ASSUME NEW u \in Urls, found \subseteq found', found' \subseteq found \cup {u},
         lost' = lost \cup {u}, stop # "exhausted", mpc # "done",
         UNCHANGED <<handled, skipped, pages, stop, mpc>>
  PROVE  PromiseStepOrStutter
<1>1. Promise!Drop(u)
  BY DEF Promise!Drop, Promise!Running
<1>. QED BY <1>1 DEF PromiseStepOrStutter, Promise!Next

LEMMA PromiseSettle ==
  ASSUME NEW u \in Urls, u \in found, stop # "exhausted", mpc # "done",
         handled' \cup skipped' = handled \cup skipped \cup {u},
         UNCHANGED <<found, lost, pages, stop, mpc>>
  PROVE  PromiseStepOrStutter
<1>1. CASE u \in handled \cup skipped
  BY <1>1 DEF PromiseStepOrStutter, Promise!vars
<1>2. CASE u \notin handled \cup skipped
  <2>1. Promise!Settle(u)
    BY <1>2 DEF Promise!Settle, Promise!Running
  <2>. QED BY <2>1 DEF PromiseStepOrStutter, Promise!Next
<1>. QED BY <1>1, <1>2

LEMMA PromiseStill ==
  ASSUME UNCHANGED <<found, handled, skipped, lost, pages, stop>>,
         (mpc' = "done") = (mpc = "done")
  PROVE  PromiseStepOrStutter
BY DEF PromiseStepOrStutter, Promise!vars

LEMMA PromiseStep ==
  TypeOK /\ PageInv /\ PageInv' /\ StopInv /\ NothingLost /\ KnownInv /\ [Next]_vars
    => [Promise!Next]_(Promise!vars)
<1> SUFFICES ASSUME TypeOK, PageInv, PageInv', StopInv, NothingLost, KnownInv, [Next]_vars
             PROVE  PromiseStepOrStutter
  BY DEF PromiseStepOrStutter
<1>1. ASSUME SeedRoot PROVE PromiseStepOrStutter
  <2>1. /\ found' = found \cup {Seed} /\ mpc = "seed"
        /\ UNCHANGED <<handled, skipped, pages, stop, mpc>>
        /\ lost' = lost \/ lost' = lost \cup {Seed}
    BY <1>1 DEF SeedRoot, Discover, Push, mainVars
  <2>2. stop # "exhausted" /\ mpc # "done"
    BY <2>1 DEF StopInv
  <2>3. Seed \in Urls
    OBVIOUS
  <2>4. CASE lost' = lost
    BY <2>1, <2>2, <2>3, <2>4, PromiseAccept
  <2>5. CASE lost' = lost \cup {Seed}
    BY <2>1, <2>2, <2>3, <2>5, PromiseDrop
  <2>. QED BY <2>1, <2>4, <2>5
<1>2. ASSUME SeedSitemap PROVE PromiseStepOrStutter
  <2> DEFINE e == Sitemap[seeded + 1]
  <2>1. e.url \in Urls
    <3> DEFINE R == [url : Urls, priority : Nat]
    <3>1. Sitemap \in Seq(R) /\ seeded + 1 \in 1..Len(Sitemap)
      BY <1>2 DEF SeedSitemap, TypeOK
    <3> HIDE DEF R
    <3>2. e \in R
      BY <3>1, ElementType
    <3>. QED BY <3>2 DEF R
  <2>2. mpc = "seed" /\ UNCHANGED <<handled, skipped, pages, stop, mpc>>
    BY <1>2 DEF SeedSitemap
  <2>3. stop # "exhausted" /\ mpc # "done"
    BY <2>2 DEF StopInv
  <2>4. \/ UNCHANGED <<found, lost>>
        \/ found' = found \cup {e.url} /\ (lost' = lost \/ lost' = lost \cup {e.url})
    BY <1>2 DEF SeedSitemap, Discover, Push
  <2> HIDE DEF e
  <2>5. CASE UNCHANGED <<found, lost>>
    BY <2>2, <2>5, PromiseStill
  <2>6. CASE found' = found \cup {e.url} /\ lost' = lost
    BY <2>1, <2>2, <2>3, <2>6, PromiseAccept
  <2>7. CASE found' = found \cup {e.url} /\ lost' = lost \cup {e.url}
    BY <2>1, <2>2, <2>3, <2>7, PromiseDrop
  <2>. QED BY <2>4, <2>5, <2>6, <2>7
<1>3. ASSUME SeedDone \/ MainPop \/ MainPopNone \/ Receive \/ Disconnect \/ UNCHANGED vars
      PROVE  PromiseStepOrStutter
  <2>1. UNCHANGED <<found, handled, skipped, lost, pages, stop>>
    BY <1>3 DEF SeedDone, MainPop, MainPopNone, Receive, Disconnect, vars, history
  <2>2. (mpc' = "done") = (mpc = "done")
    BY <1>3 DEF SeedDone, MainPop, MainPopNone, Receive, Disconnect, vars, mainVars
  <2>. QED BY <2>1, <2>2, PromiseStill
<1>4. ASSUME MainCheck PROVE PromiseStepOrStutter
  <2>1. /\ mpc = "check" /\ mpc' # "done" /\ stop' \in {"none", "closed", "limit"}
        /\ UNCHANGED <<found, handled, skipped, lost, pages>>
    BY <1>4 DEF MainCheck
  <2>2. stop = "none"
    BY <2>1 DEF StopInv
  <2>3. CASE stop' = "none"
    BY <2>1, <2>2, <2>3, PromiseStill
  <2>4. CASE stop' \in {"closed", "limit"}
    <3>1. Promise!Stop
      BY <2>1, <2>2, <2>4 DEF Promise!Stop
    <3>. QED BY <3>1 DEF PromiseStepOrStutter, Promise!Next
  <2>. QED BY <2>1, <2>3, <2>4
<1>5. ASSUME MainIdle PROVE PromiseStepOrStutter
  <2>1. /\ mpc = "idle" /\ mpc' # "done"
        /\ UNCHANGED <<found, handled, skipped, lost, pages>>
    BY <1>5 DEF MainIdle
  <2>2. stop = "none"
    BY <2>1 DEF StopInv
  <2>3. CASE stop' = stop
    BY <2>1, <2>3, PromiseStill
  <2>4. CASE frontier = {} /\ AllIdle /\ stop' = "exhausted"
    <3>1. \A u : ~IsPending(u)
      BY <2>1, <2>4 DEF IsPending, AllIdle
    <3>2. found \ (handled \cup skipped \cup lost) = {}
      BY <3>1 DEF NothingLost
    <3>3. Promise!Stop
      BY <2>1, <2>2, <2>4, <3>2 DEF Promise!Stop
    <3>. QED BY <3>3 DEF PromiseStepOrStutter, Promise!Next
  <2>. QED BY <1>5, <2>3, <2>4 DEF MainIdle
<1>6. ASSUME NEW s \in Slot, MainSpawn(s) PROVE PromiseStepOrStutter
  BY <1>6, PromiseStill DEF MainSpawn, history
<1>7. ASSUME MainDrain PROVE PromiseStepOrStutter
  <2>1. /\ mpc = "drain" /\ mpc' = "done"
        /\ UNCHANGED <<found, handled, skipped, lost, pages, stop>>
    BY <1>7 DEF MainDrain, history
  <2>2. Promise!End
    BY <2>1 DEF StopInv, Promise!End
  <2>. QED BY <2>2 DEF PromiseStepOrStutter, Promise!Next
<1>8. ASSUME NEW s \in Slot, Task(s) PROVE PromiseStepOrStutter
  <2>1. pc[s] # "idle" /\ UNCHANGED <<stop, mpc>>
    BY <1>8 DEF Task, TaskStart, TaskFetch, TaskBody, TaskLink, TaskDedup, TaskPush, TaskLinksDone,
                TaskCount, TaskSend, Discover, mainVars, history
  <2>2. stop # "exhausted" /\ mpc # "done"
    BY <2>1 DEF StopInv, AllIdle
  <2>3. job[s].url \in Urls /\ job[s].url \in found /\ cand[s] \in Urls
    BY <2>1 DEF KnownInv, TypeOK, Job
  <2>4. CASE TaskStart(s)
    <3>1. UNCHANGED <<found, handled, lost, pages>>
      BY <2>4 DEF TaskStart
    <3>2. skipped' = skipped \/ skipped' = skipped \cup {job[s].url}
      BY <2>4 DEF TaskStart
    <3>3. CASE skipped' = skipped
      BY <2>1, <3>1, <3>3, PromiseStill
    <3>4. CASE skipped' = skipped \cup {job[s].url}
      BY <2>1, <2>2, <2>3, <3>1, <3>4, PromiseSettle
    <3>. QED BY <3>2, <3>3, <3>4
  <2>5. CASE TaskFetch(s) \/ TaskBody(s) \/ TaskLink(s) \/ TaskLinksDone(s)
    BY <2>1, <2>5, PromiseStill DEF TaskFetch, TaskBody, TaskLink, TaskLinksDone, history
  <2>6. CASE TaskDedup(s)
    <3>1. UNCHANGED <<handled, skipped, lost, pages>>
      BY <2>6 DEF TaskDedup
    <3>2. found' = found \/ found' = found \cup {cand[s]}
      BY <2>6 DEF TaskDedup, Discover
    <3>3. CASE found' = found
      BY <2>1, <3>1, <3>3, PromiseStill
    <3>4. CASE found' = found \cup {cand[s]}
      BY <2>1, <2>2, <2>3, <3>1, <3>4, PromiseAccept
    <3>. QED BY <3>2, <3>3, <3>4
  <2>7. CASE TaskPush(s)
    <3>1. UNCHANGED <<found, handled, skipped, pages>>
      BY <2>7 DEF TaskPush
    <3>2. lost' = lost \/ lost' = lost \cup {cand[s]}
      BY <2>7 DEF TaskPush, Push
    <3>3. CASE lost' = lost
      BY <2>1, <3>1, <3>3, PromiseStill
    <3>4. CASE lost' = lost \cup {cand[s]}
      BY <2>1, <2>2, <2>3, <3>1, <3>4, PromiseDrop
    <3>. QED BY <3>2, <3>3, <3>4
  <2>8. CASE TaskCount(s)
    <3>1. pages' = pages + 1 /\ UNCHANGED <<found, handled, skipped, lost>>
      BY <2>8 DEF TaskCount, history
    <3>2. Cardinality(Uncounted') \in Nat
      BY SlotSets DEF Uncounted, Slot
    <3>3. pages < MaxPages + Concurrency
      BY <3>1, <3>2 DEF PageInv, TypeOK
    <3>4. Promise!Count
      BY <2>1, <2>2, <3>1, <3>3 DEF Promise!Count, Promise!Running
    <3>. QED BY <3>4 DEF PromiseStepOrStutter, Promise!Next
  <2>9. CASE TaskSend(s)
    BY <2>1, <2>2, <2>3, <2>9, PromiseSettle DEF TaskSend
  <2>. QED BY <1>8, <2>4, <2>5, <2>6, <2>7, <2>8, <2>9 DEF Task
<1>. QED
  BY <1>1, <1>2, <1>3, <1>4, <1>5, <1>6, <1>7, <1>8 DEF Next, Main, Finished

(* The crawl engine implements CrawlPromise: no URL leaves the books, the  *)
(* verdict "exhausted" comes only with nothing owed, at most max_pages +   *)
(* concurrency pages are counted, and nothing happens after the end.       *)
THEOREM Refinement == Spec => KeepsPromise
<1>1. Spec => [](TypeOK /\ PageInv /\ StopInv /\ NothingLost /\ KnownInv)
  BY Typing, NoUrlLost, PageInit, PageStep, StopInit, StopStep, KnownInit, KnownStep, PTL
  DEF Spec
<1>. QED BY <1>1, PromiseInit, PromiseStep, PTL DEF Spec, KeepsPromise, Promise!Spec

-----------------------------------------------------------------------------
(* No double fetch.  A URL is in at most one place at a time: one entry of *)
(* the frontier, the main loop's hand, one task's job, or one task's push; *)
(* and once it has a result it is in none.                                 *)
With(s, u) == pc[s] # "idle" /\ job[s].url = u
Pushing(s, u) == pc[s] = "push" /\ cand[s] = u
Held(u) == mpc = "permit" /\ held.url = u
Queued(u) == \E e \in frontier : e.url = u

OnePlace(u) ==
  /\ \A e, f \in frontier : e.url = u /\ f.url = u => e = f
  /\ Queued(u) => ~Held(u)
  /\ Queued(u) \/ Held(u) => \A s \in Slot : ~With(s, u) /\ ~Pushing(s, u)
  /\ \A s, t \in Slot : With(s, u) /\ With(t, u) => s = t
  /\ \A s, t \in Slot : Pushing(s, u) /\ Pushing(t, u) => s = t
  /\ \A s, t \in Slot : With(s, u) => ~Pushing(t, u)

OnceInv ==
  ~evicted =>
    /\ mpc # "done" => found \subseteq Range(dedup)
    /\ handled \subseteq found
    /\ \A u \in Urls : OnePlace(u)
    /\ \A u \in handled : ~IsPending(u)

(* A URL no task has found is nowhere. *)
Nowhere(u) ==
  /\ ~Queued(u) /\ ~Held(u)
  /\ \A s \in Slot : ~With(s, u) /\ ~Pushing(s, u)

LEMMA UnfoundNowhere ==
  ASSUME KnownInv, NEW u, u \notin found
  PROVE  Nowhere(u)
BY DEF KnownInv, Nowhere, Queued, Held, With, Pushing

LEMMA PendingPlaces ==
  ASSUME NEW u
  PROVE  ~IsPending(u) <=> Nowhere(u)
BY DEF IsPending, Nowhere, Queued, Held, With, Pushing

LEMMA DiscoverKeeps ==
  ASSUME NEW u \in Urls, TypeOK, Discover(u), ~evicted', found \subseteq Range(dedup)
  PROVE  /\ ~evicted /\ found' = found \cup {u}
         /\ found' \subseteq Range(dedup')
<1>1. ~evicted /\ ~(Len(dedup) >= DedupCap) /\ found' = found \cup {u}
  BY DEF Discover
<1>2. Len(dedup) \in Nat /\ DedupCap \in Nat
  BY CapTypes DEF TypeOK
<1>3. dedup' = Append(dedup, u)
  BY <1>1, <1>2 DEF Discover, Remember
<1>4. Range(dedup) \subseteq Range(dedup') /\ u \in Range(dedup')
  <2>1. dedup \in Seq(Urls)
    BY DEF TypeOK
  <2>2. /\ DOMAIN dedup' = 1..(Len(dedup) + 1) /\ dedup'[Len(dedup) + 1] = u
        /\ \A i \in DOMAIN dedup : i \in DOMAIN dedup' /\ dedup'[i] = dedup[i]
    BY <1>3, <2>1
  <2>3. DOMAIN dedup = 1..Len(dedup) /\ Len(dedup) + 1 \in DOMAIN dedup'
    BY <1>2, <2>1, <2>2
  <2>4. u \in Range(dedup')
    BY <2>2, <2>3 DEF Range
  <2>5. Range(dedup) \subseteq Range(dedup')
    BY <2>2 DEF Range
  <2>. QED BY <2>4, <2>5
<1>. QED BY <1>1, <1>4

(* A push puts the URL in one entry of the frontier, or nowhere. *)
LEMMA PushOnce ==
  ASSUME NEW u, NEW d, NEW p, Push(u, d, p)
  PROVE  \/ frontier' = frontier
         \/ \E e : e.url = u /\ frontier' = frontier \cup {e}
<1>1. CASE Cardinality(frontier) < FrontierCap
  <2> DEFINE e == [url |-> u, depth |-> d, priority |-> p, seq |-> nextSeq]
  <2>1. frontier' = frontier \cup {e} /\ e.url = u
    BY <1>1 DEF Push
  <2>. QED BY <2>1
<1>2. CASE ~(Cardinality(frontier) < FrontierCap)
  BY <1>2 DEF Push, frontVars
<1>. QED BY <1>1, <1>2

LEMMA OnceInit == Init => OnceInv
<1> SUFFICES ASSUME Init PROVE OnceInv
  OBVIOUS
<1>1. found = {} /\ handled = {} /\ frontier = {} /\ mpc = "seed"
      /\ \A s \in Slot : pc[s] = "idle"
  BY DEF Init
<1>2. \A u \in Urls : OnePlace(u)
  BY <1>1 DEF OnePlace, Queued, Held, With, Pushing
<1>. QED BY <1>1, <1>2 DEF OnceInv

(* The seed and the sitemap entries are put in the frontier at once. *)
LEMMA OnceSeed ==
  ASSUME TypeOK, KnownInv, OnceInv, ~evicted', mpc = "seed", NEW v \in Urls, NEW p,
         Discover(v), Push(v, 0, p), v \notin found,
         UNCHANGED <<mpc, held, pc, job, cand, handled>>
  PROVE  OnceInv'
<1>1. ~evicted /\ found \subseteq Range(dedup)
  BY DEF Discover, OnceInv
<1>2. found' = found \cup {v} /\ found' \subseteq Range(dedup')
  BY <1>1, DiscoverKeeps
<1>3. v \notin found /\ v \notin handled
  BY <1>1 DEF OnceInv
<1>4. Nowhere(v)
  BY <1>3, UnfoundNowhere
<1>5. \/ frontier' = frontier
      \/ \E e : e.url = v /\ frontier' = frontier \cup {e}
  BY PushOnce
<1>6. \A u : /\ Held(u)' = Held(u)
             /\ \A s \in Slot : With(s, u)' = With(s, u) /\ Pushing(s, u)' = Pushing(s, u)
             /\ u # v => Queued(u)' = Queued(u)
  BY <1>5 DEF Held, With, Pushing, Queued, Slot
<1>7. ASSUME NEW u \in Urls PROVE OnePlace(u)'
  <2>1. OnePlace(u)
    BY <1>1 DEF OnceInv
  <2>2. \A e, f \in frontier' : e.url = u /\ f.url = u => e = f
    BY <1>4, <1>5, <2>1 DEF OnePlace, Nowhere, Queued
  <2>3. CASE u = v
    BY <1>4, <1>6, <2>2, <2>3 DEF OnePlace, Nowhere, Slot
  <2>4. CASE u # v
    BY <1>6, <2>1, <2>2, <2>4 DEF OnePlace, Slot
  <2>. QED BY <2>3, <2>4
<1>8. ASSUME NEW u \in handled' PROVE ~IsPending(u)'
  <2>1. u \in handled /\ u # v
    BY <1>3
  <2>2. Nowhere(u)
    BY <1>1, <2>1, PendingPlaces DEF OnceInv
  <2>. QED BY <1>6, <2>1, <2>2, PendingPlaces DEF Nowhere, Slot, IsPending, Queued, Held, With, Pushing
<1>. QED BY <1>1, <1>2, <1>7, <1>8 DEF OnceInv

(* A step that only takes URLs from their places. *)
LEMMA OnceShrink ==
  ASSUME OnceInv, ~evicted, found' = found, handled' = handled,
         mpc' # "done" => mpc # "done" /\ dedup' = dedup,
         frontier' \subseteq frontier,
         \A u : Held(u)' => Held(u),
         \A s \in Slot : \A u : (With(s, u)' => With(s, u)) /\ (Pushing(s, u)' => Pushing(s, u))
  PROVE  OnceInv'
<1>1. \A u : Queued(u)' => Queued(u)
  BY DEF Queued
<1>2. ASSUME NEW u \in Urls PROVE OnePlace(u)'
  <2>1. OnePlace(u)
    BY DEF OnceInv
  <2>. QED BY <1>1, <2>1 DEF OnePlace, Slot
<1>3. ASSUME NEW u \in handled' PROVE ~IsPending(u)'
  <2>1. Nowhere(u)
    BY PendingPlaces DEF OnceInv
  <2>. QED BY <1>1, <2>1 DEF Nowhere, Slot, IsPending, Queued, Held, With, Pushing
<1>. QED BY <1>2, <1>3 DEF OnceInv

(* Popping: out of the frontier, into the main loop's hand. *)
LEMMA OncePop == TypeOK /\ KnownInv /\ OnceInv /\ ~evicted /\ MainPop => OnceInv'
<1> SUFFICES ASSUME TypeOK, KnownInv, OnceInv, ~evicted, MainPop PROVE OnceInv'
  OBVIOUS
<1>1. PICK e \in frontier : /\ frontier' = frontier \ {e}
                            /\ held' = [url |-> e.url, depth |-> e.depth]
  BY DEF MainPop
<1>2. /\ mpc = "pop" /\ mpc' = "permit" /\ held'.url = e.url /\ e.url \in Urls
      /\ UNCHANGED <<pc, job, cand, found, handled, dedup>>
  BY <1>1 DEF MainPop, taskVars, history, TypeOK, Entry
<1>3. \A u : /\ ~Held(u)
             /\ Held(u)' => Queued(u)
             /\ Queued(u)' => Queued(u)
             /\ \A s \in Slot : With(s, u)' = With(s, u) /\ Pushing(s, u)' = Pushing(s, u)
  BY <1>1, <1>2 DEF Held, Queued, With, Pushing, Slot
<1>4. ASSUME NEW u \in Urls PROVE OnePlace(u)'
  <2>1. OnePlace(u)
    BY DEF OnceInv
  <2>2. Held(u)' => ~Queued(u)'
    BY <1>1, <1>2, <2>1 DEF Held, Queued, OnePlace
  <2>3. \A f, g \in frontier' : f.url = u /\ g.url = u => f = g
    BY <1>1, <2>1 DEF OnePlace
  <2>. QED BY <1>3, <2>1, <2>2, <2>3 DEF OnePlace, Slot
<1>5. ASSUME NEW u \in handled' PROVE ~IsPending(u)'
  <2>1. Nowhere(u)
    BY <1>2, PendingPlaces DEF OnceInv
  <2>. QED BY <1>3, <2>1 DEF Nowhere, Slot, IsPending, Queued, Held, With, Pushing
<1>. QED BY <1>2, <1>4, <1>5 DEF OnceInv

(* Spawning: out of the main loop's hand, into a task. *)
LEMMA OnceSpawn ==
  ASSUME TypeOK, OnceInv, ~evicted, NEW s \in Slot, MainSpawn(s)
  PROVE  OnceInv'
<1>1. /\ mpc = "permit" /\ mpc' = "check" /\ pc[s] = "idle"
      /\ pc'[s] = "start" /\ job'[s] = held
      /\ \A t \in Slot : t # s => pc'[t] = pc[t] /\ job'[t] = job[t]
      /\ UNCHANGED <<frontier, cand, found, handled, dedup>>
  BY DEF MainSpawn, GoTo, TypeOK, frontVars, history
<1>2. \A u : /\ ~Held(u)'
             /\ With(s, u)' => Held(u)
             /\ ~With(s, u) /\ ~Pushing(s, u)'
             /\ Queued(u)' = Queued(u)
  BY <1>1 DEF Held, With, Pushing, Queued
<1>3. \A u : \A t \in Slot : t # s => With(t, u)' = With(t, u) /\ Pushing(t, u)' = Pushing(t, u)
  BY <1>1 DEF With, Pushing
<1>4. ASSUME NEW u \in Urls PROVE OnePlace(u)'
  <2>1. OnePlace(u)
    BY DEF OnceInv
  <2>2. \A e, f \in frontier' : e.url = u /\ f.url = u => e = f
    BY <1>1, <2>1 DEF OnePlace
  <2>3. /\ ~Held(u)' /\ (With(s, u)' => Held(u))
        /\ ~With(s, u) /\ ~Pushing(s, u)' /\ Queued(u)' = Queued(u)
        /\ \A t \in Slot : t # s => With(t, u)' = With(t, u) /\ Pushing(t, u)' = Pushing(t, u)
    BY <1>2, <1>3
  <2>. QED BY ONLY s \in Slot, <2>1, <2>2, <2>3 DEF OnePlace, Slot
<1>5. ASSUME NEW u \in handled' PROVE ~IsPending(u)'
  <2>1. Nowhere(u)
    BY <1>1, PendingPlaces DEF OnceInv
  <2>2. /\ ~Queued(u)' /\ ~Held(u)'
        /\ \A t \in Slot : ~With(t, u)' /\ ~Pushing(t, u)'
    BY <1>2, <1>3, <2>1 DEF Nowhere, Slot
  <2>. QED BY <2>2 DEF Slot, IsPending, Queued, Held, With, Pushing
<1>. QED BY <1>1, <1>4, <1>5 DEF OnceInv

(* A link that dedup accepts is with its task only. *)
LEMMA OnceDedup ==
  ASSUME TypeOK, StopInv, KnownInv, OnceInv, ~evicted', NEW s \in Slot, TaskDedup(s),
         cand[s] \notin Range(dedup)
  PROVE  OnceInv'
<1> DEFINE v == cand[s]
<1>0. v \in Urls /\ pc[s] = "dedup" /\ mpc # "done"
  BY DEF TypeOK, TaskDedup, StopInv, AllIdle
<1>1. /\ Discover(v) /\ pc'[s] = "push"
      /\ \A t \in Slot : t # s => pc'[t] = pc[t]
      /\ UNCHANGED <<mpc, held, frontier, job, cand, handled>>
  BY DEF TaskDedup, GoTo, TypeOK, mainVars, frontVars
<1>2. ~evicted /\ found \subseteq Range(dedup)
  BY <1>0, <1>1 DEF Discover, OnceInv
<1>3. found' = found \cup {v} /\ found' \subseteq Range(dedup')
  BY <1>0, <1>1, <1>2, DiscoverKeeps
<1>4. v \notin found /\ v \notin handled
  BY <1>2 DEF OnceInv
<1>5. Nowhere(v)
  BY <1>4, UnfoundNowhere
<1>6. \A u : /\ Held(u)' = Held(u) /\ Queued(u)' = Queued(u)
             /\ \A t \in Slot : With(t, u)' = With(t, u)
             /\ \A t \in Slot : t # s => Pushing(t, u)' = Pushing(t, u)
             /\ Pushing(s, u)' => u = v
  BY <1>0, <1>1 DEF Held, Queued, With, Pushing
<1>7. ASSUME NEW u \in Urls PROVE OnePlace(u)'
  <2>1. OnePlace(u)
    BY <1>2 DEF OnceInv
  <2>2. \A e, f \in frontier' : e.url = u /\ f.url = u => e = f
    BY <1>1, <2>1 DEF OnePlace
  <2>3. CASE u = v
    BY <1>5, <1>6, <2>2, <2>3 DEF OnePlace, Nowhere, Slot
  <2>4. CASE u # v
    <3>1. /\ Held(u)' = Held(u) /\ Queued(u)' = Queued(u)
          /\ \A t \in Slot : With(t, u)' = With(t, u)
          /\ \A t \in Slot : Pushing(t, u)' => Pushing(t, u)
      BY <1>6, <2>4
    <3>. QED BY ONLY <2>1, <2>2, <3>1 DEF OnePlace, Slot
  <2>. QED BY <2>3, <2>4
<1>8. ASSUME NEW u \in handled' PROVE ~IsPending(u)'
  <2>1. u # v /\ Nowhere(u)
    BY <1>1, <1>2, <1>4, PendingPlaces DEF OnceInv
  <2>2. /\ ~Queued(u)' /\ ~Held(u)'
        /\ \A t \in Slot : ~With(t, u)' /\ ~Pushing(t, u)'
    BY <1>6, <2>1 DEF Nowhere, Slot
  <2>. QED BY <2>2 DEF Slot, IsPending, Queued, Held, With, Pushing
<1>9. handled' \subseteq found'
  BY <1>1, <1>2, <1>3 DEF OnceInv
<1>. QED BY <1>3, <1>7, <1>8, <1>9 DEF OnceInv

(* The push: out of the task's hand, into the frontier. *)
LEMMA OncePush ==
  ASSUME TypeOK, OnceInv, ~evicted, NEW s \in Slot, TaskPush(s)
  PROVE  OnceInv'
<1> DEFINE v == cand[s]
<1>1. /\ pc[s] = "push" /\ pc'[s] = "links" /\ Push(v, job[s].depth + 1, DefaultPriority)
      /\ \A t \in Slot : t # s => pc'[t] = pc[t] /\ cand'[t] = cand[t]
      /\ UNCHANGED <<mpc, held, job, handled, found, dedup>>
  BY DEF TaskPush, GoTo, TypeOK, mainVars
<1>2. \/ frontier' = frontier
      \/ \E e : e.url = v /\ frontier' = frontier \cup {e}
  BY <1>1, PushOnce
<1>3. v \in Urls /\ Pushing(s, v)
  BY <1>1 DEF Pushing, TypeOK
<1>4. \A u : /\ Held(u)' = Held(u)
             /\ \A t \in Slot : With(t, u)' = With(t, u)
             /\ \A t \in Slot : t # s => Pushing(t, u)' = Pushing(t, u)
             /\ ~Pushing(s, u)'
  BY <1>1 DEF Held, With, Pushing
<1>5. \A u : Queued(u)' => Queued(u) \/ u = v
  BY <1>2 DEF Queued
<1>6. ASSUME NEW u \in Urls PROVE OnePlace(u)'
  <2>1. OnePlace(u)
    BY DEF OnceInv
  <2>2. \A e, f \in frontier' : e.url = u /\ f.url = u => e = f
    <3>1. u = v => ~Queued(u)
      BY <1>3, <2>1 DEF OnePlace
    <3>. QED BY <1>2, <2>1, <3>1 DEF OnePlace, Queued
  <2>3. CASE u = v
    <3>1. ~Held(u) /\ \A t \in Slot : ~With(t, u) /\ (t # s => ~Pushing(t, u))
      BY <1>3, <2>1, <2>3 DEF OnePlace
    <3>. QED BY <1>4, <2>2, <3>1 DEF OnePlace, Slot
  <2>4. CASE u # v
    BY <1>4, <1>5, <2>1, <2>2, <2>4 DEF OnePlace, Slot
  <2>. QED BY <2>3, <2>4
<1>7. ASSUME NEW u \in handled' PROVE ~IsPending(u)'
  <2>1. Nowhere(u)
    BY <1>1, PendingPlaces DEF OnceInv
  <2>2. u # v
    BY <1>3, <2>1 DEF Nowhere
  <2>3. /\ ~Queued(u)' /\ ~Held(u)'
        /\ \A t \in Slot : ~With(t, u)' /\ ~Pushing(t, u)'
    BY <1>4, <1>5, <2>1, <2>2 DEF Nowhere, Slot
  <2>. QED BY <2>3 DEF Slot, IsPending, Queued, Held, With, Pushing
<1>. QED BY <1>1, <1>6, <1>7 DEF OnceInv

(* The result: the URL leaves its only place. *)
LEMMA OnceSend ==
  ASSUME TypeOK, KnownInv, OnceInv, ~evicted, NEW s \in Slot, TaskSend(s)
  PROVE  OnceInv'
<1>0. PICK v \in Urls : v = job[s].url
  BY DEF TypeOK, Job
<1>1. /\ pc[s] \in {"sendOk", "sendErr"} /\ pc'[s] = "idle" /\ handled' = handled \cup {v}
      /\ \A t \in Slot : t # s => pc'[t] = pc[t] /\ job'[t] = job[t]
      /\ UNCHANGED <<mpc, held, frontier, cand, found, dedup>>
  BY <1>0 DEF TaskSend, Free, TypeOK, mainVars, frontVars
<1>2. With(s, v) /\ v \in found
  BY <1>0, <1>1 DEF With, KnownInv
<1>3. \A u : /\ Held(u)' = Held(u) /\ Queued(u)' = Queued(u)
             /\ \A t \in Slot : t # s => With(t, u)' = With(t, u) /\ Pushing(t, u)' = Pushing(t, u)
             /\ ~With(s, u)' /\ ~Pushing(s, u)' /\ ~Pushing(s, u)
  BY <1>1 DEF Held, Queued, With, Pushing
<1>4. ASSUME NEW u \in Urls PROVE OnePlace(u)'
  <2>1. OnePlace(u)
    BY DEF OnceInv
  <2>2. \A e, f \in frontier' : e.url = u /\ f.url = u => e = f
    BY <1>1, <2>1 DEF OnePlace
  <2>. QED BY <1>3, <2>1, <2>2 DEF OnePlace, Slot
<1>5. ASSUME NEW u \in handled' PROVE ~IsPending(u)'
  <2>1. CASE u = v
    <3>1. OnePlace(v)
      BY <1>2 DEF OnceInv
    <3>2. /\ ~Queued(v)' /\ ~Held(v)'
          /\ \A t \in Slot : ~With(t, v)' /\ ~Pushing(t, v)'
      BY <1>2, <1>3, <3>1 DEF OnePlace, Slot
    <3>. QED BY <2>1, <3>2 DEF Slot, IsPending, Queued, Held, With, Pushing
  <2>2. CASE u # v
    <3>1. Nowhere(u)
      BY <1>1, <2>2, PendingPlaces DEF OnceInv
    <3>2. /\ ~Queued(u)' /\ ~Held(u)'
          /\ \A t \in Slot : ~With(t, u)' /\ ~Pushing(t, u)'
      BY <1>3, <3>1 DEF Nowhere, Slot
    <3>. QED BY <3>2 DEF Slot, IsPending, Queued, Held, With, Pushing
  <2>. QED BY <2>1, <2>2
<1>6. handled' \subseteq found'
  BY <1>1, <1>2 DEF OnceInv
<1>. QED BY <1>1, <1>4, <1>5, <1>6 DEF OnceInv

(* The task steps that put no URL in a new place. *)
Onward(s) ==
  \/ TaskStart(s) \/ TaskFetch(s) \/ TaskBody(s) \/ TaskLink(s) \/ TaskLinksDone(s)
  \/ TaskCount(s)
  \/ (TaskDedup(s) /\ cand[s] \in Range(dedup))

LEMMA OnceStep == TypeOK /\ StopInv /\ KnownInv /\ OnceInv /\ [Next]_vars => OnceInv'
<1> SUFFICES ASSUME TypeOK, StopInv, KnownInv, OnceInv, [Next]_vars, ~evicted' PROVE OnceInv'
  BY DEF OnceInv
<1>1. ASSUME SeedRoot PROVE OnceInv'
  <2>1. /\ mpc = "seed" /\ Discover(Seed) /\ Push(Seed, 0, DefaultPriority) /\ found = {}
        /\ UNCHANGED <<mpc, held, pc, job, cand, handled>>
    BY <1>1 DEF SeedRoot, mainVars, taskVars
  <2>. QED BY <2>1, OnceSeed
<1>2. ASSUME SeedSitemap PROVE OnceInv'
  <2> DEFINE e == Sitemap[seeded + 1]
  <2>1. mpc = "seed" /\ UNCHANGED <<mpc, held, pc, job, cand, handled>>
    BY <1>2 DEF SeedSitemap, taskVars
  <2>2. CASE e.url \in Range(dedup)
    <3>1. UNCHANGED <<frontier, found, dedup, evicted>>
      BY <1>2, <2>2 DEF SeedSitemap, frontVars
    <3>2. \A u : Held(u)' = Held(u)
      BY <2>1 DEF Held
    <3>3. \A t \in Slot : \A u : With(t, u)' = With(t, u) /\ Pushing(t, u)' = Pushing(t, u)
      BY <2>1 DEF With, Pushing
    <3>. QED BY <2>1, <3>1, <3>2, <3>3, OnceShrink
  <2>3. CASE e.url \notin Range(dedup)
    <3>1. Discover(e.url) /\ Push(e.url, 0, e.priority)
      BY <1>2, <2>3 DEF SeedSitemap
    <3>2. e.url \in Urls
      <4> DEFINE R == [url : Urls, priority : Nat]
      <4>1. Sitemap \in Seq(R) /\ seeded + 1 \in 1..Len(Sitemap)
        BY <1>2 DEF SeedSitemap, TypeOK
      <4> HIDE DEF R
      <4>2. e \in R
        BY <4>1, ElementType
      <4>. QED BY <4>2 DEF R
    <3>3. e.url \notin found
      BY <2>1, <2>3, <3>1 DEF OnceInv, Discover
    <3>4. PICK v \in Urls : v = e.url
      BY <3>2
    <3>5. PICK p : p = e.priority
      OBVIOUS
    <3>. QED BY <2>1, <3>1, <3>3, <3>4, <3>5, OnceSeed
  <2>. QED BY <2>2, <2>3
<1>3. ASSUME SeedDone \/ MainCheck \/ MainPopNone \/ MainIdle \/ MainDrain \/ Receive
             \/ Disconnect \/ UNCHANGED vars
      PROVE  OnceInv'
  <2>1. UNCHANGED <<frontier, held, pc, job, cand, found, handled, evicted>>
    BY <1>3 DEF SeedDone, MainCheck, MainPopNone, MainIdle, MainDrain, Receive, Disconnect,
                vars, mainVars, frontVars, taskVars, history
  <2>2. /\ mpc' = "permit" => mpc = "permit"
        /\ mpc' # "done" => mpc # "done" /\ dedup' = dedup
    BY <1>3 DEF SeedDone, MainCheck, MainPopNone, MainIdle, MainDrain, Receive, Disconnect,
                vars, mainVars
  <2>3. \A u : Held(u)' => Held(u)
    BY <2>1, <2>2 DEF Held
  <2>4. \A t \in Slot : \A u : With(t, u)' = With(t, u) /\ Pushing(t, u)' = Pushing(t, u)
    BY <2>1 DEF With, Pushing
  <2>. QED BY <2>1, <2>2, <2>3, <2>4, OnceShrink
<1>4. ASSUME MainPop PROVE OnceInv'
  <2>1. ~evicted
    BY <1>4 DEF MainPop, history
  <2>. QED BY <1>4, <2>1, OncePop
<1>5. ASSUME NEW s \in Slot, MainSpawn(s) PROVE OnceInv'
  <2>1. ~evicted
    BY <1>5 DEF MainSpawn, history
  <2>. QED BY <1>5, <2>1, OnceSpawn
<1>6. ASSUME NEW s \in Slot, Onward(s) PROVE OnceInv'
  <2>1. UNCHANGED <<mpc, held, frontier, found, handled, dedup, evicted>> /\ pc[s] # "idle"
    BY <1>6 DEF Onward, TaskStart, TaskFetch, TaskBody, TaskLink, TaskLinksDone, TaskCount, TaskDedup,
                mainVars, frontVars, history
  <2>2. \A t \in Slot : t # s => pc'[t] = pc[t] /\ job'[t] = job[t] /\ cand'[t] = cand[t]
    BY <1>6 DEF Onward, TaskStart, TaskFetch, TaskBody, TaskLink, TaskLinksDone, TaskCount, TaskDedup,
                GoTo, Free, TypeOK
  <2>3. pc'[s] # "push" /\ (pc'[s] # "idle" => job'[s] = job[s])
    BY <1>6 DEF Onward, TaskStart, TaskFetch, TaskBody, TaskLink, TaskLinksDone, TaskCount, TaskDedup,
                GoTo, Free, TypeOK, history
  <2>4. \A u : Held(u)' = Held(u)
    BY <2>1 DEF Held
  <2>5. \A t \in Slot : \A u : (With(t, u)' => With(t, u)) /\ (Pushing(t, u)' => Pushing(t, u))
    BY <2>1, <2>2, <2>3 DEF With, Pushing
  <2>. QED BY <2>1, <2>4, <2>5, OnceShrink
<1>7. ASSUME NEW s \in Slot, TaskDedup(s), cand[s] \notin Range(dedup) PROVE OnceInv'
  BY <1>7, OnceDedup
<1>8. ASSUME NEW s \in Slot, TaskPush(s) PROVE OnceInv'
  <2>1. ~evicted
    BY <1>8 DEF TaskPush
  <2>. QED BY <1>8, <2>1, OncePush
<1>9. ASSUME NEW s \in Slot, TaskSend(s) PROVE OnceInv'
  <2>1. ~evicted
    BY <1>9 DEF TaskSend
  <2>. QED BY <1>9, <2>1, OnceSend
<1>10. ASSUME NEW s \in Slot, Task(s) PROVE OnceInv'
  <2>1. \/ Onward(s) \/ TaskPush(s) \/ TaskSend(s)
        \/ (TaskDedup(s) /\ cand[s] \notin Range(dedup))
    BY <1>10 DEF Task, Onward
  <2>. QED BY <1>6, <1>7, <1>8, <1>9, <2>1
<1>. QED
  BY <1>1, <1>2, <1>3, <1>4, <1>5, <1>10 DEF Next, Main, Finished

(* Unless dedup had to evict, no URL is processed twice, whichever tasks   *)
(* find it at the same time: check and insert are one step under the lock. *)
THEOREM FetchedOnce == Spec => []NoDoubleFetch
<1>1. Spec => [](TypeOK /\ StopInv /\ KnownInv /\ OnceInv)
  BY Typing, StopInit, StopStep, KnownInit, KnownStep, OnceInit, OnceStep, PTL DEF Spec
<1>2. TypeOK /\ OnceInv => NoDoubleFetch
  <2> SUFFICES ASSUME TypeOK, OnceInv, ~evicted PROVE NoDoubleFetch
    BY DEF NoDoubleFetch
  <2>1. ASSUME NEW s \in Slot, NEW t \in Slot, pc[s] # "idle", pc[t] # "idle",
               job[s].url = job[t].url
        PROVE  s = t
    <3>1. job[s].url \in Urls
      BY DEF TypeOK, Job
    <3>. QED BY <2>1, <3>1 DEF OnceInv, OnePlace, With
  <2>. QED BY <2>1 DEF OnceInv, NoDoubleFetch
<1>. QED BY <1>1, <1>2, PTL
=============================================================================
