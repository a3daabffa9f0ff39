------------------------------- MODULE Crawl -------------------------------
(***************************************************************************)
(* The crawl engine of crates/crawler/src/crawler.rs: one main loop        *)
(* (run_crawl) that pops URLs off a bounded priority frontier and spawns   *)
(* one task per URL (process_page) under a semaphore, and the receiver of  *)
(* the result channel.                                                     *)
(*                                                                         *)
(* A task gives up control at every await: the HTTP fetch, each lock of    *)
(* the shared structures, the send.  One action is the code between two    *)
(* of them, so the main loop and the tasks interleave as on the runtime.   *)
(* A page is its URL; what a fetch answers (robots refusal, error or body) *)
(* is a nondeterministic choice, and RobotsGate models the robots part.    *)
(***************************************************************************)
EXTENDS Integers, Sequences, FiniteSets, Functions

CONSTANTS
  Urls,           \* normalized URLs that pass resolve_url, scope and is_cycle
  Seed,           \* the seed URL
  Links,          \* Links[u]: the in-scope links of page u, in page order
  Body,           \* Body[u]: the body page u answers with (ContentDedup's key)
  Sitemap,        \* the discovery entries, in order, as [url, priority]
  FollowLinks,    \* config.discovery # "sitemap"
  MaxDepth, MaxPages, Concurrency,
  CapFactor,      \* frontier_cap = max_pages * CapFactor (10 in the code)
  BudgetKeys,     \* the keys of config.budget: "*" and path prefixes
  Limits,         \* Limits[k]: the configured budget of key k
  Prefix          \* Prefix[u]: the longest configured prefix of u's path

DefaultPriority == 5      \* priorities are in tenths: push() uses 0.5

ASSUME SeedAssumption == Seed \in Urls
ASSUME GraphAssumption == Links \in [Urls -> Seq(Urls)]
ASSUME SitemapAssumption == Sitemap \in Seq([url : Urls, priority : Nat])
ASSUME SizeAssumption ==
  /\ MaxDepth \in Nat /\ MaxPages \in Nat
  /\ Concurrency \in Nat \ {0} /\ CapFactor \in Nat \ {0}
ASSUME BudgetAssumption == Limits \in [BudgetKeys -> Nat]
ASSUME ModeAssumption == FollowLinks \in BOOLEAN

Slot == 1..Concurrency                  \* the semaphore's permits
FrontierCap == MaxPages * CapFactor
DedupCap == IF FrontierCap > 1 THEN FrontierCap ELSE 1
ChannelCap == Concurrency * 2

Entry == [url : Urls, depth : Nat, priority : Nat, seq : Nat]
Job == [url : Urls, depth : Nat]
NoJob == [url |-> Seed, depth |-> 0]    \* the job of a free slot, never read

VARIABLES
  mpc,        \* where run_crawl is
  seeded,     \* number of sitemap entries already offered to the frontier
  held,       \* the job popped and waiting for a permit
  frontier,   \* Frontier::heap
  nextSeq,    \* Frontier::next_seq
  dedup,      \* UrlDedup: the keys seen, eldest first
  bodies,     \* ContentDedup: the bodies seen, eldest first
  spent,      \* Budget::counts
  pages,      \* pages_crawled
  pc,         \* where the task holding each permit is, "idle" for a free one
  job,        \* the URL and depth of each task
  todo,       \* links of the page a task has not looked at yet
  cand,       \* the link a task has charged and not yet put in the frontier
  chan,       \* the bounded mpsc channel
  closed,     \* the receiver was dropped
  \* History, read by properties only.
  stop,       \* why the main loop ended
  found,      \* every URL ever accepted by dedup
  handled,    \* URLs whose task produced a result
  lost,       \* URLs dropped because the frontier was full
  skipped,    \* URLs whose task returned because the receiver was gone
  evicted,    \* UrlDedup has evicted a key
  got         \* successful results the receiver took

mainVars == <<mpc, seeded, held>>
frontVars == <<frontier, nextSeq>>
taskVars == <<pc, job, todo, cand>>
chanVars == <<chan, closed>>
history == <<stop, found, handled, lost, skipped, evicted, got>>
vars == <<mainVars, frontVars, dedup, bodies, spent, pages, taskVars, chanVars, history>>

MainPc == {"seed", "check", "pop", "idle", "permit", "drain", "done"}
TaskPc == {"idle", "start", "fetch", "body", "links", "dedup", "push", "count", "sendOk", "sendErr"}
Result == {"page", "error"}     \* a CrawlResult without or with an error

-----------------------------------------------------------------------------
(* UrlDedup and ContentDedup: insert of a new key evicts the eldest one    *)
(* when the set is full.                                                   *)
Remember(seen, x) ==
  Append(IF Len(seen) < DedupCap THEN seen ELSE Tail(seen), x)

(* Frontier::push_with_priority: refused at capacity. *)
Push(u, d, p) ==
  IF Cardinality(frontier) < FrontierCap
  THEN /\ frontier' = frontier \cup {[url |-> u, depth |-> d, priority |-> p, seq |-> nextSeq]}
       /\ nextSeq' = nextSeq + 1
       /\ UNCHANGED lost
  ELSE /\ lost' = lost \cup {u}
       /\ UNCHANGED frontVars

(* FrontierEntry::cmp: higher priority first, then lower sequence. *)
Precedes(e, f) ==
  \/ e.priority > f.priority
  \/ e.priority = f.priority /\ e.seq < f.seq

(* dedup.insert of a URL that is not in the set. *)
Discover(u) ==
  /\ dedup' = Remember(dedup, u)
  /\ found' = found \cup {u}
  /\ evicted' = (evicted \/ Len(dedup) >= DedupCap)

(* Budget::try_consume: "*" and the longest matching prefix must both have *)
(* room, and then both are charged.                                        *)
Applicable(u) == {k \in BudgetKeys : k = "*" \/ k = Prefix[u]}
\* Mutant: a budget of n lets n + 1 links through.
AffordableOneMore(u) == \A k \in Applicable(u) : spent[k] <= Limits[k]
Affordable(u) == \A k \in Applicable(u) : spent[k] < Limits[k]
Charge(u) == [k \in BudgetKeys |-> IF k \in Applicable(u) THEN spent[k] + 1 ELSE spent[k]]

AllIdle == \A s \in Slot : pc[s] = "idle"
Free(s) ==
  /\ pc' = [pc EXCEPT ![s] = "idle"]
  /\ job' = [job EXCEPT ![s] = NoJob]
  /\ UNCHANGED <<todo, cand>>
ResultOf(s) == IF pc[s] = "sendOk" THEN "page" ELSE "error"
GoTo(s, to) == pc' = [pc EXCEPT ![s] = to]

-----------------------------------------------------------------------------
Init ==
  /\ mpc = "seed" /\ seeded = 0 /\ held = NoJob
  /\ frontier = {} /\ nextSeq = 0
  /\ dedup = <<>> /\ bodies = <<>>
  /\ spent = [k \in BudgetKeys |-> 0]
  /\ pages = 0
  /\ pc = [s \in Slot |-> "idle"]
  /\ job = [s \in Slot |-> NoJob]
  /\ todo = [s \in Slot |-> <<>>]
  /\ cand = [s \in Slot |-> Seed]
  /\ chan = <<>> /\ closed = FALSE
  /\ stop = "none" /\ found = {} /\ handled = {} /\ lost = {} /\ skipped = {}
  /\ evicted = FALSE /\ got = 0

(* Mutant: the seed is pushed but not put in dedup. *)
SeedRootNotDeduped ==
  /\ mpc = "seed" /\ seeded = 0 /\ found = {}
  /\ FollowLinks \/ Sitemap = <<>>
  /\ found' = {Seed}
  /\ Push(Seed, 0, DefaultPriority)
  /\ UNCHANGED <<mainVars, dedup, bodies, spent, pages, taskVars, chanVars,
                 stop, handled, skipped, evicted, got>>

(* The seed goes in first, unless a sitemap-only crawl has entries. *)
SeedRoot ==
  /\ mpc = "seed" /\ seeded = 0 /\ found = {}
  /\ FollowLinks \/ Sitemap = <<>>
  /\ Discover(Seed)
  /\ Push(Seed, 0, DefaultPriority)
  /\ UNCHANGED <<mainVars, bodies, spent, pages, taskVars, chanVars,
                 stop, handled, skipped, got>>

(* Then the sitemap entries in order: deduplicated, but neither scoped nor *)
(* charged to a budget.                                                    *)
SeedSitemap ==
  /\ mpc = "seed" /\ seeded < Len(Sitemap)
  /\ found # {} \/ ~FollowLinks
  /\ seeded' = seeded + 1
  /\ LET e == Sitemap[seeded + 1] IN
       IF e.url \in Range(dedup)
       THEN UNCHANGED <<frontVars, dedup, found, lost, evicted>>
       ELSE /\ Discover(e.url)
            /\ Push(e.url, 0, e.priority)
  /\ UNCHANGED <<mpc, held, bodies, spent, pages, taskVars, chanVars,
                 stop, handled, skipped, got>>

SeedDone ==
  /\ mpc = "seed" /\ seeded = Len(Sitemap) /\ found # {}
  /\ mpc' = "check"
  /\ UNCHANGED <<seeded, held, frontVars, dedup, bodies, spent, pages,
                 taskVars, chanVars, history>>

(* Top of the loop: receiver gone, then page limit. *)
MainCheck ==
  /\ mpc = "check"
  /\ LET why == IF closed THEN "closed" ELSE IF pages >= MaxPages THEN "limit" ELSE "none" IN
       /\ mpc' = IF why = "none" THEN "pop" ELSE "drain"
       /\ stop' = why
  /\ UNCHANGED <<seeded, held, frontVars, dedup, bodies, spent, pages, taskVars,
                 chanVars, found, handled, lost, skipped, evicted, got>>

MainPop ==
  /\ mpc = "pop"
  /\ \E e \in frontier :
       /\ \A f \in frontier \ {e} : Precedes(e, f)
       /\ frontier' = frontier \ {e}
       /\ held' = [url |-> e.url, depth |-> e.depth]
  /\ mpc' = "permit"
  /\ UNCHANGED <<seeded, nextSeq, dedup, bodies, spent, pages, taskVars, chanVars, history>>

MainPopNone ==
  /\ mpc = "pop" /\ frontier = {}
  /\ mpc' = "idle"
  /\ UNCHANGED <<seeded, held, frontVars, dedup, bodies, spent, pages, taskVars,
                 chanVars, history>>

(* Mutant: an empty frontier alone ends the crawl. *)
MainIdleHasty ==
  /\ mpc = "idle"
  /\ IF frontier = {}
     THEN mpc' = "drain" /\ stop' = "exhausted"
     ELSE mpc' = "check" /\ UNCHANGED stop
  /\ UNCHANGED <<seeded, held, frontVars, dedup, bodies, spent, pages, taskVars,
                 chanVars, found, handled, lost, skipped, evicted, got>>

(* After the 100 ms sleep: under the frontier lock, stop when the frontier *)
(* is empty and every permit is back.  A task pushes under that lock and   *)
(* returns its permit last, so both reads are one step.                    *)
MainIdle ==
  /\ mpc = "idle"
  /\ IF frontier = {} /\ AllIdle
     THEN mpc' = "drain" /\ stop' = "exhausted"
     ELSE mpc' = "check" /\ UNCHANGED stop
  /\ UNCHANGED <<seeded, held, frontVars, dedup, bodies, spent, pages, taskVars,
                 chanVars, found, handled, lost, skipped, evicted, got>>

(* acquire_owned().await, then spawn. *)
MainSpawn(s) ==
  /\ mpc = "permit" /\ pc[s] = "idle"
  /\ mpc' = "check"
  /\ held' = NoJob
  /\ GoTo(s, "start")
  /\ job' = [job EXCEPT ![s] = held]
  /\ UNCHANGED <<seeded, frontVars, dedup, bodies, spent, pages, todo, cand,
                 chanVars, history>>

(* Mutant: the crawl ends without waiting for the tasks in flight. *)
MainDrainAtOnce ==
  /\ mpc = "drain"
  /\ mpc' = "done"
  /\ dedup' = <<>> /\ bodies' = <<>>
  /\ spent' = [k \in BudgetKeys |-> 0]
  /\ UNCHANGED <<seeded, held, frontVars, pages, taskVars, chanVars, history>>

(* acquire_many(concurrency): every permit is back; then the dedup sets    *)
(* are cleared, the budget is reset and tx is dropped.                     *)
MainDrain ==
  /\ mpc = "drain" /\ AllIdle
  /\ mpc' = "done"
  /\ dedup' = <<>> /\ bodies' = <<>>
  /\ spent' = [k \in BudgetKeys |-> 0]
  /\ UNCHANGED <<seeded, held, frontVars, pages, taskVars, chanVars, history>>

-----------------------------------------------------------------------------
(* A task.  It returns at once when the receiver is gone. *)
TaskStart(s) ==
  /\ pc[s] = "start"
  /\ IF closed
     THEN /\ Free(s)
          /\ skipped' = skipped \cup {job[s].url}
     ELSE /\ GoTo(s, "fetch")
          /\ UNCHANGED <<job, todo, cand, skipped>>
  /\ UNCHANGED <<mainVars, frontVars, dedup, bodies, spent, pages, chanVars,
                 stop, found, handled, lost, evicted, got>>

(* robots.txt check and GET: a refusal or an error is a result too. *)
TaskFetch(s) ==
  /\ pc[s] = "fetch"
  /\ \E to \in {"body", "sendErr"} : GoTo(s, to)
  /\ UNCHANGED <<mainVars, frontVars, dedup, bodies, spent, pages, job, todo,
                 cand, chanVars, history>>

(* Content dedup, then the links of the page when the depth allows. *)
TaskBody(s) ==
  /\ pc[s] = "body"
  /\ LET b == Body[job[s].url]
         follow == FollowLinks /\ job[s].depth < MaxDepth
     IN  IF b \in Range(bodies)
         THEN /\ GoTo(s, "sendErr")
              /\ UNCHANGED <<bodies, todo>>
         ELSE /\ bodies' = Remember(bodies, b)
              /\ GoTo(s, "links")
              /\ todo' = [todo EXCEPT ![s] = IF follow THEN Links[job[s].url] ELSE <<>>]
  /\ UNCHANGED <<mainVars, frontVars, dedup, spent, pages, job, cand, chanVars, history>>

(* One link: charge the budgets that apply, under the budget lock. *)
TaskLink(s) ==
  /\ pc[s] = "links" /\ todo[s] # <<>>
  /\ todo' = [todo EXCEPT ![s] = Tail(@)]
  /\ LET u == Head(todo[s]) IN
       IF Affordable(u)
       THEN /\ spent' = Charge(u)
            /\ cand' = [cand EXCEPT ![s] = u]
            /\ GoTo(s, "dedup")
       ELSE UNCHANGED <<spent, cand, pc>>
  /\ UNCHANGED <<mainVars, frontVars, dedup, bodies, pages, job, chanVars, history>>

(* Mutant: a link is dropped after dedup when the page limit is reached. *)
TaskDedupThenLimit(s) ==
  /\ pc[s] = "dedup"
  /\ IF cand[s] \in Range(dedup)
     THEN /\ GoTo(s, "links")
          /\ UNCHANGED <<dedup, found, evicted>>
     ELSE /\ Discover(cand[s])
          /\ GoTo(s, IF pages < MaxPages THEN "push" ELSE "links")
  /\ UNCHANGED <<mainVars, frontVars, bodies, spent, pages, job, todo, cand, chanVars,
                 stop, handled, lost, skipped, got>>

(* Then insert it in dedup, under that lock: a duplicate has been charged. *)
TaskDedup(s) ==
  /\ pc[s] = "dedup"
  /\ IF cand[s] \in Range(dedup)
     THEN /\ cand' = [cand EXCEPT ![s] = Seed]
          /\ GoTo(s, "links")
          /\ UNCHANGED <<dedup, found, evicted>>
     ELSE /\ Discover(cand[s])
          /\ GoTo(s, "push")
          /\ UNCHANGED cand
  /\ UNCHANGED <<mainVars, frontVars, bodies, spent, pages, job, todo, chanVars,
                 stop, handled, lost, skipped, got>>

(* The new link goes in the frontier, one level deeper. *)
TaskPush(s) ==
  /\ pc[s] = "push"
  /\ Push(cand[s], job[s].depth + 1, DefaultPriority)
  /\ cand' = [cand EXCEPT ![s] = Seed]
  /\ GoTo(s, "links")
  /\ UNCHANGED <<mainVars, dedup, bodies, spent, pages, job, todo, chanVars,
                 stop, found, handled, skipped, evicted, got>>

TaskLinksDone(s) ==
  /\ pc[s] = "links" /\ todo[s] = <<>>
  /\ GoTo(s, "count")
  /\ UNCHANGED <<mainVars, frontVars, dedup, bodies, spent, pages, job, todo,
                 cand, chanVars, history>>

TaskCount(s) ==
  /\ pc[s] = "count"
  /\ pages' = pages + 1
  /\ GoTo(s, "sendOk")
  /\ UNCHANGED <<mainVars, frontVars, dedup, bodies, spent, job, todo, cand,
                 chanVars, history>>

(* Mutant: try_send, which drops the result when the channel is full. *)
TaskTrySend(s) ==
  /\ pc[s] \in {"sendOk", "sendErr"}
  /\ chan' = IF closed \/ Len(chan) >= ChannelCap THEN chan ELSE Append(chan, ResultOf(s))
  /\ handled' = handled \cup {job[s].url}
  /\ Free(s)
  /\ UNCHANGED <<mainVars, frontVars, dedup, bodies, spent, pages, closed,
                 stop, found, lost, skipped, evicted, got>>

(* Mutant: the send does not notice that the receiver is gone. *)
TaskSendHangs(s) ==
  /\ pc[s] \in {"sendOk", "sendErr"} /\ ~closed
  /\ Len(chan) < ChannelCap
  /\ chan' = Append(chan, ResultOf(s))
  /\ handled' = handled \cup {job[s].url}
  /\ Free(s)
  /\ UNCHANGED <<mainVars, frontVars, dedup, bodies, spent, pages, closed,
                 stop, found, lost, skipped, evicted, got>>

(* tx.send(r).await: waits for room, and fails once the receiver is gone;  *)
(* either way the permit goes back.                                        *)
TaskSend(s) ==
  /\ pc[s] \in {"sendOk", "sendErr"}
  /\ IF closed
     THEN UNCHANGED chan
     ELSE /\ Len(chan) < ChannelCap
          /\ chan' = Append(chan, ResultOf(s))
  /\ handled' = handled \cup {job[s].url}
  /\ Free(s)
  /\ UNCHANGED <<mainVars, frontVars, dedup, bodies, spent, pages, closed,
                 stop, found, lost, skipped, evicted, got>>

Task(s) ==
  \/ TaskStart(s) \/ TaskFetch(s) \/ TaskBody(s) \/ TaskLink(s) \/ TaskDedup(s)
  \/ TaskPush(s) \/ TaskLinksDone(s) \/ TaskCount(s) \/ TaskSend(s)

-----------------------------------------------------------------------------
(* The receiver: the SSE stream of /crawl or the loop of the MCP tool. *)
Receive ==
  /\ chan # <<>>
  /\ chan' = Tail(chan)
  /\ got' = IF Head(chan) = "page" THEN got + 1 ELSE got
  /\ UNCHANGED <<mainVars, frontVars, dedup, bodies, spent, pages, taskVars, closed,
                 stop, found, handled, lost, skipped, evicted>>

(* The client disconnects: the receiver and what it buffers are dropped. *)
Disconnect ==
  /\ ~closed /\ mpc # "done"
  /\ closed' = TRUE
  /\ chan' = <<>>
  /\ UNCHANGED <<mainVars, frontVars, dedup, bodies, spent, pages, taskVars, history>>

(* The crawl is over and its results are consumed. *)
Finished == mpc = "done" /\ chan = <<>> /\ UNCHANGED vars

Main ==
  \/ SeedRoot \/ SeedSitemap \/ SeedDone
  \/ MainCheck \/ MainPop \/ MainPopNone \/ MainIdle \/ MainDrain
  \/ \E s \in Slot : MainSpawn(s)

Next ==
  \/ Main
  \/ \E s \in Slot : Task(s)
  \/ Receive
  \/ Disconnect
  \/ Finished

Spec == Init /\ [][Next]_vars

(* tokio runs every ready task; a fetch ends because the HTTP client times *)
(* out; a receiver that is not dropped is polled.                          *)
Fairness ==
  /\ WF_vars(Main)
  /\ \A s \in Slot : WF_vars(Task(s))
  /\ WF_vars(Receive)
FairSpec == Spec /\ Fairness

-----------------------------------------------------------------------------
(* Types, with the capacities of the frontier, dedup sets and channel. *)
TypeOK ==
  /\ mpc \in MainPc /\ seeded \in 0..Len(Sitemap) /\ held \in Job
  /\ frontier \in SUBSET Entry /\ nextSeq \in Nat
  /\ Cardinality(frontier) <= FrontierCap
  /\ dedup \in Seq(Urls) /\ Len(dedup) <= DedupCap
  /\ bodies \in Seq({Body[u] : u \in Urls}) /\ Len(bodies) <= DedupCap
  /\ spent \in [BudgetKeys -> Nat] /\ pages \in Nat
  /\ pc \in [Slot -> TaskPc] /\ job \in [Slot -> Job]
  /\ todo \in [Slot -> Seq(Urls)] /\ cand \in [Slot -> Urls]
  /\ chan \in Seq(Result) /\ Len(chan) <= ChannelCap
  /\ closed \in BOOLEAN /\ evicted \in BOOLEAN /\ got \in Nat
  /\ stop \in {"none", "closed", "limit", "exhausted"}
  /\ found \subseteq Urls /\ handled \subseteq Urls
  /\ lost \subseteq Urls /\ skipped \subseteq Urls

(* The URLs the crawl still owes a result: in the frontier, held by the    *)
(* main loop, being processed, or between dedup and the frontier.          *)
IsPending(u) ==
  \/ \E e \in frontier : e.url = u
  \/ mpc = "permit" /\ held.url = u
  \/ \E s \in Slot : pc[s] # "idle" /\ job[s].url = u
  \/ \E s \in Slot : pc[s] = "push" /\ cand[s] = u

(* The page limit is read before the pop and the permit, so the tasks in   *)
(* flight and the one waiting for a permit may pass it, but no more.       *)
PageOvershootBound == pages <= MaxPages + Concurrency

(* No URL that dedup accepted ever disappears: it is pending, it got a     *)
(* result, it was dropped at the frontier's capacity (which is logged), or *)
(* it was skipped for a receiver that is gone.                             *)
NothingLost == \A u \in found : u \in handled \cup lost \cup skipped \/ IsPending(u)

(* When the main loop says the site is exhausted, every URL it found has   *)
(* had its task run to the end, or was dropped at the frontier's capacity. *)
ExhaustedMeansDone ==
  stop = "exhausted" /\ ~closed => found \subseteq handled \cup lost

(* Unless dedup had to evict, no URL is processed twice, whichever tasks   *)
(* find it at the same time: pending URLs have no result yet, and no two   *)
(* tasks work on one URL.                                                  *)
NoDoubleFetch ==
  \/ evicted
  \/ /\ \A u \in handled : ~IsPending(u)
     /\ \A s, t \in Slot :
          pc[s] # "idle" /\ pc[t] # "idle" /\ job[s].url = job[t].url => s = t

(* The URLs that only links led to stay within every budget that applies   *)
(* to them, whatever the tasks that found them.                            *)
LinkBudgetHolds ==
  LET seeds == {Seed} \cup {e.url : e \in Range(Sitemap)} IN
  \A k \in BudgetKeys :
    Cardinality({u \in found \ seeds : k \in Applicable(u)}) <= Limits[k]

(* Every page counted is a successful result the receiver took, one in the *)
(* channel, or one a task is about to send: none is lost while the         *)
(* receiver is there.                                                      *)
DeliveryAccounting ==
  ~closed => pages = got
                     + Cardinality({i \in DOMAIN chan : chan[i] = "page"})
                     + Cardinality({s \in Slot : pc[s] = "sendOk"})

(* A crawl always ends, also when the receiver disconnects. *)
CrawlEnds == <>(mpc = "done")

(* The crawl keeps the promise of CrawlPromise: what is owed is what dedup  *)
(* accepted and no task has finished, skipped or dropped.                  *)
Promise == INSTANCE CrawlPromise WITH
  PageCeiling <- MaxPages + Concurrency,
  owed <- found \ (handled \cup skipped \cup lost),
  settled <- handled \cup skipped,
  dropped <- lost,
  counted <- pages,
  verdict <- stop,
  ended <- mpc = "done"

KeepsPromise == Promise!Spec

(* config.rs says of max_pages: "Maximum number of pages to crawl". *)
PagesWithinLimit == pages <= MaxPages
=============================================================================
