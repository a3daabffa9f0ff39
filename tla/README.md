# ox-browser in TLA+

A verification project for ox-browser, the Rust service that fetches, renders
and crawls web pages (workspace crates under `crates/`, binary under `src/`).
The modules here describe what its concurrent and failure-prone parts do; TLC
checks them on small instances, and the TLA+ proof system proves what section 4
lists for every value of the constants.

`PROJECT.json` is the index: components, runs, mutants (a plausible bug for
each property, which the property must detect), the source lines of each
definition (`map`), hazards, findings and theorems.

## 1. The system

    REST (crates/js)       MCP (crates/mcp)      CLI (src/)
      | inbound gate          | dispatch            |
      | deadline layer        | deadline            |
      +-----------+-----------+----------+----------+
                  |                      |
          read pipeline --> Chrome   crawl engine (crates/crawler)
            | format llm                 | robots gate, sitemap discovery
            |                            |
            +--------- HttpClient -------+                  crates/http
              rate limit > solver > retry > residential
                > cloudflare_detect > quality > transport (Tor, proxy, direct)
              shared: DomainLimiter, CookieCache, SolverNegCache,
                      RenderModeCache, proxy pools
          searches (crates/imagesearch, crates/reverse), media store (crates/media)

Everything runs on one multi-threaded tokio runtime: a request, a crawl task
and an eviction loop are tasks that may interleave at every `await` and at
every lock, and a deadline or a caller that hangs up drops a task at an
`await`. Nothing but the media directory survives a restart.

| Component | State | Operations | What makes it hard | What makes it correct |
|---|---|---|---|---|
| Crawl engine (`crawler.rs`, `frontier.rs`, `dedup.rs`, `budget.rs`) | frontier heap, URL and content dedup sets, budgets, page counter, semaphore, result channel | seed, pop, spawn, process a page, push its links, send, drain | tasks interleave with a main loop that decides when the crawl is over; bounded everything; a receiver that leaves | no URL or result is lost, no page twice, limits hold, "exhausted" is true, the crawl ends |
| Robots gate (`robots.rs`, `ensure_robots_loaded`) | entries with expiry and eviction order, in-flight markers | wait or fetch, store, ask | three lock sections per task, a valve that ignores the marker, a fetch that may hang or panic, expiry between two of them | one fetch per host, every marker accounted for, no unbounded wait, the rules are applied |
| Crawl discovery (`discovery.rs`, `sitemap.rs`) | files seen, count of files, depth | find roots, follow indexes | cycles and shared files under one count and one depth | every page within the limits, once, and it ends |
| Middleware chain (`client.rs`, `middleware_*.rs`, `retry.rs`) | per request: attempt, proxy, cookies | send, classify, resend, solve, retry, return | six optional layers of which three send again; idempotency | bounded sends, no mutation twice, the origin's answer comes back, onion stays on Tor |
| Solver caches (`cookie_cache.rs`, `solver_negcache.rs`) | a solution per domain, failures and cooldown per domain and cohort | get, put, remove_if, is_blocked, record_*, evict | cache calls of different requests between another's send and solve | cooldowns are earned, per cohort, and end; newer solutions survive |
| Domain rate limiter (`ratelimit.rs`, `ratelimit_domain.rs`) | windows, blocks, last request times | wait/allow, mark_rate_limited, evict | allow is three lock sections; eviction drops counts | admissions per window, min delay, progress |
| Read pipeline (`read_pipeline.rs`, `render_cache.rs`) | render mode per domain | HTTP first, then Chrome, remember what worked | a mode read before an await and removed after it; a deadline that drops the read anywhere | refused only for its own cohort's failures, and every read ends |
| Transport (`handler_reqwest.rs`, `tor.rs`, `proxy_fallback.rs`, `ssrf_connect.rs`) | clients per route | route, dial, follow redirects, fall back to direct | redirects followed in place by one client and rerouted by the handler; one error for two causes | nothing crosses the Tor boundary, no needless direct dial, bounded dials |
| Proxy pools (`proxy_pool.rs`, `proxy_health.rs`, `proxy_webshare.rs`) | turn, health per proxy | next, record, evict | the fallback of a call takes a turn in another's round | a cooling proxy only when all are |
| Call deadlines (`deadline.rs`, `deadline_layer.rs`, MCP dispatch) | calls in flight | bound a call | two nested bounds, the work and the caller's hanging up race | the right bound answers, the gauge returns to zero |
| Inbound authentication (`inbound_auth.rs`) | sightings of callers, bounded in three ways | decide, record | the bounds | no caller without a credential stays silent |
| Searches (`imagesearch/fusion.rs`, `reverse/fusion.rs`) | answers as they come | fan out, join, fuse | engines that fail or panic in the middle | an error costs only its own answers |
| Media store (`media/download.rs`, `cleanup.rs`) | a directory | quota, stream into a partial file, rename, sweep | two downloads of one URL; calls dropped in the middle | complete files, bounded size |
| Text of format llm (`http/src/llm`) | none | thirty passes over one text | each pass relies on what the others leave | no paragraph lost, code stays code |
| Fingerprints, analysers, service clients, core API, handlers, CLI | none shared, or constants | conversions and single calls | - | see section 8 |

The hazards these parts are exposed to are in `PROJECT.json`, with the line at
which each bites and the properties that would notice.

## 2. The modules

| Module | What it is |
|---|---|
| `Crawl`, `CrawlPromise`, `CrawlProofs` | the crawl engine; what a crawl promises its caller, which `Crawl` implements (`KeepsPromise`); proofs |
| `RobotsGate` | the robots.txt cache and the gate each crawl task passes |
| `RateLimit` | `Limiter` and `DomainLimiter` of one domain under concurrent requests |
| `RequestChain` | one request in the middleware chain, any combination of layers |
| `MiddlewareProofs` | proofs about these three: the gates a request passes, and the chain |
| `NegCache`, `NegCacheProofs` | the streak of failures and the cooldown of one domain and cohort, as operators; what they preserve |
| `SolverCaches` | `CookieCache` and `SolverNegCache` under concurrent requests; EXTENDS `NegCache` |
| `ReadPipeline`, `ReadPipelineProofs` | concurrent reads of one domain over `RenderModeCache` and the cooldowns; EXTENDS `NegCache` |
| `Transport` | one request in the terminal handler: routes, redirects, fallback |
| `ProxyPool` | round robin, and `HealthyPool` on top |
| `InboundGate` | the decision of the gate and its bounded table of sightings |
| `CallBounds` | the layer's bound around the handler's own, and the gauge |
| `ServiceProofs` | proofs about these four, `SolverCaches` and `MediaStore`: what stands around a call, at either end |
| `Discovery` | find_sitemaps and the walk over sitemap indexes |
| `Fusion` | fan-out searches and the two ways to fuse their answers |
| `CollectionProofs` | proofs about these two, which collect: with the induction they need |
| `MediaStore` | concurrent downloads into one directory, with inodes |
| `Extractor`, `ExtractorProofs` | what is taken of a page: best node, sections beside it, noise, recovery passes, script data |
| `LlmText`, `LlmTextProofs` | the passes of `process_body` over lines of words, and its links |
| `MC*` | the instances TLC checks; `MCRequests` and `MCServices` check several modules that share no state in one run, where a behaviour is one of one of them |

They meet where the code does. `Crawl` treats the robots verdict and the fetch
as one choice, `RobotsGate` models the verdict and `RequestChain` the fetch;
its `Sitemap` is what `Discovery` collects. `RequestChain` treats what the
shared caches hold as a choice each time it reads them, and `SolverCaches` and
`RateLimit` model those caches; its "send" is the whole of `Transport`.
`ReadPipeline` and `SolverCaches` share `NegCache`: the same cooldown seen by
whole reads and by single requests. Definitions marked "Mutant" are plausible
bugs and are used by no specification.

### Crawl

`run_crawl` is a program counter `mpc` (seed, check, pop, idle, permit, drain,
done); a task is a permit `s \in Slot` with a counter `pc[s]` (start, fetch,
body, links, dedup, push, count, sendOk, sendErr). One action is the code
between two awaits, so the two halves of "test the page limit, then wait for a
permit" or of "insert into dedup, then into the frontier" are separate steps.
The frontier is a set of entries ordered by `Precedes` (`Ord for
FrontierEntry`); dedup sets are sequences, eldest first, so that eviction at
capacity is exact. A page is its URL; `Links`, `Body`, `Sitemap` describe the
site; a fetch may answer with a refusal, an error or its body. Normalization,
scope and cycle tests are pure and are folded into `Links`. History variables
(`found`, `handled`, `lost`, `skipped`, `evicted`, `got`, `stop`) are read by
properties only.

### RobotsGate, Discovery

One action of `RobotsGate` is a lock section of `RobotsCache`: the loop turn of
`ensure_robots_loaded`, the valve, the insert with `end_fetch`, and
`is_allowed`. A tick is the 50 ms wait sleep; entries count their remaining
ticks. Parsing a robots.txt is a choice between usable rules and none.

A fetch may hang, and it may panic (`Panic`), the case for which the comment of
the valve gives its reason (`crawler.rs:304`): tasks are spawned and no guard
clears the marker, so the task dies and the marker stays, until the fetch of a
task that came through the valve ends. So it is where panics unwind; the release
profile aborts the process (`Cargo.toml:70`), and the crawl with it. `valved` and
`astray` name the fetches that may run beside another one, those through the
valve and those whose marker another has cleared, and `orphaned` the hosts whose
marker stands for nobody; properties only read them. Other panics of a crawl task
are not modelled, nor, in `Crawl`, the URL that this one loses.

`Discovery` unrolls the recursion of `resolve_recursive` into a stack of lists;
the file set, the file count and the depth are those of the whole walk, as in
the code. A file is an index, a set of pages, or unreadable.

### RequestChain, Transport, ProxyPool

A request goes down and up through `pc`. The constant part of a behaviour
(`cfg`, which layers are built; `req`, method and onion) is chosen in `Init`, so
one run covers all chains. The transport's answer is a choice among the classes
the layers tell apart. `processed` counts sends an origin may have acted on.

`Transport` is one request below the chain: `Choose` is `handle_hop`, `Redirect`
what wreq follows by itself, `Reroute` the handler's own loop for redirects
across the boundary, `FallBack` the direct sibling after a dead proxy. `leaked`
is the history of what was sent where it must not go. wreq reports a proxy that
cannot be dialled and a tunnel that a living one could not open alike, so both
lead to the same test here.

`HealthyPool::next` goes round under a lock (`holder`), and its fallback takes
one more turn without it, which is an action of its own (`FallbackTurn`).

### NegCache, SolverCaches, ReadPipeline

In `SolverCaches` a request looks up the cookie cache, fails fast on a cooldown,
sends, may evict a rejected solution, passes the gate again, solves, stores and
clears: each is one action, as each takes and releases a lock. Solutions are
names from a set large enough to be fresh. `earned` is the history of a
cohort's own failures.

In `ReadPipeline` a read goes from await to await (`Await`), each of which
`DeadlineFires` may end; between two of them it takes one cache lock per action.
`Unmark` removes a GiveUp the read found earlier, without comparing, as the code
does.

### RateLimit

`allow` takes three locks in turn, and each is an action (`CheckDelay`,
`AllowUnblocked`/`DenyBlocked`, `Record`). `now` is the age of the instant the
call read when it began. `Evict` may run between any two of them. `recent` is
the history of admissions by age, and `Admitted` counts those of the last
`Window` ticks.

### MediaStore, Fusion, InboundGate, CallBounds

`MediaStore` has inodes, since what matters is what a name links to and what an
open file still writes: `Create` truncates the inode it finds, `Rename` gives
the final name to whichever inode has the partial one. `Dropped` may end a call
at any await and removes nothing. What is stored (`DirSize`) is counted in
chunks of inodes that have a name.

`Fusion` joins tasks in the order they end, as `JoinSet` does, and a panic ends
the joining. What is joined is one sequence of URLs with their ranks, from which
`Firsts` takes each URL where it comes first and `Score` what its ranks are
worth; scores are multiples of `1 / Scale`, so that the reciprocals are whole
numbers. `InboundGate` is `Gate::decide` for every credential and
configuration, with the three limits of its table. `CallBounds` chooses how
long the work takes when it starts; the earliest of work, own bound, layer's
bound and hang-up ends the call.

### Extractor

A document is the sequence of its elements in document order, each with a tag,
a parent, a text (an atom with a length, for leaves) and the one mark of its
classes, roles and ids that the code acts on. A loop of the code is `Through`: a
sequence of functions, each applied to what the one before left. `BestNode` keeps
the best so far as `find_best_node` does, rated with the weights of `score_node`;
`SiblingSections` walks up three levels, `Rejected` is the sanity gate,
`Remaining` the two noise passes in their order. The recovery passes are
functions from lines of markdown to lines of markdown, composed in `Recover` as
in `recover_content`; one that goes over elements does for each of them (`Each`)
what the loop's body does. That a pass looks for a text before it brings it
back, and where it puts it, is what the two properties are about.
`Grow` adds a fragment to the page and does `extract_content`, so TLC extracts every page of at most
`MaxFragments` fragments.

### LlmText

A line is a mark (heading, bullet, list, fence, image, text) and words, which
are told apart up to case; what a pattern matches is the `Kind` of a word. Each
pass is one operator, and `Unlinked`, `Reduced` and `Condensed` compose them in
the order of `process_body`. `Write` appends a piece to the page, so TLC runs
the whole function on every page of at most `MaxPieces` pieces.

## 3. What the runs check

| Run | Instance | Shows |
|---|---|---|
| `crawl` | 6 pages, MaxPages 1, 2 permits, frontier 3, depth 2, two budgets | `NothingLost`; `ExhaustedMeansDone`; `NoDoubleFetch` unless dedup evicted; `LinkBudgetHolds`; `DeliveryAccounting`; the refinement `KeepsPromise`; `CrawlEnds` |
| `requests` | robots: 2 tasks, 2 hosts, cache of 1, lifetime 3 ticks, 2 wait tries, at most 2 ticks at the lock; limiter: 2 callers, limit 1, window 2; chain: 64 chains, every method class, onion or not, every class of answer, 1 retry | `SingleFetch` but for fetches through the valve and what they leave unmarked, `MarkerAccounted`, `RobotsBeforePage`, `WaitEnds`; `WindowBound`, `AdmissionsGoOn`, `DelayKeptUpToStall`; `SendBudget`, `SingleProcessing`, `ResponseKept`, `OnionUntouched`, `EveryRequestReturns` |
| `solver` | 2 requests; one domain with both cohorts, or two domains and a cache of 1; MaxFailures 2 | `CooldownIsEarned`, `FresherSolutionSurvives`, `EvictionInvisible`, `CooldownEnds` |
| `read_pipeline` | 2 reads, 2 cohorts, MaxFailures 2, one tick each for a mode, a deadline and a cooldown | `RefusalIsEarned`, `EveryReadEnds` |
| `services` | `Transport`: every handler and first hop, up to 2 redirects; `Discovery`: a cyclic site and a deep one, limits of files and depth that bite and that do not; `ProxyPool`: 2 proxies, 2 callers; `Fusion`: 3 engines, 2 rankings, 3 limits; `MediaStore`: 2 downloads, 2 paths, 2 chunks; `InboundGate`: 4 configurations, 2 addresses, 2 agents, all three limits reached; `CallBounds`: 2 calls on 8 surfaces; `LlmText`: pages of 3 of 17 pieces; `Extractor`: pages of 3 of 22 fragments, at the end of the body or inside what is open | `BoundaryKept`, `DirectOnlyWhenProxyDead`, `DialsBounded`; `CollectsTheReachable`; `FallbackOnlyIfAllCool`; `NothingLostWithoutPanic`; `WholeUnlessRaced`, `QuotaOvershoot`; `NoSilentCaller`; `RightBoundAnswers`, `GaugeSettles`; `KeptButForHeadings`, `CodeStaysCode`; `NothingTwice`, `HeadingOverOwnText` |
| `crawl_page_limit`, `robots_expiry`, `chain_mutation`, `chain_retry_after`, `rate_limit_delay`, `media_whole`, `text_paragraphs` | as above | findings 1 to 7 |

### Bounds, and why they are enough

- **Crawl.** Every capacity is smaller than the site (6 pages; frontier and
  dedup hold 3), so refusal, eviction and overshoot all happen; two permits are
  the fewest for which tasks race each other and the main loop; the seed page is
  linked back, one page is both in the sitemap and linked, two have one body,
  two share a budget of one. `CapFactor` is 10 in the code and 3 here. The site
  bounds the counters; none is cut off.
- **RobotsGate.** `Capacity` 1 makes each host's fetch evict the other's
  entry; `TTL` 3 is longer than the wait of 2 `Retries`, so that expiry during
  and after a wait both happen. In the code they are 4096, 6000 and
  `ROBOTS_INFLIGHT_WAIT_RETRIES`. `MaxLate` bounds the ticks for which a task that
  is through the gate waits for the lock: 2 in `requests`, 1 in `robots_expiry`,
  both less than `TTL`. So an entry cannot expire between its own fetch and the
  test right after that (`crawler.rs:359`-`361`, where 300 s would have to pass);
  what expires there was nearly expired when it let the task through.
- **RequestChain.** `MaxRetries` 1 has a first, a last and no further attempt.
  `SendCap`, and the caps 2 of `processed` and `solves`, lie above every bound
  a property tests.
- **NegCache.** Two failures make a streak that can age between them; `age` and
  `failures` saturate one past the value the code compares.
- **RateLimit.** Two callers race for a limit of one, which makes both parts of
  `WindowBound` bite. Ages saturate where no comparison tells them apart (`Old`,
  `Window`). `MaxBlock` bounds a Retry-After and `MaxStall` the ticks a call of
  `allow` may spend between its locks. It is assumed to be no longer than a
  window: `allow` awaits nothing between its locks, and a call that did stall for
  longer could be admitted, be forgotten by `evict_expired` and still come back to
  write `last_req`, after which `WindowBound` fails (as TLC shows for
  `PerWindow` = `Window` = 2, `MaxStall` = 4).
- **ReadPipeline.** With lifetimes of one tick a mode, a cooldown and a deadline
  can each end before the others.
- **Transport.** `MaxRedirectsBound` 2 allows a redirect across the boundary and
  back. **ProxyPool.** `MaxCount` caps successes and failures at the number from
  which the failure rate counts (10 requests in the code, 2 here).
- **Fusion.** One of the answers names a URL twice; two engines that agree on a
  URL outweigh a better rank; the limits cut, fit and exceed what is given.
- **MediaStore.** Two chunks make a file that is half there; `Inodes` are three
  per path, one more than two partial files and a final one can use at a time.
- **InboundGate.** `MaxSightings` 3, one agent and two rows per address: each
  limit is met with the others met and not met.
- **CallBounds.** The timeouts 0 and 200 are clamped from below and above; the
  works lie below, between and above the bounds of the code, which are used as
  they are.
- **Extractor.** Three fragments hold a section, what hides or wraps it and what
  competes with it; the lengths of texts lie on both sides of every threshold
  of the code, which are used as they are (50, 500 and 5000 characters, 25 of an
  orphan, 40 to 300 of a hero paragraph). One paragraph that headings are put back
  over is short enough to be passed over as an orphan itself.
- **LlmText.** Three pieces put a heading, what restates it and what follows in
  every order. A prefix is two words here and ten in the code; paragraphs longer
  and shorter than it are among the pieces. Both invariants are also theorems, for
  any pieces, any number of them and any length of a prefix; the pieces include
  the pages that refuted what was claimed before the proof (section 4).

### Fairness

Weak fairness of the main loop, of each task and of `Tick`, which tokio's
scheduler and the clock justify: a ready task is polled. Fetches, sends and
solves end since the client and the providers set timeouts. Exceptions, where the
code gives no such guarantee: `RobotsGate` assumes nothing of a robots.txt
fetch, which may hang or panic (the point of the valve), `Crawl` nothing of the
client's disconnecting, `ReadPipeline` nothing of origin, solver and Chrome, so
that only the deadline ends a read that waits for one, and `RateLimit` and `SolverCaches` nothing of
new requests or eviction. `Receive` in `Crawl` is fair: the SSE stream and the
MCP loop poll the channel until they drop it. The modules of `services` have no
liveness property and need no fairness.

Deadlock is checked where the system may not stop; `services` and the text run
end when a call, a walk or a page is complete.

## 4. What is proved

All for every value of the constants, from the assumptions each module names.
They ask little: finite sets, positive capacities, some sets not empty, a `Scale`
that the denominators of the scores divide, and in `RateLimit` that a call of
`allow` stalls between its locks for no longer than a window and no delay reaches
back two windows (section 3). No theorem assumes anything of the environment.

**Crawl** (`CrawlProofs`).

- `Typing`: types and capacities. The invariant needs that the frontier is
  finite (`TypeInv`), or its cardinality would say nothing.
- `PageBound`: at most `MaxPages + Concurrency` pages. Not inductive by itself:
  `PageInv` bounds `pages` together with the tasks that have not counted yet,
  strictly while the main loop is between the limit test and the spawn.
- `NoUrlLost`: `NothingLost` is inductive with types; the work is that each
  action hands a URL to exactly one other place.
- `ExhaustionIsComplete`: with `StopInv`, which says that a main loop which
  stopped as exhausted left an empty frontier and idle permits behind.
- `PagesDelivered`: `DeliveryInv` is the equation of `DeliveryAccounting` with
  the channel's content typed; every action moves one page from one term to the
  next.
- `BudgetsHold`: `BudgetInv` adds that `found` is finite and that the links
  charged and those being charged are together no more than what is spent, which
  stays within the limit until the sets are cleared at the end.
- `FetchedOnce`: `OnceInv` says that each URL is in at most one place (frontier,
  the main loop's hand, one task, handled); it rests on `StopInv` and
  `KnownInv`.
- `Refinement`: `Crawl` implements `CrawlPromise`: initial states map to
  initial ones and each step to a step or a stutter (`PromiseStep`), under
  the types, `PageInv`, `NothingLost`, `StopInv` and `KnownInv` (whatever is
  pending was found).

**The gates and the chain of a request** (`MiddlewareProofs`).

- `RobotsGate`: `OneFetchPerHost`, `MarkersAccounted` and `GateIsPassedAnswered`,
  all from `FetchInv`: a host is marked exactly while it is fetched by a task that
  nobody has ended for, or orphaned by a panic; only tasks that fetch are through
  the valve or astray; and a task past the gate, as a host with a live entry, has
  had an answer. That a fetcher without the marker is excused only by the end of
  another of its host is what makes `SingleFetch` inductive across panics.
- `RateLimit`: `RateTypes`; `DelayKept` from `DelayInv`: the entry of
  `last_req` is older than the latest record by no more than what the call that
  wrote it may have stalled; and `AdmissionsBounded`, that no span of a window's length
  holds more admissions than `WindowBound` says. `WindowInv` counts apart the
  admissions of the current window and all those still in the span, and keeps
  the latter within `Share` (what may have come before) and `Counted` (the
  current share). An eviction forgets a count: what it forgets is bounded because
  an entry is old enough only if every admission since then belongs to a call
  that has yet to write `last_req`, and there are at most as many as callers.
- `RequestChain`: `Typing`, `SendsBounded`, `OneSolve`, `NoPostTwice`,
  `AnswerHandedUp`, `RefusedPostBlocks`, `OnionStaysOnTor` and `ResendIsFresh`. The
  invariants say at each layer what has been spent so far: `Budgeted` splits the
  sends into earlier passes, earlier attempts of this pass and proxies of this
  attempt; `NotTwice` says that a POST whose answer is still a challenge has been
  processed by nobody; `OnItsWay` says in which wrapping the answer of a POST
  passes each layer, from which `RefusedPostBlocks` follows too: the wrapping of
  a 429 is undone by the layers that would hide it from the limiter.

**SolverCaches** (in `ServiceProofs`, with the lemmas of `NegCacheProofs`):
`CooldownsAreEarned` from `NegInv` (the streak the cache counts is never longer
than the failures the cohort really had), and the action properties
`EvictionUnnoticed`, `StreaksAgeOut` and `NewerSolutionKept` from the types.

**ReadPipeline** (`ReadPipelineProofs`): `ReadTyping` and `RefusalsAreEarned`,
from `ReadInv`: types, and for each cohort what `NegInv` says in `SolverCaches`
(`EarnedInv`), which holds because every change of an entry is one of
`NegCache`.

**What stands around a call** (`ServiceProofs`).

- `Transport`: `NothingCrosses`, `DirectIsSafe`, `DialsAreBounded` from
  `TransportInv`: types; `SideInv`, that the client which sends is on the side of
  the address it is at; `ProxyInv`, that a direct client means a dead proxy; and
  `DialInv`, that the dials made are at most those of the hops before (a product,
  kept behind the operator `Before` since the solver does no nonlinear
  arithmetic) and those of this send.
- `ProxyPool`: `FallbackAfterAll` from `RoundInv`: a round whose turns were all its
  own has passed over exactly the proxies behind the one whose turn it is
  (`Behind`, which wraps round the end of the pool), so a finished one has passed
  over all.
- `InboundGate`: `EveryCallerNoticed`, and `TableStaysBounded`, which adds to the
  limits of `TableInv` that an address is announced as capped only when its rows
  are at their limit, where they stay.
- `CallBounds`: `TheRightBound` from `AnsweredInv`, what is settled at each stage of
  a call about the bound that will answer it; `TheGaugeSettles` from `GaugeInv`:
  the gauge is the cardinality of the set of guards alive, of which each stage
  allows a call none, one or two.

**MediaStore** (`ServiceProofs`): `MediaTyping`, `WholeWithoutRaces`,
`NamesNeverShared` from `MediaInv`: types; no inode has two names (`OneName`),
and an open one has the name of its path or none (`OwnFile`); and, while a path
is unraced, its one writer has written to its inode what it counts (`Alone`).
`QuotaKept`: what is stored exceeds the quota by at most one body for each
download but one. `QuotaInv` counts what the directory may grow to without
another check: `Filled`, an open file as if it were whole already, and one body
for each call that was admitted and has no file yet (`Senders`). Creating a file
turns a sender into a filled file, and the only action that adds to the sum is
`Ask`, whose check saw the chunks that are there; the files being written are
no more than their writers.

**What collects** (`CollectionProofs`).

- `Discovery`: `TheReachableCollected` from `DiscoveryInv`. Every file read is
  accounted for by levels (`Levels`), each at most an index read below the one
  before, so that no file from below the limit on depth is among them; while no
  limit has cut the walk, the roots and whatever is nested in an index that was
  read are seen or wait on the stack (`NothingForgotten`); and the pages among the
  files read are what is collected. At the end the stack is empty, and what the
  definition of reachable files adds level by level has been seen.
- `Fusion`: `NoAnswerLost` from `FusionInv`: until a panic, the URLs given are those
  joined and those of the answers that wait to be joined. `Firsts` names what it
  is given, once each; `Score` is a natural number that adds up; and `Ranked`,
  which puts a URL at the place counted by those before it, gives every place to
  one URL, by the pigeonhole principle, so that nothing is lost in sorting.

**Extractor** (`ExtractorProofs`): `BroughtBackOnce` and `HeadingsStayOverText`, for
all fragments and texts of any length, from `ExtractInv`: the document is a tree
(`IsPage`), and its markdown is `Sound`, which says the two properties of any lines.
A fragment keeps it a tree, since each of its elements is under one before it.
What is taken is copied once because the best node and the sections beside it,
and beside the two elements around it, have no element in common (`Apart`,
`CandidatesScattered`). Every recovery pass is then shown to keep `Sound`, by a lemma
each. A text is put there only if no line shows it (`OneMore`); the map of a footer,
which looks for its categories before it writes any, has each from an element of
its own (`FooterMapped`, by an injection). A heading stays over its own text as what
comes later is put above all lines, below all, or is one of what may come
between: a heading right above its own text or the short lines before it, and
an eyebrow right above its heading. That each step of a `Through` keeps a set is
enough for all of them (`ThroughKeeps`); that is where the induction is.

**LlmText** (`LlmTextProofs`): `TextOfCode` and `ParagraphsStay`, for any words, pieces
and pages put together from them, and any length of a prefix. The inductive
invariant of the pages is only that `body` is `ProcessBody(page)`; the proof is
about that function, some thirty passes one after the other.

- *Code.* `Sub(out, doc)` says that, from either side of a fence, the words outside
  `out` are words outside `doc`, those in its code words in the code of `doc`, and
  that both end on the same side. It is transitive and goes through concatenation
  (`SubConcat`), so a pass that works line for line (`SubPointwise`), leaves lines out
  that are no fences (`KeepSub`), leaves blocks out that have none
  (`FlattenKeepSub`) or walks over the lines (`WalkedSub`) is settled by what it
  does in one place. `MadeTrans` puts the passes together.
- *Paragraphs.* A line of prose at the beginning of a paragraph (`Opening`) is
  followed through the passes up to `Restated`. From there a paragraph may be left
  out because an earlier one begins alike; a block left out is `Vouched` for by one
  that stays and opens with the same words, so what is followed is that a document
  `Tells` the words, and after the blocks are joined that it has them (`Said`), while
  words of headings stay words of headings (`HeadsOf`).

Three things about this component look true and are not; each was refuted while the
proof was written, and a page that shows it is among the pieces of the run. Code and
text can change places on a page no two lines of which read as the same heading: two
that become the same once words for a screen reader are taken out do it as well, so
`CodeStaysCode` excepts what really does the harm (`FenceRepeated`). What a paragraph
opens with need not stay in one line, as the block it is dropped for may break the
line earlier, nor in the text at all, as that block may say it with a heading, which
is dropped afterwards when nothing is left below it; so `KeptButForHeadings` is about
the words, and lets them be in a heading. And a row of images reaches across a line of
which an earlier pass left nothing (`Opens`).

What a recursive function computes is proved in these by induction all the same. The
library's induction theorems take an operator as a parameter, which the provers
cannot instantiate, so `CollectionProofs` has its own over sets, which
`ExtractorProofs` and `LlmTextProofs` use too: a set of naturals that is not empty has
a least number (`Least`, from the library's well-foundedness of `<`), hence a set that
has zero and the successor of each of its members is all of `Nat` (`SetInduction`),
hence a recursive definition over the naturals, or over a bounded part of them, has
the values its equation says (`Recursion`, `Table`).

**Only proved**, as no run spends time on them: the types of `Crawl`,
`RequestChain`, `ReadPipeline`, `MediaStore` and `RateLimit`; `RefusedMutationBlocks`,
`AtMostOneSolve` and `FreshFingerprint` of `RequestChain`; `StaleStreakForgotten` of
`SolverCaches`; and `PageBound`, `TableStaysBounded` and `NamesNeverShared`.

**Only model-checked**: every liveness property (`CrawlEnds`, `WaitEnds`,
`AdmissionsGoOn`, `EveryRequestReturns`, `CooldownEnds`, `EveryReadEnds`), as
liveness under fairness is out of the prover's reach, and with it ENABLED. Every
invariant and every action property of the passing runs is stated by a theorem.

## 5. Findings

1. `max_pages` is exceeded by up to `concurrency` pages: the limit is read
   before the wait for a permit and running tasks are not counted
   (`crawler.rs:159` against `config.rs:14`).
2. A robots.txt entry that is live, and nearly expired, when
   `ensure_robots_loaded` looks may have expired when `is_allowed` is asked, one
   lock section later: it is treated as "allow" and not fetched again
   (`crawler.rs:361` against `robots.rs:16`). That an expired entry is permissive
   is documented (`robots.rs:180`); it is harmless only if the caller fetches
   again, as line 16 says, and here the caller has done its test already.
3. A 200 page of the origin that embeds a Turnstile widget is classified as a
   genuine challenge, so a POST may be sent twice (`cloudflare.rs:95` against
   `error.rs:28`).
4. A 429 that an inner layer turned into an error never marks the domain
   (`middleware_ratelimit.rs:43` against its doc, line 21).
5. `min_delay` is tested under one lock and recorded under another; two
   concurrent requests pass together (`ratelimit_domain.rs:68`).
6. Two downloads of one URL share the partial file; the first to finish gives
   the final name to what the second is still writing (`download.rs:136`
   against line 41).
7. A paragraph that a heading restates is dropped, or joined to the heading, and
   the heading is then removed as empty: the text is in neither place
   (`body.rs:368` and `:824` against `:338`).

Seen while modelling, contained in the models, and not runs of their own:

- The limiter is outside retry, so retries do not wait (`client.rs:384` against
  the comment above it).
- A solve that a deadline drops is not counted as a failure, so a solver slower
  than the deadline never trips the cooldown (`middleware_solver.rs:136`).
- The bound of a solver call is 130 s, said to be sized to what it bounds
  (`deadline.rs`); a fetch, a solve and the resend may take 20 + 120 + 20 s.
- A comment of `fetch_smart.rs` says that the outer bound wins a tie; tokio polls
  the inner future first. `CallBounds` allows both.
- The health records of `HealthyPool` are called by no code but its tests,
  though `serve.rs` builds the pool.
- A budget is charged before dedup (`crawler.rs:449`), so repeated links to
  known pages use it up; nothing says whether that is wanted.
- In extraction: `recover_content` looks for the hero paragraph around the first
  `h1` of the page, even when `recover_h1` passed it over as hidden or a dialog's
  (`extractor.rs:385`); `recover_footer_cta` writes the `h2` headings of a
  footer, which `recover_footer_sitemap` then takes for known, so a map under
  `h2` headings is never written (`extractor.rs:607` and `:652`); an element of
  class `sidebar` that is too long to be noise for `noise.rs:213` is removed by
  `NOISE_SELECTORS` all the same; and `content.rs:371` says that both script
  passes look at the word count and at what is there already, but the second
  does neither (why `NothingTwice` exempts it).
- In `llm`: `dedup_duplicate_headings` takes a comment in code for a heading and
  may remove a fence, and so may two headings that are the same once a link or a
  screen reader's words are taken out, after which text and code change places (why
  `CodeStaysCode` excepts the pages where a fence goes with a heading); a
  paragraph is dropped for a block that says the same with a heading, and the
  heading for having nothing below it (why `KeptButForHeadings` lets the words be
  in a heading); a row of images swallows the blank lines
  after it; the fence that ends one block and the one that begins the next are
  removed as an empty block; removing the headings at the end once leaves a
  heading over one just removed; and some passes change lines of code.

## 6. Assumptions and abstractions

- Critical sections are atomic; no lock is held over an `await` in the modelled
  code but the semaphore permits.
- HTML, headers, cookies, log lines and metrics are left out; times are ticks
  (seconds in `CallBounds`); random jitter is a choice.
- `RequestChain` does not model the SSRF, logging and client-hint layers, which
  refuse or decorate a request and never send it again.
- One domain stands for all in `RateLimit` and `ReadPipeline`, as domains share
  only the locks and the capacity, which is a choice.
- External, and modelled as what the code sees of them: wreq's handling of
  redirects and proxies, the file system, hyper's dropping of a handler, the
  solver's and Chrome's answers.
- `Extractor` has texts as atoms: one text is in a line or it is not, and no text
  is part of another. A link's line is longer than 25 characters, words have six
  characters, and the logarithm in a score is linear between powers of two.
- `LlmText` leaves out the rewriting of characters (entities, invisible and
  spaced letters, emphasis), images inside a line, the collapse of word lists
  and the cycles of lines longer than 100 words, the metadata header and the
  labels of links.

## 7. What could come next

1. The length of a solve in `SolverCaches`, so that requests that wait for one
   another's solution (there is no single flight in the code) can be counted.
2. What `KeptButForHeadings` does not say of `LlmText`: which words after the first
   of a paragraph stay, and in which order the paragraphs do.
3. The guest token of the Twitter client, a cache refreshed under concurrency.
4. The rest of `to_llm_text`, and texts that contain one another in `Extractor`.

## 8. Not modelled, and why

- Metadata of a page, analysers, fingerprints, response parsing: pure
  functions of one page without state for ordering or failure to disturb; what
  they compute from a page is not stated anywhere in a form a small instance
  could be checked against.
- Solver providers, Webshare, yt-dlp, the wire formats of the search engines and
  of Twitter, Chrome: external services; what they answer is a choice where a
  module uses them. Security headers and scores are tables.
- REST and MCP handlers other than what `CallBounds` and the crawl's receiver
  have of them, CLI and configuration: each maps a request to one library call,
  or builds constants.
- The guard against private addresses, the body cap, client hints: tests of one
  request that only refuse or decorate it.
- Saving crawled pages to disk: a side output the engine never reads back.
- The core browser API (`crates/core`): types over `HttpClient` that the servers
  do not use.
