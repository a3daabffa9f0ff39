----------------------------- MODULE RobotsGate -----------------------------
(***************************************************************************)
(* The robots.txt gate every crawl task passes before it requests a page:  *)
(* RobotsCache (crates/crawler/src/robots.rs) behind one lock, and         *)
(* ensure_robots_loaded with its per-host in-flight marker, bounded wait   *)
(* and safety valve (crates/crawler/src/crawler.rs).                       *)
(*                                                                         *)
(* Each action is one critical section of the lock, so the tasks           *)
(* interleave between the has_host test, the HTTP fetch, the insert and    *)
(* the is_allowed test.  Time is a Tick of one wait sleep (50 ms).  A      *)
(* fetch takes any time, may never end, and may panic, which in a build    *)
(* that unwinds ends its task only and leaves the marker.                  *)
(***************************************************************************)
EXTENDS Naturals, Sequences, FiniteSets, Functions

CONSTANTS
  Tasks,         \* the tasks in flight (the crawl's permits)
  Hosts,
  Url,           \* the pages asked for, as [host, open]
  Capacity,      \* max_capacity, 4096 in the code
  TTL,           \* ticks an entry lives, 6000 in the code
  Retries,       \* ROBOTS_INFLIGHT_WAIT_RETRIES
  MaxLate        \* bound on the ticks from the gate to the is_allowed test

\* open: the host's own rules allow the page.
ASSUME UrlAssumption == Url # {} /\ Url \subseteq [host : Hosts, open : BOOLEAN]
ASSUME SizeAssumption == /\ Capacity \in Nat \ {0}
                         /\ TTL \in Nat \ {0} /\ Retries \in Nat \ {0}
                         /\ MaxLate \in Nat \ {0}

NoUrl == CHOOSE u \in Url : TRUE         \* of an idle task, never read
Policy == {"rules", "unavailable"}       \* a parsed robots.txt, or none usable

VARIABLES
  policy,      \* the entry of each host, "absent" when it has none
  left,        \* ticks to live of each entry, 0 once expired
  order,       \* hosts with an entry, lowest seq (eldest) first
  inFlight,    \* RobotsCache::in_flight
  stage, url, tries,
  asleep,      \* the task is in its 50 ms sleep
  late,        \* ticks since the task was through the gate
  \* History, read by properties only.
  answered,    \* hosts whose robots.txt some fetch has stored
  valved,      \* tasks whose fetch came through the safety valve
  astray,      \* tasks whose fetch lost its marker to the end of another
  orphaned     \* hosts whose marker a fetch that panicked has left

cacheVars == <<policy, left, order, inFlight>>
taskVars == <<stage, url, tries, asleep, late>>
history == <<answered, valved, astray, orphaned>>
gateVars == <<cacheVars, taskVars, history>>

GateStage == {"idle", "ensure", "valve", "fetch", "check", "get"}

-----------------------------------------------------------------------------
(* live_entry, has_host and is_allowed: expired is as good as absent, and  *)
(* what is not known to be forbidden is allowed.                           *)
Live(h) == policy[h] # "absent" /\ left[h] > 0
IsAllowed(u) == Live(u.host) /\ policy[u.host] = "rules" => u.open

(* put: a new host evicts the eldest entry when the cache is full, expired *)
(* or not; a known host moves to the young end.                            *)
Victims(h) ==
  IF policy[h] = "absent" /\ Len(order) >= Capacity THEN {Head(order)} ELSE {}

Put(h, p) ==
  LET gone == Victims(h) IN
  /\ policy' = [g \in Hosts |-> IF g = h THEN p
                                ELSE IF g \in gone THEN "absent" ELSE policy[g]]
  /\ left' = [g \in Hosts |-> IF g = h THEN TTL
                              ELSE IF g \in gone THEN 0 ELSE left[g]]
  /\ order' = Append(SelectSeq(order, LAMBDA g : g # h /\ g \notin gone), h)

GoTo(t, to) == stage' = [stage EXCEPT ![t] = to]
Leave(t) == GoTo(t, "idle") /\ url' = [url EXCEPT ![t] = NoUrl]
Fetching(h) == {t \in Tasks : stage[t] = "fetch" /\ url[t].host = h}

GateInit ==
  /\ policy = [h \in Hosts |-> "absent"] /\ left = [h \in Hosts |-> 0]
  /\ order = <<>> /\ inFlight = {}
  /\ stage = [t \in Tasks |-> "idle"] /\ url = [t \in Tasks |-> NoUrl]
  /\ tries = [t \in Tasks |-> 0] /\ asleep = [t \in Tasks |-> FALSE]
  /\ late = [t \in Tasks |-> 0]
  /\ answered = {} /\ valved = {} /\ astray = {} /\ orphaned = {}

(* process_page starts for some URL. *)
Start(t, u) ==
  /\ stage[t] = "idle"
  /\ url' = [url EXCEPT ![t] = u]
  /\ GoTo(t, "ensure")
  /\ UNCHANGED <<cacheVars, tries, asleep, late, history>>

(* Mutant: has_host and begin_fetch in two critical sections: the marker   *)
(* does not stop a second fetcher.                                         *)
EnsureUnmarked(t) ==
  /\ stage[t] = "ensure" /\ ~asleep[t]
  /\ GoTo(t, IF Live(url[t].host) THEN "check" ELSE "fetch")
  /\ inFlight' = IF Live(url[t].host) THEN inFlight ELSE inFlight \cup {url[t].host}
  /\ UNCHANGED <<policy, left, order, url, tries, asleep, late, history>>

(* Mutant: a task that is not the fetcher does not wait for the fetch. *)
EnsureNoWait(t) ==
  /\ stage[t] = "ensure" /\ ~asleep[t]
  /\ LET h == url[t].host IN
       IF Live(h) \/ h \in inFlight
       THEN GoTo(t, "check") /\ UNCHANGED inFlight
       ELSE GoTo(t, "fetch") /\ inFlight' = inFlight \cup {h}
  /\ UNCHANGED <<policy, left, order, url, tries, asleep, late, history>>

(* One turn of ensure_robots_loaded's loop, under the lock: a live entry   *)
(* ends it, a free marker makes the task the fetcher, and otherwise it     *)
(* sleeps; after the last sleep it goes to the safety valve.               *)
Ensure(t) ==
  /\ stage[t] = "ensure" /\ ~asleep[t]
  /\ LET h == url[t].host IN
       \/ /\ Live(h)
          /\ GoTo(t, "check")
          /\ UNCHANGED <<inFlight, tries, asleep>>
       \/ /\ ~Live(h) /\ h \notin inFlight
          /\ inFlight' = inFlight \cup {h}
          /\ GoTo(t, "fetch")
          /\ UNCHANGED <<tries, asleep>>
       \/ /\ ~Live(h) /\ h \in inFlight
          /\ asleep' = [asleep EXCEPT ![t] = TRUE]
          /\ tries' = [tries EXCEPT ![t] = @ + 1]
          /\ GoTo(t, IF tries[t] + 1 = Retries THEN "valve" ELSE "ensure")
          /\ UNCHANGED inFlight
  /\ UNCHANGED <<policy, left, order, url, late, history>>

(* Mutant: no safety valve, the last try starts the wait again. *)
ValveWaits(t) ==
  /\ stage[t] = "valve" /\ ~asleep[t]
  /\ GoTo(t, "ensure")
  /\ tries' = [tries EXCEPT ![t] = 0]
  /\ UNCHANGED <<cacheVars, url, asleep, late, history>>

(* The safety valve: fetch unless an entry landed; begin_fetch's answer is *)
(* ignored.                                                                *)
Valve(t) ==
  /\ stage[t] = "valve" /\ ~asleep[t]
  /\ LET h == url[t].host IN
       IF Live(h)
       THEN /\ GoTo(t, "check")
            /\ UNCHANGED <<inFlight, valved>>
       ELSE /\ inFlight' = inFlight \cup {h}
            /\ valved' = valved \cup {t}
            /\ GoTo(t, "fetch")
  /\ UNCHANGED <<policy, left, order, url, tries, asleep, late, answered, astray, orphaned>>

(* The fetch of t ends, and with it the marker, whosever it was: another   *)
(* fetch of the host goes on without one.                                  *)
Unmarks(t) ==
  /\ inFlight' = inFlight \ {url[t].host}
  /\ orphaned' = orphaned \ {url[t].host}
  /\ astray' = (astray \cup Fetching(url[t].host)) \ {t}

(* Mutant: a fetch that found no robots.txt leaves the marker. *)
StoreLeaksMarker(t) ==
  /\ stage[t] = "fetch"
  /\ LET h == url[t].host IN
       /\ \E p \in Policy :
            /\ Put(h, p)
            /\ IF p = "rules" THEN Unmarks(t) ELSE UNCHANGED <<inFlight, orphaned, astray>>
       /\ answered' = answered \cup {h}
  /\ valved' = valved \ {t}
  /\ GoTo(t, "check")
  /\ UNCHANGED <<url, tries, asleep, late>>

(* The fetch answered: insert or insert_unavailable, then end_fetch, in    *)
(* one critical section.                                                   *)
Store(t) ==
  /\ stage[t] = "fetch"
  /\ LET h == url[t].host IN
       /\ \E p \in Policy : Put(h, p)
       /\ answered' = answered \cup {h}
  /\ Unmarks(t)
  /\ valved' = valved \ {t}
  /\ GoTo(t, "check")
  /\ UNCHANGED <<url, tries, asleep, late>>

(* The fetch panics, or the parsing of its answer before it is inserted:   *)
(* the task is gone, nothing is stored and nobody calls end_fetch.         *)
Panic(t) ==
  /\ stage[t] = "fetch"
  /\ orphaned' = IF t \in astray THEN orphaned ELSE orphaned \cup {url[t].host}
  /\ valved' = valved \ {t} /\ astray' = astray \ {t}
  /\ Leave(t)
  /\ tries' = [tries EXCEPT ![t] = 0]
  /\ UNCHANGED <<cacheVars, asleep, late, answered>>

(* is_allowed: request the page, or return "blocked by robots.txt". *)
Check(t) ==
  /\ stage[t] = "check"
  /\ IF IsAllowed(url[t])
     THEN GoTo(t, "get") /\ UNCHANGED url
     ELSE Leave(t)
  /\ tries' = [tries EXCEPT ![t] = 0] /\ late' = [late EXCEPT ![t] = 0]
  /\ UNCHANGED <<cacheVars, asleep, history>>

(* The page request ends, and with it the task. *)
Got(t) ==
  /\ stage[t] = "get"
  /\ Leave(t)
  /\ UNCHANGED <<cacheVars, tries, asleep, late, history>>

(* One wait sleep passes: entries age and sleepers wake.  A task that is   *)
(* through the gate only waits for the lock.                               *)
Tick ==
  /\ \A t \in Tasks : late[t] < MaxLate
  /\ late' = [t \in Tasks |-> IF stage[t] = "check" THEN late[t] + 1 ELSE 0]
  /\ left' = [h \in Hosts |-> IF left[h] > 0 THEN left[h] - 1 ELSE 0]
  /\ asleep' = [t \in Tasks |-> FALSE]
  /\ UNCHANGED <<policy, order, inFlight, stage, url, tries, history>>

Step(t) == Ensure(t) \/ Valve(t) \/ Check(t) \/ Got(t)

GateNext ==
  \/ \E t \in Tasks :
       \/ Step(t) \/ Store(t) \/ Panic(t)
       \/ \E u \in Url : Start(t, u)
  \/ Tick

GateSpec == GateInit /\ [][GateNext]_gateVars

(* Time passes and tasks are scheduled.  Nothing is assumed of the fetch   *)
(* of a robots.txt: it may hang or panic.                                  *)
GateFairness == WF_gateVars(Tick) /\ \A t \in Tasks : WF_gateVars(Step(t))
FairGateSpec == GateSpec /\ GateFairness

-----------------------------------------------------------------------------
(* Types; the cache holds at most Capacity hosts and order lists each of   *)
(* them once.                                                              *)
GateTypeOK ==
  /\ policy \in [Hosts -> Policy \cup {"absent"}] /\ left \in [Hosts -> 0..TTL]
  /\ order \in Seq(Hosts) /\ Len(order) <= Capacity
  /\ Range(order) = {h \in Hosts : policy[h] # "absent"}
  /\ Len(order) = Cardinality(Range(order))
  /\ inFlight \subseteq Hosts
  /\ stage \in [Tasks -> GateStage] /\ url \in [Tasks -> Url]
  /\ tries \in [Tasks -> 0..Retries] /\ asleep \in [Tasks -> BOOLEAN]
  /\ late \in [Tasks -> 0..MaxLate] /\ answered \subseteq Hosts /\ orphaned \subseteq Hosts
  /\ \A t \in valved \cup astray : t \in Tasks /\ stage[t] = "fetch"

(* robots.rs promises one fetch per host at a time: besides it there are   *)
(* only fetches that came through the safety valve or lost their marker to *)
(* the end of another, whatever expires, is evicted or panics.             *)
SingleFetch ==
  \A h \in Hosts : \A s, t \in Fetching(h) \ (valved \cup astray) : s = t

(* A host is marked exactly while a fetch runs that nobody has ended for,  *)
(* or after one has panicked, until another of that host ends.  So it goes *)
(* too early only where two fetches overlap, and stays too long only after *)
(* a panic.                                                                *)
MarkerAccounted ==
  \A h \in Hosts : h \in inFlight <=> h \in orphaned \/ Fetching(h) \ astray # {}

(* No page of a host is requested before some task has an answer to its    *)
(* robots.txt: neither waiting, nor the valve, lets a task by unchecked.   *)
RobotsBeforePage ==
  \A t \in Tasks : stage[t] \in {"check", "get"} => url[t].host \in answered

(* However long another task's fetch hangs, and whatever marker one that   *)
(* panicked has left, a task gets to fetch or to check itself: the wait is *)
(* bounded.                                                                *)
WaitEnds ==
  \A t \in Tasks : stage[t] = "ensure" ~> stage[t] \in {"fetch", "check"}

(* robots.rs says that an expired entry is "re-fetched by the caller",     *)
(* which is why is_allowed may ignore it: a page that the rules in the     *)
(* cache forbid, live or expired, is never requested.                      *)
RobotsRespected ==
  [][\A t \in Tasks :
       stage[t] = "check" /\ stage'[t] = "get" /\ policy[url[t].host] = "rules"
         => url[t].open]_gateVars
=============================================================================
