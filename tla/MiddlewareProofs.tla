--------------------------- MODULE MiddlewareProofs ---------------------------
(***************************************************************************)
(* Proofs about the middlewares of an outgoing request: the robots gate    *)
(* (RobotsGate), for every number of tasks, hosts, pages and retries, and  *)
(* every capacity and lifetime of its cache; the rate limiter of a domain  *)
(* (RateLimit), for every number of callers and every rule; and the chain  *)
(* of retries and solves (RequestChain), for every chain, method, sequence *)
(* of answers and MaxRetries.                                              *)
(***************************************************************************)
EXTENDS RobotsGate, RateLimit, RequestChain, FiniteSetTheorems, TLAPS

-----------------------------------------------------------------------------
(* What the proofs need of the types: where each task is, and its page. *)
TaskTypes ==
  /\ stage \in [Tasks -> GateStage]
  /\ url \in [Tasks -> Url]

(* Where a marker is, the fetches it stands for, and those that go on       *)
(* without one; only a task that fetches is through the valve or astray.    *)
FetchInv ==
  /\ MarkerAccounted
  /\ SingleFetch
  /\ \A t \in valved \cup astray : t \in Tasks /\ stage[t] = "fetch"
  /\ RobotsBeforePage
  /\ \A h \in Hosts : Live(h) => h \in answered

LEMMA NoUrlType == NoUrl \in Url
BY UrlAssumption DEF NoUrl

LEMMA HostType == ASSUME NEW u \in Url PROVE u.host \in Hosts
BY UrlAssumption

LEMMA TaskTypesInit == GateInit => TaskTypes
BY NoUrlType DEF GateInit, TaskTypes, GateStage

LEMMA TaskTypesStep == TaskTypes /\ [GateNext]_gateVars => TaskTypes'
<1> SUFFICES ASSUME TaskTypes, [GateNext]_gateVars PROVE TaskTypes'
  OBVIOUS
<1> USE DEF TaskTypes, GoTo
<1>1. ASSUME NEW t \in Tasks, NEW u \in Url, Start(t, u) PROVE TaskTypes'
  BY <1>1 DEF Start, GateStage
<1>2. ASSUME NEW t \in Tasks, Ensure(t) PROVE TaskTypes'
  BY <1>2 DEF Ensure, GateStage
<1>3. ASSUME NEW t \in Tasks, Valve(t) PROVE TaskTypes'
  BY <1>3 DEF Valve, GateStage
<1>4. ASSUME NEW t \in Tasks, Store(t) PROVE TaskTypes'
  BY <1>4 DEF Store, GateStage
<1>5. ASSUME NEW t \in Tasks, Panic(t) \/ Check(t) \/ Got(t) PROVE TaskTypes'
  BY <1>5, NoUrlType DEF Panic, Check, Got, Leave, GateStage
<1>6. CASE Tick \/ UNCHANGED gateVars
  BY <1>6 DEF Tick, gateVars, taskVars
<1>. QED BY <1>1, <1>2, <1>3, <1>4, <1>5, <1>6 DEF GateNext, Step

LEMMA FetchInit == GateInit => FetchInv
BY DEF GateInit, FetchInv, MarkerAccounted, SingleFetch, RobotsBeforePage, Fetching, Live

LEMMA FetchStep == TaskTypes /\ FetchInv /\ [GateNext]_gateVars => FetchInv'
<1> SUFFICES ASSUME TaskTypes, FetchInv, [GateNext]_gateVars PROVE FetchInv'
  OBVIOUS
<1> USE DEF FetchInv, MarkerAccounted, SingleFetch, RobotsBeforePage, Fetching
<1>0. \A t \in Tasks : url[t].host \in Hosts
  BY HostType DEF TaskTypes
<1>1. ASSUME NEW t \in Tasks, NEW u \in Url, Start(t, u) PROVE FetchInv'
  <2>1. /\ stage[t] = "idle" /\ stage'[t] = "ensure"
        /\ \A s \in Tasks : s # t => stage'[s] = stage[s] /\ url'[s] = url[s]
        /\ UNCHANGED <<policy, left, inFlight, answered, valved, astray, orphaned>>
    BY <1>1 DEF Start, GoTo, TaskTypes, cacheVars, history
  <2>. QED BY <2>1 DEF Live
<1>2. ASSUME NEW t \in Tasks, Ensure(t) PROVE FetchInv'
  <2> DEFINE h == url[t].host
  <2>1. /\ stage[t] = "ensure"
        /\ \A s \in Tasks : s # t => stage'[s] = stage[s]
        /\ UNCHANGED <<policy, left, url, answered, valved, astray, orphaned>>
    BY <1>2 DEF Ensure, GoTo, TaskTypes, history
  <2>2. CASE Live(h)
    <3>1. stage'[t] = "check" /\ inFlight' = inFlight
      BY <1>2, <2>2 DEF Ensure, GoTo, TaskTypes
    <3>. QED BY <1>0, <2>1, <2>2, <3>1 DEF Live
  <2>3. CASE ~Live(h) /\ h \notin inFlight
    <3>1. stage'[t] = "fetch" /\ inFlight' = inFlight \cup {h}
      BY <1>2, <2>3 DEF Ensure, GoTo, TaskTypes
    <3>2. t \notin astray
      BY <2>1
    <3>3. \A s \in Tasks : stage[s] = "fetch" /\ url[s].host = h => s \in astray
      BY <1>0, <2>3
    <3>4. MarkerAccounted'
      BY <1>0, <2>1, <3>1, <3>2
    <3>5. SingleFetch'
      BY <1>0, <2>1, <3>1, <3>3
    <3>. QED BY <2>1, <3>1, <3>4, <3>5 DEF Live
  <2>4. CASE ~Live(h) /\ h \in inFlight
    <3>1. stage'[t] \in {"ensure", "valve"} /\ inFlight' = inFlight
      BY <1>2, <2>4 DEF Ensure, GoTo, TaskTypes
    <3>. QED BY <2>1, <3>1 DEF Live
  <2>. QED BY <2>2, <2>3, <2>4
<1>3. ASSUME NEW t \in Tasks, Valve(t) PROVE FetchInv'
  <2> DEFINE h == url[t].host
  <2>1. /\ stage[t] = "valve"
        /\ \A s \in Tasks : s # t => stage'[s] = stage[s]
        /\ UNCHANGED <<policy, left, url, answered, astray, orphaned>>
    BY <1>3 DEF Valve, GoTo, TaskTypes
  <2>2. CASE Live(h)
    <3>1. stage'[t] = "check" /\ UNCHANGED <<inFlight, valved>>
      BY <1>3, <2>2 DEF Valve, GoTo, TaskTypes
    <3>. QED BY <1>0, <2>1, <2>2, <3>1 DEF Live
  <2>3. CASE ~Live(h)
    <3>1. /\ stage'[t] = "fetch" /\ inFlight' = inFlight \cup {h}
          /\ valved' = valved \cup {t}
      BY <1>3, <2>3 DEF Valve, GoTo, TaskTypes
    <3>2. t \notin astray
      BY <2>1
    <3>3. MarkerAccounted'
      BY <1>0, <2>1, <3>1, <3>2
    <3>4. SingleFetch'
      BY <1>0, <2>1, <3>1
    <3>. QED BY <2>1, <3>1, <3>3, <3>4 DEF Live
  <2>. QED BY <2>2, <2>3
<1>4. ASSUME NEW t \in Tasks, Store(t) PROVE FetchInv'
  <2> DEFINE h == url[t].host
  <2>1. /\ stage[t] = "fetch" /\ stage'[t] = "check" /\ url' = url
        /\ \A s \in Tasks : s # t => stage'[s] = stage[s]
        /\ inFlight' = inFlight \ {h} /\ orphaned' = orphaned \ {h}
        /\ astray' = (astray \cup Fetching(h)) \ {t}
        /\ valved' = valved \ {t} /\ answered' = answered \cup {h}
    BY <1>4 DEF Store, Unmarks, GoTo, TaskTypes
  <2>2. \A g \in Hosts : Live(g)' => g = h \/ Live(g)
    <3>1. PICK p \in Policy : Put(h, p)
      BY <1>4 DEF Store
    <3>. QED BY <3>1 DEF Put, Live
  <2>3. \A g \in Hosts : Live(g)' => g \in answered'
    BY <2>1, <2>2
  <2>4. MarkerAccounted'
    <3>. SUFFICES ASSUME NEW g \in Hosts
                  PROVE  g \in inFlight' <=> g \in orphaned' \/ Fetching(g)' \ astray' # {}
      OBVIOUS
    <3>1. CASE g = h
      BY <2>1, <3>1
    <3>2. CASE g # h
      BY <2>1, <3>2
    <3>. QED BY <3>1, <3>2
  <2>5. SingleFetch' /\ RobotsBeforePage'
    BY <1>0, <2>1
  <2>6. \A s \in valved' \cup astray' : s \in Tasks /\ stage'[s] = "fetch"
    BY <2>1
  <2>. QED BY <2>3, <2>4, <2>5, <2>6
<1>5. ASSUME NEW t \in Tasks, Panic(t) PROVE FetchInv'
  <2> DEFINE h == url[t].host
  <2>1. /\ stage[t] = "fetch" /\ stage'[t] = "idle"
        /\ \A s \in Tasks : s # t => stage'[s] = stage[s] /\ url'[s] = url[s]
        /\ UNCHANGED <<policy, left, inFlight, answered>>
        /\ orphaned' = IF t \in astray THEN orphaned ELSE orphaned \cup {h}
        /\ valved' = valved \ {t} /\ astray' = astray \ {t}
    BY <1>5 DEF Panic, Leave, GoTo, TaskTypes, cacheVars
  <2>2. t \notin astray => h \in inFlight
    BY <1>0, <2>1
  <2>3. MarkerAccounted'
    <3>1. CASE t \in astray
      BY <2>1, <3>1
    <3>2. CASE t \notin astray
      BY <2>1, <2>2, <3>2
    <3>. QED BY <3>1, <3>2
  <2>4. SingleFetch'
    BY <2>1
  <2>. QED BY <2>1, <2>3, <2>4 DEF Live
<1>6. ASSUME NEW t \in Tasks, Check(t) PROVE FetchInv'
  <2>1. /\ stage[t] = "check" /\ stage'[t] \in {"get", "idle"}
        /\ stage'[t] = "get" => url' = url
        /\ \A s \in Tasks : s # t => stage'[s] = stage[s] /\ url'[s] = url[s]
        /\ UNCHANGED <<policy, left, inFlight, answered, valved, astray, orphaned>>
    BY <1>6 DEF Check, Leave, GoTo, TaskTypes, cacheVars, history
  <2>. QED BY <2>1 DEF Live
<1>7. ASSUME NEW t \in Tasks, Got(t) PROVE FetchInv'
  <2>1. /\ stage[t] = "get" /\ stage'[t] = "idle"
        /\ \A s \in Tasks : s # t => stage'[s] = stage[s] /\ url'[s] = url[s]
        /\ UNCHANGED <<policy, left, inFlight, answered, valved, astray, orphaned>>
    BY <1>7 DEF Got, Leave, GoTo, TaskTypes, cacheVars, history
  <2>. QED BY <2>1 DEF Live
<1>8. CASE Tick
  <2>1. UNCHANGED <<policy, inFlight, stage, url, answered, valved, astray, orphaned>>
    BY <1>8 DEF Tick, history
  <2>2. \A h \in Hosts : Live(h)' => Live(h)
    BY <1>8, <2>1 DEF Tick, Live
  <2>. QED BY <2>1, <2>2
<1>9. CASE UNCHANGED gateVars
  BY <1>9 DEF gateVars, cacheVars, taskVars, history, Live
<1>. QED BY <1>1, <1>2, <1>3, <1>4, <1>5, <1>6, <1>7, <1>8, <1>9 DEF GateNext, Step

(* The facts the three theorems below share. *)
LEMMA FetchAlways == GateSpec => []FetchInv
<1>1. GateInit => TaskTypes /\ FetchInv
  BY TaskTypesInit, FetchInit
<1>2. TaskTypes /\ FetchInv /\ [GateNext]_gateVars => (TaskTypes /\ FetchInv)'
  BY TaskTypesStep, FetchStep
<1>. QED BY <1>1, <1>2, PTL DEF GateSpec

(* One robots.txt fetch per host at a time, besides those that came        *)
(* through the safety valve or lost their marker to the end of another.    *)
THEOREM OneFetchPerHost == GateSpec => []SingleFetch
BY FetchAlways, PTL DEF FetchInv

(* A host is marked exactly while a fetch runs that nobody has ended for,  *)
(* or after one has panicked until another ends.                           *)
THEOREM MarkersAccounted == GateSpec => []MarkerAccounted
BY FetchAlways, PTL DEF FetchInv

(* No task passes the gate before its host's robots.txt was answered. *)
THEOREM GateIsPassedAnswered == GateSpec => []RobotsBeforePage
BY FetchAlways, PTL DEF FetchInv

-----------------------------------------------------------------------------
(* The types and the ranges of the limiter's state. *)
RateTypeOK ==
  /\ known \in BOOLEAN /\ count \in 0..(PerWindow + 1) /\ start \in 0..Window
  /\ block \in 0..MaxBlock /\ lastReq \in 0..Old
  /\ at \in [Callers -> LimitPc] /\ now \in [Callers -> 0..MaxStall]
  /\ recent \in [0..(Window - 1) -> Nat]
  /\ latest \in 0..Delay /\ before \in [Callers -> 0..Delay]

LEMMA RateTypesInit == LimitInit => RateTypeOK
<1> SUFFICES ASSUME LimitInit PROVE RateTypeOK
  OBVIOUS
<1> USE RuleAssumption DEF LimitInit
<1>1. known \in BOOLEAN
  BY Zenon
<1>2. /\ count \in 0..(PerWindow + 1) /\ start \in 0..Window
      /\ block \in 0..MaxBlock /\ lastReq \in 0..Old /\ latest \in 0..Delay
  BY DEF Old
<1>3. /\ at \in [Callers -> LimitPc] /\ now \in [Callers -> 0..MaxStall]
      /\ recent \in [0..(Window - 1) -> Nat] /\ before \in [Callers -> 0..Delay]
  BY DEF LimitPc
<1>. QED BY <1>1, <1>2, <1>3 DEF RateTypeOK

LEMMA RateTypesStep == RateTypeOK /\ [LimitNext]_limitVars => RateTypeOK'
<1> SUFFICES ASSUME RateTypeOK, [LimitNext]_limitVars PROVE RateTypeOK'
  OBVIOUS
<1> USE RuleAssumption DEF RateTypeOK, Turn, limiter, records, LimitPc
<1>1. ASSUME NEW t \in Callers, Ask(t) PROVE RateTypeOK'
  BY <1>1 DEF Ask
<1>2. ASSUME NEW t \in Callers, CheckDelay(t) PROVE RateTypeOK'
  BY <1>2 DEF CheckDelay
<1>3. ASSUME NEW t \in Callers, AllowUnblocked(t) PROVE RateTypeOK'
  <2>1. /\ known' = TRUE /\ start' \in {0, start} /\ block' = 0
        /\ UNCHANGED <<lastReq, now, records>>
        /\ at' \in [Callers -> LimitPc]
        /\ recent' = recent \/ recent' = [recent EXCEPT ![0] = @ + 1]
    BY <1>3 DEF AllowUnblocked
  <2>2. count' \in 0..(PerWindow + 1)
    BY <1>3 DEF AllowUnblocked
  <2>3. recent' \in [0..(Window - 1) -> Nat]
    BY <2>1
  <2>. QED BY <2>1, <2>2, <2>3
<1>4. ASSUME NEW t \in Callers, DenyBlocked(t) \/ Respond(t) PROVE RateTypeOK'
  BY <1>4 DEF DenyBlocked, Respond
<1>5. ASSUME NEW t \in Callers, Record(t) PROVE RateTypeOK'
  BY <1>5 DEF Record, Old
<1>6. ASSUME NEW t \in Callers, TooManyRequests(t) PROVE RateTypeOK'
  BY <1>6 DEF TooManyRequests
<1>7. CASE Evict
  <2>1. known' \in BOOLEAN
    BY <1>7, Zenon DEF Evict
  <2>. QED BY <1>7, <2>1 DEF Evict
<1>8. CASE LimitTick
  <2>1. now' \in [Callers -> 0..MaxStall]
    BY <1>8 DEF LimitTick, Busy
  <2>2. recent' \in [0..(Window - 1) -> Nat]
    BY <1>8 DEF LimitTick
  <2>3. /\ start' \in 0..Window /\ lastReq' \in 0..Old /\ latest' \in 0..Delay
        /\ block' \in 0..MaxBlock
    BY <1>8 DEF LimitTick, Older, Old
  <2>. QED BY <1>8, <2>1, <2>2, <2>3 DEF LimitTick
<1>9. CASE UNCHANGED limitVars
  BY <1>9 DEF limitVars
<1>. QED BY <1>1, <1>2, <1>3, <1>4, <1>5, <1>6, <1>7, <1>8, <1>9 DEF LimitNext, CallStep

(* The types and the ranges of the limiter's state. *)
THEOREM RateTypes == LimitSpec => []RateTypeOK
BY RateTypesInit, RateTypesStep, PTL DEF LimitSpec

(* last_req is no older than the latest Record, but for the stall of the   *)
(* call that wrote it, and so for what a call knew of it when it began.    *)
DelayInv ==
  /\ lastReq <= latest + MaxStall \/ latest = Delay
  /\ \A t \in Callers : at[t] = "delay"
       => lastReq <= before[t] + now[t] + MaxStall \/ before[t] = Delay

LEMMA DelayInvInit == LimitInit => DelayInv
BY DEF LimitInit, DelayInv

LEMMA DelayInvStep == RateTypeOK /\ DelayInv /\ [LimitNext]_limitVars => DelayInv'
<1> SUFFICES ASSUME RateTypeOK, DelayInv, [LimitNext]_limitVars PROVE DelayInv'
  OBVIOUS
<1> USE RuleAssumption DEF RateTypeOK, DelayInv, Turn, limiter, records
<1>1. ASSUME NEW t \in Callers, Ask(t) PROVE DelayInv'
  BY <1>1 DEF Ask
<1>2. ASSUME NEW t \in Callers, CheckDelay(t) PROVE DelayInv'
  BY <1>2 DEF CheckDelay
<1>3. ASSUME NEW t \in Callers,
             AllowUnblocked(t) \/ DenyBlocked(t) \/ Respond(t) \/ TooManyRequests(t)
      PROVE DelayInv'
  <2>1. /\ UNCHANGED <<lastReq, now, latest, before>>
        /\ \A u \in Callers : at'[u] = "delay" => at[u] = "delay"
    BY <1>3 DEF AllowUnblocked, DenyBlocked, Respond, TooManyRequests
  <2>. QED BY <2>1
<1>5. ASSUME NEW t \in Callers, Record(t) PROVE DelayInv'
  <2>1. /\ lastReq' = now[t] /\ now[t] <= MaxStall /\ latest' = 0
        /\ UNCHANGED <<now, before>>
        /\ \A u \in Callers : at'[u] = "delay" => at[u] = "delay"
    BY <1>5 DEF Record
  <2>. QED BY <2>1
<1>7. CASE Evict
  BY <1>7 DEF Evict
<1>8. CASE LimitTick
  <2>1. lastReq' <= lastReq + 1 /\ (latest' = Delay \/ (latest' = latest + 1 /\ latest # Delay))
    BY <1>8 DEF LimitTick, Older, Old
  <2>2. /\ at' = at /\ before' = before
        /\ \A t \in Callers : at[t] = "delay" => now'[t] = now[t] + 1
    BY <1>8 DEF LimitTick, Busy
  <2>3. lastReq' \in Nat /\ latest' \in Nat
    BY <1>8 DEF LimitTick, Older, Old
  <2>4. lastReq' <= latest' + MaxStall \/ latest' = Delay
    <3>1. lastReq \in Nat /\ latest \in Nat /\ MaxStall \in Nat
      BY DEF Old
    <3>2. CASE latest' = Delay
      BY <3>2
    <3>3. CASE latest' = latest + 1 /\ latest # Delay
      BY <2>1, <2>3, <3>1, <3>3
    <3>. QED BY <2>1, <3>2, <3>3
  <2>5. ASSUME NEW t \in Callers, at'[t] = "delay"
        PROVE  lastReq' <= before'[t] + now'[t] + MaxStall \/ before'[t] = Delay
    <3>1. /\ before'[t] = before[t] /\ now'[t] = now[t] + 1 /\ at[t] = "delay"
          /\ before[t] \in Nat /\ now[t] \in Nat /\ lastReq \in Nat
      BY <2>2, <2>5 DEF Old
    <3>2. lastReq <= before[t] + now[t] + MaxStall \/ before[t] = Delay
      BY <3>1
    <3>3. lastReq' <= lastReq + 1 /\ lastReq' \in Nat /\ MaxStall \in Nat
      BY <2>1, <2>3
    <3>. QED BY ONLY <3>1, <3>2, <3>3
  <2>. QED BY <2>4, <2>5
<1>9. CASE UNCHANGED limitVars
  BY <1>9 DEF limitVars
<1>. QED BY <1>1, <1>2, <1>3, <1>5, <1>7, <1>8, <1>9 DEF LimitNext, CallStep

LEMMA DelayAlways == LimitSpec => [](RateTypeOK /\ DelayInv)
<1>1. LimitInit => RateTypeOK /\ DelayInv
  BY RateTypesInit, DelayInvInit
<1>2. RateTypeOK /\ DelayInv /\ [LimitNext]_limitVars => (RateTypeOK /\ DelayInv)'
  BY RateTypesStep, DelayInvStep
<1>. QED BY <1>1, <1>2, PTL DEF LimitSpec

(* A call that passes the test of the delay was told so by an entry that   *)
(* old, or by none, and either way the latest Record is not newer.         *)
LEMMA DelayPassed ==
  ASSUME RateTypeOK, DelayInv, [LimitNext]_limitVars,
         NEW t \in Callers, at[t] = "delay", at'[t] = "limiter"
  PROVE  before[t] + MaxStall >= Delay
<1> USE RuleAssumption DEF RateTypeOK, DelayInv, Turn, limiter, records
<1>1. CheckDelay(t)
  <2>1. ASSUME NEW u \in Callers, u # t, CallStep(u) PROVE FALSE
    BY <2>1 DEF CallStep, Ask, CheckDelay, AllowUnblocked, DenyBlocked, Record, Respond, TooManyRequests
  <2>2. CallStep(t) => CheckDelay(t)
    BY DEF CallStep, Ask, AllowUnblocked, DenyBlocked, Record, Respond, TooManyRequests
  <2>3. ~Evict /\ ~LimitTick /\ ~UNCHANGED limitVars
    BY DEF Evict, LimitTick, limitVars
  <2>. QED BY <2>1, <2>2, <2>3 DEF LimitNext
<1>2. PICK jitter \in 0..Jitter : lastReq = Old \/ lastReq >= now[t] + Delay + jitter
  BY <1>1 DEF CheckDelay, Old
<1>3. now[t] \in 0..MaxStall /\ before[t] \in 0..Delay
  OBVIOUS
<1>4. lastReq <= before[t] + now[t] + MaxStall \/ before[t] = Delay
  OBVIOUS
<1>. QED BY <1>2, <1>3, <1>4 DEF Old

(* min_delay is kept towards what was recorded before the call, within the *)
(* stall of another call.                                                  *)
THEOREM DelayKept == LimitSpec => DelayKeptUpToStall
<1>1. RateTypeOK /\ DelayInv /\ [LimitNext]_limitVars
        => [\A t \in Callers : at[t] = "delay" /\ at'[t] = "limiter"
              => before[t] + MaxStall >= Delay]_limitVars
  BY DelayPassed
<1>. QED BY <1>1, DelayAlways, PTL DEF LimitSpec, DelayKeptUpToStall

(***************************************************************************)
(* How many are admitted.  A span of Window ticks meets two windows, laid  *)
(* end to end: Counted is the share of the current one, and Share bounds   *)
(* what was admitted before it.  Unless the limiter was evicted meanwhile, *)
(* that is what the window before admitted; and an eviction forgets no     *)
(* admission but those of calls that have not written last_req yet.        *)
(***************************************************************************)
Share == IF Cardinality(Callers) > PerWindow THEN Cardinality(Callers) ELSE PerWindow
Counted == IF count < PerWindow THEN count ELSE PerWindow
InWindow == {r \in Admissions : r[1] < start}
Forgettable == {r \in Admissions : r[1] + MaxStall < lastReq}
Unrecorded == {t \in Callers : at[t] = "record"}

WindowInv ==
  /\ IsFiniteSet(Admissions)
  /\ known => Admitted <= Share + Counted
  /\ known => Cardinality(InWindow) <= Counted
  /\ ~known => Admitted <= Share
  /\ Cardinality(Forgettable) <= Cardinality(Unrecorded)

LEMMA ShareType == /\ Share \in Nat /\ Cardinality(Callers) \in Nat
                   /\ PerWindow <= Share /\ Cardinality(Callers) <= Share
<1>1. Cardinality(Callers) \in Nat /\ PerWindow \in Nat
  BY RuleAssumption, FS_CardinalityType
<1>. QED BY <1>1 DEF Share

LEMMA AdmissionsAre ==
  \A r : r \in Admissions <=> \E i \in 0..(Window - 1) : \E k \in 1..recent[i] : r = <<i, k>>
BY DEF Admissions

LEMMA AdmissionsPrimed ==
  \A r : r \in Admissions' <=> \E i \in 0..(Window - 1) : \E k \in 1..recent'[i] : r = <<i, k>>
BY DEF Admissions

LEMMA AdmissionTypes ==
  ASSUME RateTypeOK
  PROVE  \A r \in Admissions : r = <<r[1], r[2]>> /\ r[1] \in 0..(Window - 1) /\ r[2] \in Nat
BY DEF Admissions, RateTypeOK

(* A part of a finite set is finite, and no larger. *)
LEMMA FinitePart ==
  ASSUME NEW S, IsFiniteSet(S), NEW T, T \subseteq S
  PROVE  /\ IsFiniteSet(T) /\ Cardinality(T) \in Nat /\ Cardinality(S) \in Nat
         /\ Cardinality(T) <= Cardinality(S)
BY FS_Subset, FS_CardinalityType

LEMMA AddOne ==
  ASSUME NEW S, IsFiniteSet(S), NEW x
  PROVE  /\ IsFiniteSet(S \cup {x}) /\ Cardinality(S) \in Nat /\ Cardinality(S \cup {x}) \in Nat
         /\ Cardinality(S \cup {x}) <= Cardinality(S) + 1
         /\ x \notin S => Cardinality(S \cup {x}) = Cardinality(S) + 1
<1>1. /\ IsFiniteSet(S \cup {x}) /\ Cardinality(S) \in Nat /\ Cardinality(S \cup {x}) \in Nat
  BY FS_AddElement, FS_CardinalityType
<1>2. CASE x \in S
  <2>1. S \cup {x} = S
    BY <1>2
  <2>2. Cardinality(S \cup {x}) = Cardinality(S)
    BY <2>1
  <2>. QED BY <1>1, <1>2, <2>2
<1>3. CASE x \notin S
  BY <1>1, <1>3, FS_AddElement
<1>. QED BY <1>2, <1>3

(* What the cardinalities of WindowInv are, and what they bound. *)
LEMMA Counts ==
  ASSUME RateTypeOK, IsFiniteSet(Admissions)
  PROVE  /\ Admitted \in Nat /\ Counted \in 0..PerWindow
         /\ Cardinality(InWindow) \in Nat /\ Cardinality(InWindow) <= Admitted
         /\ Cardinality(Forgettable) \in Nat
         /\ IsFiniteSet(Unrecorded) /\ Cardinality(Unrecorded) \in 0..Cardinality(Callers)
<1>1. InWindow \subseteq Admissions /\ Forgettable \subseteq Admissions
  BY DEF InWindow, Forgettable
<1>2. Unrecorded \subseteq Callers /\ IsFiniteSet(Callers)
  BY RuleAssumption DEF Unrecorded
<1>3. Counted \in 0..PerWindow
  BY RuleAssumption DEF Counted, RateTypeOK
<1>4. /\ Cardinality(InWindow) \in Nat /\ Cardinality(InWindow) <= Admitted
      /\ Admitted \in Nat /\ Cardinality(Forgettable) \in Nat
  BY <1>1, FinitePart DEF Admitted
<1>5. IsFiniteSet(Unrecorded) /\ Cardinality(Unrecorded) \in 0..Cardinality(Callers)
  BY <1>2, FinitePart
<1>. QED BY <1>3, <1>4, <1>5

(* A tick makes admissions older, and drops those that leave the span. *)
LEMMA Shifted ==
  ASSUME NEW T, IsFiniteSet(T), NEW S,
         \A r \in S : r = <<r[1], r[2]>> /\ r[1] \in Int /\ <<r[1] - 1, r[2]>> \in T
  PROVE  IsFiniteSet(S) /\ Cardinality(S) <= Cardinality(T)
<1> DEFINE f == [r \in S |-> <<r[1] - 1, r[2]>>]
<1>1. f \in Injection(S, T)
  <2>1. f \in [S -> T]
    OBVIOUS
  <2>2. ASSUME NEW r \in S, NEW s \in S, f[r] = f[s] PROVE r = s
    <3>1. r[1] - 1 = s[1] - 1 /\ r[2] = s[2] /\ r[1] \in Int /\ s[1] \in Int
      BY <2>2
    <3>2. r[1] = s[1]
      BY <3>1
    <3>. QED BY <3>1, <3>2
  <2>. QED BY <2>1, <2>2 DEF Injection, IsInjective
<1>. QED BY <1>1, FS_Injection

LEMMA WindowInvInit == LimitInit => WindowInv
<1> SUFFICES ASSUME LimitInit PROVE WindowInv
  OBVIOUS
<1>1. Admissions = {}
  <2>1. \A i \in 0..(Window - 1) : recent[i] = 0
    BY DEF LimitInit
  <2>2. \A i \in 0..(Window - 1) : 1..recent[i] = {}
    BY <2>1
  <2>. QED BY <2>2 DEF Admissions
<1>2. Forgettable = {} /\ Unrecorded = {}
  BY <1>1 DEF Forgettable, Unrecorded, LimitInit
<1>3. IsFiniteSet(Admissions) /\ Admitted = 0 /\ known = FALSE
  BY <1>1, FS_EmptySet DEF Admitted, LimitInit
<1>4. Cardinality(Forgettable) <= Cardinality(Unrecorded)
  BY <1>2, FS_EmptySet
<1>. QED BY <1>3, <1>4, ShareType DEF WindowInv

(* A step that leaves the limiter, its entry and who is to write it alone. *)
LEMMA NothingCounted ==
  ASSUME WindowInv, UNCHANGED <<limiter, lastReq, recent>>, Unrecorded' = Unrecorded
  PROVE  WindowInv'
BY DEF WindowInv, Admitted, Admissions, Counted, InWindow, Forgettable, limiter

(* A call is admitted, in a new window or in one with room for it. *)
LEMMA OneAdmitted ==
  ASSUME RateTypeOK, WindowInv, NEW t \in Callers, AllowUnblocked(t), recent' # recent
  PROVE  WindowInv'
<1> DEFINE counted == IF NewWindow THEN 0 ELSE count
           r == <<0, recent[0] + 1>>
<1> USE RuleAssumption DEF RateTypeOK
<1>1. /\ at[t] = "limiter" /\ counted < PerWindow /\ known' = TRUE
      /\ start' = IF NewWindow THEN 0 ELSE start
      /\ count' = counted + 1 /\ lastReq' = lastReq
      /\ at' = [at EXCEPT ![t] = "record"] /\ recent' = [recent EXCEPT ![0] = @ + 1]
  BY DEF AllowUnblocked, Turn
<1>2. /\ 0 \in 0..(Window - 1) /\ recent[0] \in Nat
      /\ \A a \in Admissions : a[1] \in 0..(Window - 1)
  <2>1. \A a \in Admissions : a[1] \in 0..(Window - 1)
    BY AdmissionTypes
  <2>2. 0 \in 0..(Window - 1) /\ recent[0] \in Nat
    OBVIOUS
  <2>. QED BY <2>1, <2>2
<1>3. Admissions' = Admissions \cup {r} /\ r \notin Admissions
  <2>1. recent'[0] = recent[0] + 1 /\ \A i \in 1..(Window - 1) : recent'[i] = recent[i]
    BY <1>1
  <2>2. 1..recent'[0] = (1..recent[0]) \cup {recent[0] + 1} /\ recent[0] + 1 \notin 1..recent[0]
    BY <1>2, <2>1
  <2>3. \A s : s \in Admissions'
                <=> \E i \in 0..(Window - 1) : \E k \in 1..recent'[i] : s = <<i, k>>
    BY AdmissionsPrimed
  <2>4. ASSUME NEW s \in Admissions' PROVE s \in Admissions \cup {r}
    <3>1. PICK i \in 0..(Window - 1), k \in Nat : k \in 1..recent'[i] /\ s = <<i, k>>
      BY <2>3
    <3>2. CASE i = 0
      BY <2>2, <3>1, <3>2, AdmissionsAre
    <3>3. CASE i # 0
      BY <2>1, <3>1, <3>3, AdmissionsAre
    <3>. QED BY <3>2, <3>3
  <2>5. ASSUME NEW s \in Admissions PROVE s \in Admissions'
    <3>1. PICK i \in 0..(Window - 1), k \in Nat : k \in 1..recent[i] /\ s = <<i, k>>
      BY AdmissionsAre
    <3>2. k \in 1..recent'[i]
      BY <1>2, <2>1, <2>2, <3>1
    <3>. QED BY <2>3, <3>1, <3>2
  <2>6. r \in Admissions'
    BY <1>2, <2>2, <2>3
  <2>7. r \notin Admissions
    BY <2>2, AdmissionsAre
  <2>. QED BY <2>4, <2>5, <2>6, <2>7
<1>4. /\ IsFiniteSet(Admissions') /\ Admitted' = Admitted + 1
  BY <1>3, AddOne DEF WindowInv, Admitted
<1>5. /\ Unrecorded' = Unrecorded \cup {t} /\ t \notin Unrecorded
  BY <1>1 DEF Unrecorded
<1>6. Forgettable' \subseteq Forgettable \cup {r}
  BY <1>1, <1>3 DEF Forgettable
<1>7. Cardinality(Forgettable') <= Cardinality(Unrecorded')
  <2>1. /\ Cardinality(Forgettable) \in Nat /\ IsFiniteSet(Forgettable)
        /\ Cardinality(Unrecorded) \in Nat /\ IsFiniteSet(Unrecorded)
    BY Counts, FinitePart DEF WindowInv, Forgettable
  <2>2. Cardinality(Unrecorded') = Cardinality(Unrecorded) + 1
    BY <1>5, <2>1, AddOne
  <2>3. /\ IsFiniteSet(Forgettable \cup {r})
        /\ Cardinality(Forgettable \cup {r}) \in Nat
        /\ Cardinality(Forgettable \cup {r}) <= Cardinality(Forgettable) + 1
    BY <2>1, AddOne
  <2>4. Cardinality(Forgettable') \in Nat /\ Cardinality(Forgettable') <= Cardinality(Forgettable \cup {r})
    BY <1>6, <2>3, FinitePart
  <2>. QED BY <2>1, <2>2, <2>3, <2>4 DEF WindowInv
<1>8. CASE NewWindow
  <2>1. Counted' = 1 /\ start' = 0
    BY <1>1, <1>8 DEF Counted
  <2>2. InWindow' = {}
    BY <1>2, <1>3, <2>1 DEF InWindow
  <2>3. Admitted <= Share /\ Admitted \in Nat
    <3>1. CASE ~known
      BY <3>1, Counts DEF WindowInv
    <3>2. CASE known
      <4>1. InWindow = Admissions
        BY <1>2, <1>8, <3>2 DEF InWindow, NewWindow
      <4>2. Admitted <= Counted /\ Counted \in 0..PerWindow /\ Admitted \in Nat
        BY <3>2, <4>1, Counts DEF WindowInv, Admitted
      <4>. QED BY <4>2, ShareType
    <3>. QED BY <3>1, <3>2
  <2>4. Admitted' <= Share + 1
    BY <1>4, <2>3, ShareType
  <2>. QED BY <1>1, <1>4, <1>7, <2>1, <2>2, <2>4, FS_EmptySet DEF WindowInv
<1>9. CASE ~NewWindow
  <2>1. known /\ start' = start /\ Counted' = Counted + 1 /\ Counted \in 0..PerWindow
    BY <1>1, <1>9, Counts DEF Counted, NewWindow, WindowInv
  <2>2. InWindow' \subseteq InWindow \cup {r}
    BY <1>3, <2>1 DEF InWindow
  <2>3. IsFiniteSet(InWindow) /\ Cardinality(InWindow) \in Nat
    BY FinitePart DEF InWindow, WindowInv
  <2>4. /\ IsFiniteSet(InWindow \cup {r}) /\ Cardinality(InWindow \cup {r}) \in Nat
        /\ Cardinality(InWindow \cup {r}) <= Cardinality(InWindow) + 1
    BY <2>3, AddOne
  <2>5. Cardinality(InWindow') \in Nat /\ Cardinality(InWindow') <= Cardinality(InWindow \cup {r})
    BY <2>2, <2>4, FinitePart
  <2>6. Cardinality(InWindow') <= Counted'
    BY <2>1, <2>3, <2>4, <2>5 DEF WindowInv
  <2>7. Admitted' <= Share + Counted'
    <3>1. Admitted \in Nat /\ Admitted <= Share + Counted /\ Share \in Nat
      BY <2>1, Counts, ShareType DEF WindowInv
    <3>. QED BY <1>4, <2>1, <3>1
  <2>. QED BY <1>1, <1>4, <1>7, <2>6, <2>7 DEF WindowInv
<1>. QED BY <1>8, <1>9

LEMMA WindowInvStep == RateTypeOK /\ WindowInv /\ [LimitNext]_limitVars => WindowInv'
<1> SUFFICES ASSUME RateTypeOK, WindowInv, [LimitNext]_limitVars PROVE WindowInv'
  OBVIOUS
<1>0. \A r \in Admissions : r[1] \in 0..(Window - 1)
  BY AdmissionTypes
<1> USE RuleAssumption DEF RateTypeOK, Turn
<1>1. ASSUME NEW t \in Callers, Ask(t) \/ CheckDelay(t) \/ DenyBlocked(t) \/ Respond(t)
      PROVE  WindowInv'
  <2>1. UNCHANGED <<limiter, lastReq, recent>> /\ Unrecorded' = Unrecorded
    BY <1>1 DEF Ask, CheckDelay, DenyBlocked, Respond, Unrecorded
  <2>. QED BY <2>1, NothingCounted
<1>2. ASSUME NEW t \in Callers, AllowUnblocked(t) PROVE WindowInv'
  <2>1. CASE recent' # recent
    BY <1>2, <2>1, OneAdmitted
  <2>2. CASE recent' = recent
    <3>1. recent'[0] # recent[0] + 1
      BY <2>2
    <3>2. /\ ~NewWindow /\ count >= PerWindow /\ at' = [at EXCEPT ![t] = "idle"] /\ at[t] = "limiter"
          /\ known' /\ start' = start /\ count' >= PerWindow /\ lastReq' = lastReq
      BY <1>2, <3>1 DEF AllowUnblocked
    <3>4. Counted' = Counted /\ known
      <4>1. count \in Nat /\ count' \in Nat
        BY <1>2, <3>2 DEF AllowUnblocked
      <4>. QED BY <3>2, <4>1 DEF Counted, NewWindow
    <3>3. Unrecorded' = Unrecorded
      BY <3>2 DEF Unrecorded
    <3>. QED BY <2>2, <3>2, <3>3, <3>4 DEF WindowInv, Admitted, Admissions, InWindow, Forgettable
  <2>. QED BY <2>1, <2>2
<1>3. ASSUME NEW t \in Callers, Record(t) PROVE WindowInv'
  <2>1. /\ UNCHANGED <<limiter, recent>> /\ lastReq' = now[t]
        /\ Admissions' = Admissions
    BY <1>3 DEF Record, Admissions
  <2>2. Forgettable' = {}
    BY <1>0, <2>1 DEF Forgettable
  <2>3. Unrecorded' \subseteq Callers
    BY DEF Unrecorded
  <2>4. Cardinality(Forgettable') <= Cardinality(Unrecorded')
    BY <2>2, <2>3, FS_EmptySet, FinitePart
  <2>. QED BY <2>1, <2>4 DEF WindowInv, Admitted, InWindow, Counted, limiter
<1>4. ASSUME NEW t \in Callers, TooManyRequests(t) PROVE WindowInv'
  <2>1. /\ recent' = recent /\ lastReq' = lastReq /\ Unrecorded' = Unrecorded /\ known' = TRUE
        /\ Admissions' = Admissions
    BY <1>4 DEF TooManyRequests, Unrecorded, Admissions
  <2>2. Forgettable' = Forgettable
    BY <2>1 DEF Forgettable
  <2>3. CASE known
    <3>1. start' = start /\ count' = count
      BY <1>4, <2>3 DEF TooManyRequests
    <3>. QED BY <2>1, <2>2, <2>3, <3>1 DEF WindowInv, Admitted, InWindow, Counted
  <2>4. CASE ~known
    <3>1. start' = 0 /\ Counted' = 0
      BY <1>4, <2>4 DEF TooManyRequests, Counted
    <3>2. InWindow' = {}
      BY <1>0, <2>1, <3>1 DEF InWindow
    <3>3. Admitted' <= Share + 0
      BY <2>1, <2>4, Counts, ShareType DEF WindowInv, Admitted
    <3>. QED BY <2>1, <2>2, <3>1, <3>2, <3>3, FS_EmptySet DEF WindowInv
  <2>. QED BY <2>3, <2>4
<1>5. CASE Evict
  <2>1. /\ lastReq = Old /\ known' = FALSE /\ lastReq' = lastReq
        /\ Admissions' = Admissions /\ Unrecorded' = Unrecorded
    BY <1>5 DEF Evict, Admissions, Unrecorded
  <2>2. Forgettable = Admissions
    BY <1>0, <2>1 DEF Forgettable, Old
  <2>3. Admitted <= Cardinality(Callers)
    <3>1. Admitted <= Cardinality(Unrecorded)
      BY <2>2 DEF WindowInv, Admitted
    <3>. QED BY <3>1, Counts, ShareType DEF WindowInv
  <2>4. Admitted' <= Share
    BY <2>1, <2>3, Counts, ShareType DEF WindowInv, Admitted
  <2>. QED BY <2>1, <2>4 DEF WindowInv, Forgettable
<1>6. CASE LimitTick
  <2>1. /\ UNCHANGED <<known, count>> /\ Unrecorded' = Unrecorded
        /\ known => start' <= start + 1 /\ start' \in Nat
        /\ lastReq' <= lastReq + 1 /\ lastReq' \in Nat
    BY <1>6 DEF LimitTick, Unrecorded, Older, Old
  <2>2. ASSUME NEW r \in Admissions'
        PROVE  /\ r = <<r[1], r[2]>> /\ r[1] \in Int /\ r[1] - 1 \in 0..(Window - 1)
               /\ <<r[1] - 1, r[2]>> \in Admissions
    <3>1. PICK i \in 0..(Window - 1), k \in Nat : k \in 1..recent'[i] /\ r = <<i, k>>
      BY <1>6 DEF Admissions
    <3>2. i # 0 /\ recent'[i] = recent[i - 1] /\ i - 1 \in 0..(Window - 1)
      BY <1>6, <3>1 DEF LimitTick
    <3>. QED BY <3>1, <3>2, AdmissionsAre
  <2>3. IsFiniteSet(Admissions') /\ Admitted' <= Admitted
    BY <2>2, Shifted DEF WindowInv, Admitted
  <2>4. known => Cardinality(InWindow') <= Cardinality(InWindow)
    <3>1. ASSUME known, NEW r \in InWindow'
          PROVE  r = <<r[1], r[2]>> /\ r[1] \in Int /\ <<r[1] - 1, r[2]>> \in InWindow
      <4>1. r \in Admissions' /\ r[1] < start'
        BY <3>1 DEF InWindow
      <4>2. r[1] \in Int /\ r[1] - 1 < start /\ <<r[1] - 1, r[2]>> \in Admissions /\ r = <<r[1], r[2]>>
        <5>1. start \in Nat /\ start' <= start + 1 /\ start' \in Nat /\ r[1] \in Int
          <6>1. start \in Nat
            OBVIOUS
          <6>2. r[1] \in Int
            BY <2>2, <4>1
          <6>. QED BY <2>1, <3>1, <6>1, <6>2
        <5>2. r[1] - 1 < start
          BY <4>1, <5>1
        <5>. QED BY <2>2, <4>1, <5>2
      <4>. QED BY <4>2 DEF InWindow
    <3>2. IsFiniteSet(InWindow)
      BY FinitePart DEF InWindow, WindowInv
    <3>. QED BY <3>1, <3>2, Shifted
  <2>5. Cardinality(Forgettable') <= Cardinality(Forgettable)
    <3>1. ASSUME NEW r \in Forgettable'
          PROVE  r = <<r[1], r[2]>> /\ r[1] \in Int /\ <<r[1] - 1, r[2]>> \in Forgettable
      <4>1. r \in Admissions' /\ r[1] + MaxStall < lastReq'
        BY <3>1 DEF Forgettable
      <4>2. r[1] - 1 + MaxStall < lastReq /\ r[1] \in Int
        <5>1. lastReq \in Nat /\ lastReq' <= lastReq + 1 /\ lastReq' \in Nat /\ r[1] \in Int
          <6>1. lastReq \in Nat
            BY DEF Old
          <6>2. r[1] \in Int
            BY <2>2, <4>1
          <6>. QED BY <2>1, <6>1, <6>2
        <5>. QED BY <4>1, <5>1
      <4>. QED BY <2>2, <4>1, <4>2 DEF Forgettable
    <3>2. IsFiniteSet(Forgettable)
      BY FinitePart DEF Forgettable, WindowInv
    <3>. QED BY <3>1, <3>2, Shifted
  <2>6. /\ Admitted' \in Nat /\ Admitted \in Nat /\ Counted' = Counted /\ Counted \in 0..PerWindow
        /\ Cardinality(InWindow) \in Nat /\ Cardinality(InWindow') \in Nat
        /\ Cardinality(Forgettable) \in Nat /\ Cardinality(Forgettable') \in Nat
        /\ Cardinality(Unrecorded) \in Nat
    <3>1. InWindow' \subseteq Admissions' /\ Forgettable' \subseteq Admissions'
      BY DEF InWindow, Forgettable
    <3>2. /\ Cardinality(InWindow') \in Nat /\ Cardinality(Forgettable') \in Nat
          /\ Cardinality(Admissions') \in Nat
      BY <2>3, <3>1, FinitePart
    <3>. QED BY <2>1, <3>2, Counts DEF Counted, WindowInv, Admitted
  <2>7. known' => Admitted' <= Share + Counted' /\ Cardinality(InWindow') <= Counted'
    BY <2>1, <2>3, <2>4, <2>6, ShareType DEF WindowInv
  <2>8. ~known' => Admitted' <= Share
    BY <2>1, <2>3, <2>6, ShareType DEF WindowInv
  <2>9. Cardinality(Forgettable') <= Cardinality(Unrecorded')
    BY <2>1, <2>5, <2>6 DEF WindowInv
  <2>. QED BY <2>3, <2>7, <2>8, <2>9 DEF WindowInv
<1>7. CASE UNCHANGED limitVars
  <2>1. UNCHANGED <<limiter, lastReq, recent>> /\ Unrecorded' = Unrecorded
    BY <1>7 DEF limitVars, Unrecorded
  <2>. QED BY <2>1, NothingCounted
<1>. QED BY <1>1, <1>2, <1>3, <1>4, <1>5, <1>6, <1>7 DEF LimitNext, CallStep

(* No span of Window ticks sees more admissions than the limit, and once   *)
(* more the limit, or the number of callers if they are more.              *)
THEOREM AdmissionsBounded == LimitSpec => []WindowBound
<1>1. LimitInit => RateTypeOK /\ WindowInv
  BY RateTypesInit, WindowInvInit
<1>2. RateTypeOK /\ WindowInv /\ [LimitNext]_limitVars => (RateTypeOK /\ WindowInv)'
  BY RateTypesStep, WindowInvStep
<1>3. RateTypeOK /\ WindowInv => WindowBound
  <2> SUFFICES ASSUME RateTypeOK, WindowInv PROVE WindowBound
    OBVIOUS
  <2>1. Admitted \in Nat /\ Counted \in 0..PerWindow
    BY Counts DEF WindowInv
  <2>2. Admitted <= PerWindow + Share
    BY <2>1, ShareType, RuleAssumption DEF WindowInv
  <2>. QED BY <2>2 DEF WindowBound, Share
<1>. QED BY <1>1, <1>2, <1>3, PTL DEF LimitSpec

-----------------------------------------------------------------------------
(* The chain of one request: its types, how often it is sent and solved,   *)
(* that a POST is not processed twice, and that its answer is handed up.   *)
USE RetryAssumption

-----------------------------------------------------------------------------
ResultType == [tag : Tag, what : Answer \cup {"cooldown", "failed"}]

LEMMA ResultTyped ==
  ASSUME NEW tag \in Tag, NEW what \in Answer \cup {"cooldown", "failed"}
  PROVE  /\ Result(tag, what) \in ResultType
         /\ Result(tag, what).tag = tag /\ Result(tag, what).what = what
BY DEF Result, ResultType

LEMMA Classified == ASSUME NEW a \in Answer PROVE Classify(a) \in ResultType
BY ResultTyped DEF Classify, Answer, Tag

LEMMA AttemptedTyped == ASSUME result \in ResultType PROVE Attempted \in ResultType
BY DEF Attempted, Result, ResultType, Tag, RetryStatus, Answer

LEMMA CapTyped == SendCap \in Nat /\ SendCap >= 4 * (MaxRetries + 1)
BY DEF SendCap

LEMMA UpTyped ==
  ASSUME NEW cap \in Nat, NEW n \in 0..cap
  PROVE  Up(n, cap) \in 0..cap /\ Up(n, cap) <= n + 1
BY DEF Up

LEMMA TypeInit == Init => TypeOK
<1>. SUFFICES ASSUME Init PROVE TypeOK
  OBVIOUS
<1>1. Result("none", "ok") \in ResultType
  BY ResultTyped DEF Tag, Answer, Served
<1>2. 0 \in 0..SendCap
  BY CapTyped
<1>3. result \in ResultType /\ last \in Answer
  BY <1>1 DEF Init, Answer, Served
<1>4. cfg \in [Layer -> BOOLEAN] /\ req \in [method : Method, onion : BOOLEAN]
  BY DEF Init
<1>5. /\ pc \in Pc /\ pass \in {"cold", "cached", "resend"} /\ attempt \in 0..MaxRetries
      /\ ua \in {"own", "cached", "fresh"}
      /\ sends \in 0..SendCap /\ solves \in 0..2 /\ processed \in 0..2
  BY <1>2 DEF Init, Pc
<1>6. proxied \in BOOLEAN /\ marked \in BOOLEAN /\ mistaken \in BOOLEAN
  BY DEF Init
<1>. QED BY <1>3, <1>4, <1>5, <1>6 DEF TypeOK, ResultType

LEMMA TypeStep == TypeOK /\ [Next]_vars => TypeOK'
<1>. SUFFICES ASSUME TypeOK, [Next]_vars PROVE TypeOK'
  OBVIOUS
<1>0. result \in ResultType
  BY DEF TypeOK, ResultType
<1>1. CASE Limit
  BY <1>1 DEF Limit, TypeOK, Pc
<1>2. CASE Enter
  <2>1. Result("solver", "cooldown") \in ResultType
    BY ResultTyped DEF Tag
  <2>. QED BY <1>2, <2>1 DEF Enter, TypeOK, Pc, ResultType
<1>3. CASE Send
  <2>1. PICK a \in Answer :
          /\ result' = Classify(a) /\ last' = a
          /\ processed' = IF a \in Challenge THEN processed ELSE Up(processed, 2)
          /\ mistaken' = (mistaken \/ Classify(a) = Result("cloudflare", "widget"))
    BY <1>3 DEF Send
  <2>2. result' \in ResultType
    BY <2>1, Classified
  <2>3. processed' \in 0..2
    BY <2>1, UpTyped DEF TypeOK
  <2>4. sends' \in 0..SendCap
    BY <1>3, UpTyped, CapTyped DEF TypeOK, Send
  <2>5. mistaken' \in BOOLEAN
    BY <2>1 DEF TypeOK
  <2>. QED BY <1>3, <2>1, <2>2, <2>3, <2>4, <2>5 DEF Send, TypeOK, Pc, ResultType
<1>4. CASE Residential
  <2>1. Result("ok", result.what) \in ResultType
    BY <1>0, ResultTyped DEF ResultType, Tag
  <2>2. result' \in ResultType /\ proxied' \in BOOLEAN /\ pc' \in Pc
    BY <1>0, <1>4, <2>1 DEF Residential, Pc
  <2>. QED BY <1>4, <2>2 DEF Residential, TypeOK, ResultType
<1>5. CASE Retry
  <2>1. result' \in ResultType /\ pc' \in Pc
    BY <1>0, <1>5, AttemptedTyped DEF Retry, Pc
  <2>2. attempt' \in 0..MaxRetries
    BY <1>5 DEF Retry, TypeOK
  <2>. QED BY <1>5, <2>1, <2>2 DEF Retry, TypeOK, ResultType
<1>6. CASE Back
  <2>1. Result("ok", result.what) \in ResultType
    BY <1>0, ResultTyped DEF ResultType, Tag
  <2>2. result' \in ResultType /\ pc' \in Pc /\ ua' \in {"own", "cached", "fresh"}
    BY <1>0, <1>6, <2>1 DEF Back, Pc, TypeOK
  <2>. QED BY <1>6, <2>2 DEF Back, TypeOK, ResultType
<1>7. CASE Solve
  <2>1. /\ Result("solver", "cooldown") \in ResultType
        /\ Result("solver", "failed") \in ResultType
        /\ Result("ok", "ok") \in ResultType
    BY ResultTyped DEF Tag, Answer, Served
  <2>2. Up(solves, 2) \in 0..2
    BY UpTyped DEF TypeOK
  <2>. QED BY <1>0, <1>7, <2>1, <2>2 DEF Solve, TypeOK, Pc, ResultType
<1>8. CASE Return
  BY <1>8 DEF Return, TypeOK, Pc
<1>9. CASE UNCHANGED vars
  BY <1>9 DEF vars, TypeOK
<1>. QED BY <1>1, <1>2, <1>3, <1>4, <1>5, <1>6, <1>7, <1>8, <1>9 DEF Next, Done

(* In every chain the state is as typed; retry_do never counts an attempt  *)
(* beyond max_retries.                                                     *)
THEOREM Typing == Spec => []TypeOK
BY TypeInit, TypeStep, PTL DEF Spec

-----------------------------------------------------------------------------
(* Onion requests and cookies: what the solver has put into the request.   *)
OnionKept == ~proxied /\ solves = 0 /\ ua = "own" /\ pass = "cold" /\ pc # "solve"

LEMMA OnionStep == ASSUME req.onion, OnionKept, [Next]_vars PROVE OnionKept'
<1>. USE DEF OnionKept
<1>0. ~SolverActs
  BY DEF SolverActs
<1>1. CASE Limit BY <1>0, <1>1 DEF Limit
<1>2. CASE Enter BY <1>0, <1>2 DEF Enter
<1>3. CASE Send BY <1>0, <1>3 DEF Send
<1>4. CASE Residential BY <1>0, <1>4 DEF Residential
<1>5. CASE Retry BY <1>0, <1>5 DEF Retry
<1>6. CASE Back BY <1>0, <1>6 DEF Back
<1>7. CASE Solve BY <1>0, <1>7 DEF Solve
<1>8. CASE Return BY <1>0, <1>8 DEF Return
<1>9. CASE UNCHANGED vars BY <1>0, <1>9 DEF vars
<1>. QED BY <1>1, <1>2, <1>3, <1>4, <1>5, <1>6, <1>7, <1>8, <1>9 DEF Next, Done

(* No answer takes an onion request off Tor: neither the residential proxy *)
(* nor the solver nor its cookies are ever used for it.                    *)
THEOREM OnionStaysOnTor == Spec => []OnionUntouched
<1> DEFINE Inv == req.onion => OnionKept
<1>1. Init => Inv
  BY DEF Init, OnionKept
<1>2. Inv /\ [Next]_vars => Inv'
  <2>1. [Next]_vars => req' = req
    BY DEF Next, Limit, Enter, Send, Residential, Retry, Back, Solve, Return, Done, vars
  <2>. QED BY <2>1, OnionStep
<1>3. Inv => OnionUntouched
  BY DEF OnionUntouched, OnionKept
<1>. QED BY <1>1, <1>2, <1>3, PTL DEF Spec

-----------------------------------------------------------------------------
(* Solving: before the resend nothing was solved, and the request that     *)
(* goes to the provider is the pristine one.                               *)
SolveInv ==
  /\ AtMostOneSolve
  /\ pass # "resend" /\ pc \notin {"up", "done"} => solves = 0
  /\ pc \in {"limit", "enter"} => pass = "cold"
  /\ pc = "solve" => pass # "resend" /\ ua = "own"
  /\ FreshFingerprint

LEMMA SolveStep == TypeOK /\ SolveInv /\ [Next]_vars => SolveInv'
<1>. SUFFICES ASSUME TypeOK, SolveInv, [Next]_vars PROVE SolveInv'
  OBVIOUS
<1>. USE DEF SolveInv, AtMostOneSolve, FreshFingerprint
<1>1. CASE Limit BY <1>1 DEF Limit
<1>2. CASE Enter BY <1>2 DEF Enter
<1>3. CASE Send BY <1>3 DEF Send
<1>4. CASE Residential BY <1>4 DEF Residential
<1>5. CASE Retry BY <1>5 DEF Retry
<1>6. CASE Back BY <1>6 DEF Back
<1>7. CASE Solve
  <2>1. solves = 0 /\ Up(solves, 2) = 1
    BY <1>7 DEF Solve, Up
  <2>. QED BY <1>7, <2>1 DEF Solve
<1>8. CASE Return BY <1>8 DEF Return
<1>9. CASE UNCHANGED vars BY <1>9 DEF vars
<1>. QED BY <1>1, <1>2, <1>3, <1>4, <1>5, <1>6, <1>7, <1>8, <1>9 DEF Next, Done

LEMMA SolveAlways == Spec => []SolveInv
<1>1. Init => SolveInv
  BY DEF Init, SolveInv, AtMostOneSolve, FreshFingerprint
<1>. QED BY <1>1, TypeInit, TypeStep, SolveStep, PTL DEF Spec

(* One request costs at most one solve, whatever is cached and answered.   *)
THEOREM OneSolve == Spec => []AtMostOneSolve
<1>1. SolveInv => AtMostOneSolve
  BY DEF SolveInv
<1>. QED BY <1>1, SolveAlways, PTL

(* The resend after a solve never mixes the rejected solution's            *)
(* fingerprint with the new clearance.                                     *)
THEOREM ResendIsFresh == Spec => []FreshFingerprint
<1>1. SolveInv => FreshFingerprint
  BY DEF SolveInv
<1>. QED BY <1>1, SolveAlways, PTL

-----------------------------------------------------------------------------
(* The POST.  Until it is sent, and while its answer is a genuine          *)
(* challenge, no origin has processed it.                                  *)
NotTwice ==
  ~mistaken =>
    /\ processed \in 0..1
    /\ pc \in {"limit", "enter", "send", "solve"} => processed = 0
    /\ pc \in {"residential", "retry", "back"} /\ result.tag = "cloudflare" => processed = 0

LEMMA ClassifiedChallenge ==
  ASSUME NEW a \in Answer, Classify(a).tag = "cloudflare"
  PROVE  a \in Markers /\ Classify(a) = Result("cloudflare", a)
BY DEF Classify, Result

LEMMA NotTwiceStep ==
  ASSUME ~Idempotent, NotTwice, [Next]_vars
  PROVE  NotTwice'
<1>. USE DEF NotTwice
<1>1. CASE Limit BY <1>1 DEF Limit
<1>2. CASE Enter BY <1>2 DEF Enter
<1>3. CASE Send
  <2>1. PICK a \in Answer :
          /\ result' = Classify(a)
          /\ processed' = IF a \in Challenge THEN processed ELSE Up(processed, 2)
          /\ mistaken' = (mistaken \/ Classify(a) = Result("cloudflare", "widget"))
    BY <1>3 DEF Send
  <2>2. SUFFICES ASSUME ~mistaken'
                 PROVE  /\ processed' \in 0..1
                        /\ result'.tag = "cloudflare" => processed' = 0
    BY <1>3 DEF Send
  <2>3. ~mistaken /\ Classify(a) # Result("cloudflare", "widget")
    BY <2>1, <2>2
  <2>4. processed = 0 /\ Up(processed, 2) = 1
    BY <1>3, <2>3 DEF Send, Up
  <2>5. ASSUME result'.tag = "cloudflare" PROVE a \in Challenge
    BY <2>1, <2>3, <2>5, ClassifiedChallenge DEF Markers
  <2>. QED BY <2>1, <2>4, <2>5
<1>4. CASE Residential
  <2>1. result'.tag = "cloudflare" => result.tag = "cloudflare"
    BY <1>4 DEF Residential, Result
  <2>2. pc' = "send" => result.tag = "cloudflare"
    BY <1>4 DEF Residential, IsChallenged
  <2>. QED BY <1>4, <2>1, <2>2 DEF Residential
<1>5. CASE Retry
  <2>1. pc' = "back" /\ UNCHANGED <<processed, mistaken>>
    BY <1>5 DEF Retry
  <2>2. result'.tag = "cloudflare" => result.tag = "cloudflare"
    BY <1>5 DEF Retry, Attempted, Result
  <2>. QED BY <1>5, <2>1, <2>2 DEF Retry
<1>6. CASE Back
  <2>1. pc' = "solve" => result.tag = "cloudflare"
    BY <1>6 DEF Back, IsChallenged
  <2>. QED BY <1>6, <2>1 DEF Back
<1>7. CASE Solve BY <1>7 DEF Solve
<1>8. CASE Return BY <1>8 DEF Return
<1>9. CASE UNCHANGED vars BY <1>9 DEF vars
<1>. QED BY <1>1, <1>2, <1>3, <1>4, <1>5, <1>6, <1>7, <1>8, <1>9 DEF Next, Done

LEMMA ChainKept == [Next]_vars => req' = req /\ cfg' = cfg
BY DEF Next, Limit, Enter, Send, Residential, Retry, Back, Solve, Return, Done, vars

(* As long as no page of the origin is taken for a challenge, no layer     *)
(* sends a POST again that an origin may have processed.                   *)
THEOREM NoPostTwice == Spec => []SingleProcessing
<1> DEFINE Inv == ~Idempotent => NotTwice
<1>1. Init => Inv
  BY DEF Init, NotTwice
<1>2. Inv /\ [Next]_vars => Inv'
  BY ChainKept, NotTwiceStep DEF Idempotent
<1>3. Inv => SingleProcessing
  BY DEF SingleProcessing, NotTwice
<1>. QED BY <1>1, <1>2, <1>3, PTL DEF Spec

-----------------------------------------------------------------------------
(* Where the answer to a POST is on its way up: an inferred challenge is   *)
(* unwrapped before it leaves retry.                                       *)
Page == last \in Served \ {"widget"}

OnItsWay ==
  /\ pc \in {"limit", "enter"} => sends = 0
  /\ pc \in {"residential", "retry"} /\ Page
       => result \in {Result("ok", last), Result("inferred", last)}
  /\ pc = "back" /\ Page => result = Result("ok", last)
  /\ pc = "solve" => ~Page
  /\ pc \in {"up", "done"} /\ Page => result = Result("ok", last) \/ sends = 0

LEMMA ClassifiedPage ==
  ASSUME NEW a \in Served \ {"widget"}
  PROVE  Classify(a) \in {Result("ok", a), Result("inferred", a)}
BY DEF Classify, Served, Markers, Challenge

LEMMA Tags ==
  ASSUME NEW tag, NEW what
  PROVE  Result(tag, what).tag = tag /\ Result(tag, what).what = what
BY DEF Result

LEMMA OnItsWayStep ==
  ASSUME ~Idempotent, Has("retry"), OnItsWay, [Next]_vars
  PROVE  OnItsWay'
<1>. USE DEF OnItsWay, Page
<1>1. CASE Limit BY <1>1 DEF Limit
<1>2. CASE Enter BY <1>2 DEF Enter
<1>3. CASE Send
  <2>1. PICK a \in Answer : result' = Classify(a) /\ last' = a
    BY <1>3 DEF Send
  <2>. QED BY <1>3, <2>1, ClassifiedPage DEF Send
<1>4. CASE Residential
  <2>1. last' = last /\ pc' \in {"send", "retry"}
    BY <1>4 DEF Residential
  <2>2. ASSUME Page PROVE result' \in {Result("ok", last), Result("inferred", last)}
    BY <1>4, <2>2, Tags DEF Residential
  <2>. QED BY <2>1, <2>2
<1>5. CASE Retry
  <2>1. pc' = "back" /\ last' = last /\ result' = Attempted
    BY <1>5 DEF Retry
  <2>2. ASSUME Page PROVE Attempted = Result("ok", last)
    BY <1>5, <2>2, Tags DEF Retry, Attempted
  <2>. QED BY <2>1, <2>2
<1>6. CASE Back
  <2>1. CASE Page
    <3>1. ~IsChallenged(result)
      BY <1>6, <2>1, Tags DEF Back, IsChallenged
    <3>. QED BY <1>6, <2>1, <3>1 DEF Back
  <2>2. CASE ~Page
    BY <1>6, <2>2 DEF Back
  <2>. QED BY <2>1, <2>2
<1>7. CASE Solve BY <1>7 DEF Solve
<1>8. CASE Return BY <1>8 DEF Return
<1>9. CASE UNCHANGED vars BY <1>9 DEF vars
<1>. QED BY <1>1, <1>2, <1>3, <1>4, <1>5, <1>6, <1>7, <1>8, <1>9 DEF Next, Done

(* A POST that an origin answered ends with that very answer in every      *)
(* chain that retries, never with an error an inner layer made of it.      *)
THEOREM AnswerHandedUp == Spec => []ResponseKept
<1> DEFINE Inv == ~Idempotent /\ Has("retry") => OnItsWay
<1>1. Init => Inv
  BY DEF Init, OnItsWay
<1>2. Inv /\ [Next]_vars => Inv'
  BY ChainKept, OnItsWayStep DEF Idempotent, Has
<1>3. Inv => ResponseKept
  BY DEF ResponseKept, OnItsWay, Page
<1>. QED BY <1>1, <1>2, <1>3, PTL DEF Spec

(* What the rate limiter is told of a POST: once it is back, a 429 that    *)
(* was its last answer has reached the limiter as a response.              *)
Told == pc = "done" /\ Has("limiter") /\ sends > 0 /\ last = "limited" => marked

LEMMA ToldStep ==
  ASSUME ~Idempotent, Has("retry"), OnItsWay, Told, [Next]_vars
  PROVE  Told'
<1>1. CASE Return
  <2>1. pc = "up" /\ last' = last /\ sends' = sends /\ cfg' = cfg
    BY <1>1 DEF Return
  <2>2. ASSUME Has("limiter"), sends > 0, last = "limited" PROVE marked'
    <3>1. result = Result("ok", "limited")
      BY <2>1, <2>2 DEF OnItsWay, Page, Served
    <3>. QED BY <1>1, <2>2, <3>1 DEF Return
  <2>. QED BY <2>1, <2>2 DEF Told, Has
<1>2. CASE Limit \/ Enter \/ Send \/ Residential \/ Retry \/ Back \/ Solve
  <2>1. pc' # "done"
    BY <1>2 DEF Limit, Enter, Send, Residential, Retry, Back, Solve
  <2>. QED BY <2>1 DEF Told
<1>3. CASE UNCHANGED vars
  BY <1>3 DEF vars, Told, Has
<1>. QED BY <1>1, <1>2, <1>3 DEF Next, Done

(* A POST whose last answer is a 429 blocks its domain: the layers between *)
(* the transport and the limiter make the error of it a response again.    *)
THEOREM RefusedPostBlocks == Spec => []RefusedMutationBlocks
<1> DEFINE Inv == ~Idempotent /\ Has("retry") => OnItsWay /\ Told
<1>1. Init => Inv
  BY DEF Init, OnItsWay, Told
<1>2. Inv /\ [Next]_vars => Inv'
  <2>. SUFFICES ASSUME Inv, [Next]_vars, (~Idempotent /\ Has("retry"))' PROVE (OnItsWay /\ Told)'
    OBVIOUS
  <2>1. ~Idempotent /\ Has("retry")
    BY ChainKept DEF Idempotent, Has
  <2>. QED BY <2>1, OnItsWayStep, ToldStep
<1>3. Inv => RefusedMutationBlocks
  BY DEF RefusedMutationBlocks, Told
<1>. QED BY <1>1, <1>2, <1>3, PTL DEF Spec

-----------------------------------------------------------------------------
(* The sends: what is spent before this pass, by the attempts of this pass *)
(* and by the proxies of this attempt.                                     *)
Proxied == Has("residential") /\ ~req.onion
Twice(n) == IF Proxied THEN n + n ELSE n
Attempts == IF Has("retry") /\ Idempotent THEN MaxRetries + 1 ELSE 1
Earlier == IF pass = "resend" THEN Twice(Attempts) ELSE 0
Allowed == IF SolverActs THEN Twice(Attempts) + Twice(Attempts) ELSE Twice(Attempts)

Budgeted ==
  /\ attempt < Attempts
  /\ proxied => Proxied
  /\ pass = "resend" => SolverActs
  /\ pc \in {"limit", "enter"} => sends = 0 /\ attempt = 0 /\ ~proxied /\ pass = "cold"
  /\ pc = "send" => sends <= Earlier + Twice(attempt) + (IF proxied THEN 1 ELSE 0)
  /\ pc = "residential" => sends <= Earlier + Twice(attempt) + (IF proxied THEN 2 ELSE 1)
  /\ pc = "retry" => sends <= Earlier + Twice(attempt + 1) /\ ~proxied
  /\ pc = "back" => sends <= Earlier + Twice(Attempts) /\ attempt = 0 /\ ~proxied
  /\ pc = "solve" => /\ sends <= Twice(Attempts) /\ attempt = 0 /\ ~proxied
                     /\ pass # "resend" /\ SolverActs
  /\ pc \in {"up", "done"} => sends <= Allowed

LEMMA AttemptsTyped == Attempts \in Nat /\ Attempts >= 1
BY DEF Attempts

LEMMA TwiceTyped ==
  ASSUME NEW n \in Nat, NEW m \in Nat, n <= m
  PROVE  /\ Twice(n) \in Nat /\ Twice(n) >= n /\ Twice(n) <= Twice(m)
         /\ Twice(n + 1) = Twice(n) + (IF Proxied THEN 2 ELSE 1)
         /\ Twice(0) = 0
BY DEF Twice

LEMMA BudgetedStep == TypeOK /\ Budgeted /\ [Next]_vars => Budgeted'
<1>. SUFFICES ASSUME TypeOK, Budgeted, [Next]_vars PROVE Budgeted'
  OBVIOUS
<1>a. req' = req /\ cfg' = cfg
  BY ChainKept
<1>b. Proxied' = Proxied /\ Attempts' = Attempts /\ SolverActs' = SolverActs
  BY <1>a DEF Proxied, Attempts, SolverActs, Has, Idempotent
<1>c. \A n : Twice(n)' = Twice(n)
  BY <1>b DEF Twice
<1>d. Allowed' = Allowed
  BY <1>b, <1>c DEF Allowed
<1>e. /\ Attempts \in Nat /\ attempt \in Nat /\ sends \in Nat /\ proxied \in BOOLEAN
      /\ Twice(Attempts) \in Nat /\ Twice(attempt) \in Nat /\ Twice(attempt + 1) \in Nat
      /\ Twice(attempt + 1) = Twice(attempt) + (IF Proxied THEN 2 ELSE 1)
      /\ Twice(attempt + 1) <= Twice(Attempts)
      /\ Twice(0) = 0
  <2>1. attempt \in Nat /\ attempt + 1 <= Attempts /\ sends \in Nat
    BY AttemptsTyped, CapTyped DEF TypeOK, Budgeted
  <2>. QED BY <2>1, AttemptsTyped, TwiceTyped DEF TypeOK
<1>f. Earlier \in Nat /\ (SolverActs \/ Earlier = 0)
  BY <1>e DEF Earlier, Budgeted
<1>g. pass' = pass => Earlier' = Earlier
  BY <1>b, <1>c DEF Earlier
<1>1. CASE Limit
  BY <1>1, <1>b, <1>e, <1>g DEF Limit, Budgeted
<1>2. CASE Enter
  <2>1. /\ pc = "enter" /\ pc' \in {"send", "up"}
        /\ UNCHANGED <<attempt, proxied, sends>>
        /\ pass' \in {pass, "cached"}
    BY <1>2 DEF Enter
  <2>2. sends = 0 /\ attempt = 0 /\ ~proxied /\ pass = "cold"
    BY <2>1 DEF Budgeted
  <2>3. Earlier' = 0 /\ pass' # "resend"
    BY <2>1, <2>2 DEF Earlier
  <2>4. Twice(attempt)' = 0 /\ Allowed \in Nat
    BY <1>c, <1>e, <2>1, <2>2 DEF Allowed
  <2>. QED BY <1>b, <1>d, <2>1, <2>2, <2>3, <2>4, AttemptsTyped DEF Budgeted
<1>3. CASE Send
  <2>1. sends' \in Nat /\ sends' <= sends + 1
    BY <1>3, UpTyped, CapTyped DEF Send, TypeOK
  <2>2. UNCHANGED <<pass, attempt, proxied>> /\ pc = "send" /\ pc' = "residential"
    BY <1>3 DEF Send
  <2>3. sends' <= Earlier + Twice(attempt) + (IF proxied THEN 2 ELSE 1)
    BY <1>e, <1>f, <2>1, <2>2 DEF Budgeted
  <2>. QED BY <1>b, <1>c, <1>g, <2>2, <2>3 DEF Budgeted
<1>4. CASE Residential
  <2>1. UNCHANGED <<pass, attempt, sends>> /\ pc = "residential"
    BY <1>4 DEF Residential
  <2>2. sends <= Earlier + Twice(attempt) + (IF proxied THEN 2 ELSE 1)
    BY <2>1 DEF Budgeted
  <2>3. CASE pc' = "send"
    <3>1. ~proxied /\ Proxied /\ proxied' = TRUE
      BY <1>4, <2>3 DEF Residential, Proxied
    <3>. QED BY <1>b, <1>c, <1>e, <1>f, <1>g, <2>1, <2>2, <2>3, <3>1 DEF Budgeted
  <2>4. CASE pc' # "send"
    <3>1. pc' = "retry" /\ proxied' = FALSE
      BY <1>4, <2>4 DEF Residential
    <3>2. sends <= Earlier + Twice(attempt + 1)
      BY <1>e, <1>f, <2>1, <2>2 DEF Budgeted
    <3>. QED BY <1>b, <1>c, <1>g, <2>1, <3>1, <3>2 DEF Budgeted
  <2>. QED BY <2>3, <2>4
<1>5. CASE Retry
  <2>1. UNCHANGED <<pass, sends>> /\ pc = "retry" /\ proxied' = FALSE
    BY <1>5 DEF Retry
  <2>2. sends <= Earlier + Twice(attempt + 1)
    BY <2>1 DEF Budgeted
  <2>3. CASE pc' = "send"
    <3>1. attempt' = attempt + 1 /\ attempt + 1 < Attempts
      BY <1>5, <1>e, <2>3 DEF Retry, Attempts
    <3>. QED BY <1>b, <1>c, <1>e, <1>f, <1>g, <2>1, <2>2, <2>3, <3>1 DEF Budgeted
  <2>4. CASE pc' # "send"
    <3>1. pc' = "back" /\ attempt' = 0
      BY <1>5, <2>4 DEF Retry
    <3>2. sends <= Earlier + Twice(Attempts)
      BY <1>e, <1>f, <2>2
    <3>. QED BY AttemptsTyped, <1>b, <1>c, <1>g, <2>1, <3>1, <3>2 DEF Budgeted
  <2>. QED BY <2>3, <2>4
<1>6. CASE Back
  <2>1. /\ UNCHANGED <<pass, attempt, proxied, sends>> /\ pc = "back"
        /\ pc' \in {"solve", "up"}
        /\ pc' = "solve" => pass # "resend" /\ SolverActs
    BY <1>6 DEF Back
  <2>2. sends <= Earlier + Twice(Attempts) /\ attempt = 0 /\ ~proxied
    BY <2>1 DEF Budgeted
  <2>3. sends <= Allowed
    BY <1>e, <1>f, <2>2 DEF Allowed, Earlier
  <2>4. pass # "resend" => sends <= Twice(Attempts)
    BY <1>e, <2>2 DEF Earlier
  <2>. QED BY <1>b, <1>c, <1>d, <1>g, <2>1, <2>2, <2>3, <2>4 DEF Budgeted
<1>7. CASE Solve
  <2>1. UNCHANGED <<attempt, proxied, sends>> /\ pc = "solve"
    BY <1>7 DEF Solve
  <2>2. /\ sends <= Twice(Attempts) /\ attempt = 0 /\ ~proxied
        /\ pass # "resend" /\ SolverActs
    BY <2>1 DEF Budgeted
  <2>3. CASE pc' = "send"
    <3>1. pass' = "resend"
      BY <1>7, <2>3 DEF Solve
    <3>2. Earlier' = Twice(Attempts)
      BY <3>1, <1>b, <1>c DEF Earlier
    <3>. QED BY <1>b, <1>c, <1>e, <2>1, <2>2, <2>3, <3>1, <3>2 DEF Budgeted
  <2>4. CASE pc' # "send"
    <3>1. pc' = "up" /\ pass' = pass
      BY <1>7, <2>4 DEF Solve
    <3>2. sends <= Allowed
      BY <1>e, <2>2 DEF Allowed
    <3>. QED BY <1>b, <1>d, <2>1, <2>2, <3>1, <3>2 DEF Budgeted
  <2>. QED BY <2>3, <2>4
<1>8. CASE Return
  BY <1>8, <1>b, <1>d DEF Return, Budgeted
<1>9. CASE UNCHANGED vars
  <2>1. UNCHANGED <<pc, pass, attempt, proxied, sends>>
    BY <1>9 DEF vars
  <2>. QED BY <1>b, <1>c, <1>d, <1>g, <2>1 DEF Budgeted
<1>. QED BY <1>1, <1>2, <1>3, <1>4, <1>5, <1>6, <1>7, <1>8, <1>9 DEF Next, Done

LEMMA BudgetedKeeps == TypeOK /\ Budgeted => SendBudget
<1>. SUFFICES ASSUME TypeOK, Budgeted PROVE SendBudget
  OBVIOUS
<1>1. sends <= Allowed
  <2>1. /\ Attempts \in Nat /\ attempt \in Nat /\ sends \in Nat /\ proxied \in BOOLEAN
        /\ attempt + 1 <= Attempts
    BY AttemptsTyped, CapTyped DEF TypeOK, Budgeted
  <2>2. /\ Twice(Attempts) \in Nat /\ Twice(attempt) \in Nat /\ Twice(attempt + 1) \in Nat
        /\ Twice(attempt + 1) = Twice(attempt) + (IF Proxied THEN 2 ELSE 1)
        /\ Twice(attempt + 1) <= Twice(Attempts)
    BY <2>1, TwiceTyped
  <2>3. Earlier + Twice(Attempts) <= Allowed /\ Twice(Attempts) <= Allowed /\ Earlier \in Nat
    BY <2>2 DEF Earlier, Allowed, Budgeted
  <2>4. Allowed \in Nat
    BY <2>2 DEF Allowed
  <2>5. pc \in Pc
    BY DEF TypeOK
  <2>. QED BY <2>1, <2>2, <2>3, <2>4, <2>5 DEF Budgeted, Pc
<1>2. \A p \in {1, 2}, q \in {1, 2} : \A n \in Nat :
        p * n * q = IF p = 2 THEN (IF q = 2 THEN (n + n) + (n + n) ELSE n + n)
                             ELSE (IF q = 2 THEN n + n ELSE n)
  OBVIOUS
<1>. QED BY <1>1, <1>2, AttemptsTyped DEF SendBudget, Allowed, Twice, Attempts, Proxied

(* A request is sent at most once per pass of the solver, attempt and      *)
(* proxy that apply to it, for every number of retries.                    *)
THEOREM SendsBounded == Spec => []SendBudget
<1>1. Init => Budgeted
  <2>. SUFFICES ASSUME Init PROVE Budgeted
    OBVIOUS
  <2>. QED BY AttemptsTyped DEF Init, Budgeted
<1>. QED BY <1>1, TypeInit, TypeStep, BudgetedStep, BudgetedKeeps, PTL DEF Spec
=============================================================================
