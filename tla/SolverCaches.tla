---------------------------- MODULE SolverCaches ----------------------------
(***************************************************************************)
(* The two caches that concurrent requests share on the solver's path      *)
(* (crates/http/src/middleware_solver.rs): CookieCache holds the solution  *)
(* of each domain, SolverNegCache the failed solves of each domain and     *)
(* authentication cohort, and puts a cohort on cooldown.                   *)
(*                                                                         *)
(* A request takes a lock for each cache call and lets it go before it     *)
(* sends, solves or takes the next one: one action is one such call.       *)
(* What a send or a solve yields is nondeterministic.  Time is a Tick:     *)
(* lifetimes count down, the age of the last failure counts up.            *)
(***************************************************************************)
EXTENDS NegCache, Sequences, FiniteSets, Functions

CONSTANTS
  Tasks,          \* requests in flight
  Domains,
  Keys,           \* the (domain, authenticated) pairs requests come for
  MaxSize,        \* CookieCache::max_size
  TTL             \* lifetime of a solution

ASSUME KeyAssumption == Keys \subseteq Domains \X BOOLEAN /\ Keys # {}
ASSUME SizeAssumption ==
  /\ MaxSize \in Nat \ {0} /\ TTL \in Nat \ {0}
  /\ IsFiniteSet(Tasks) /\ IsFiniteSet(Domains)

VARIABLES
  solution,     \* the cached solution of each domain, 0 when it has none
  life,         \* ticks each cached solution has left
  order,        \* domains with an entry, lowest seq first
  neg,          \* DomainState of each key
  pc, key,
  sent,         \* the cached solution a request was sent with
  earned        \* history: failed solves of each key since its last success

cookieVars == <<solution, life, order>>
negVars == <<neg, earned>>
taskVars == <<pc, key, sent>>
vars == <<cookieVars, negVars, taskVars>>

Pc == {"idle", "missed", "cachedSend", "send", "gate", "solve", "solved"}
DomainOf(t) == key[t][1]
SomeKey == CHOOSE k \in Keys : TRUE       \* the key of an idle task, never read

(* Enough names for the solutions in the cache and those just sent. *)
Solution == 1..(Cardinality(Domains) + Cardinality(Tasks) + 1)
Fresh == CHOOSE v \in Solution :
           v \notin Range(solution) /\ \A t \in Tasks : sent[t] # v

-----------------------------------------------------------------------------
(* SolverNegCache (NegCache) as requests change it. *)
(* Mutant: the failure is recorded for both cohorts of the domain. *)
RecordFailureOfDomain(k) ==
  /\ neg' = [j \in Keys |-> IF j[1] = k[1] THEN Failure(neg[j]) ELSE neg[j]]
  /\ earned' = [earned EXCEPT ![k] = IF @ < MaxFailures THEN @ + 1 ELSE @]

RecordFailure(k) ==
  /\ neg' = [neg EXCEPT ![k] = Failure(@)]
  /\ earned' = [earned EXCEPT ![k] = IF @ < MaxFailures THEN @ + 1 ELSE @]

RecordSuccess(k) ==
  /\ neg' = [neg EXCEPT ![k] = Unknown]
  /\ earned' = [earned EXCEPT ![k] = 0]

-----------------------------------------------------------------------------
(* CookieCache. *)
Cached(d) == solution[d] # 0
Usable(d) == Cached(d) /\ life[d] > 0

(* put: a new domain evicts the eldest entry of a full cache. *)
Put(d, v) ==
  LET gone == IF ~Cached(d) /\ Len(order) >= MaxSize THEN {Head(order)} ELSE {} IN
  /\ solution' = [e \in Domains |-> IF e = d THEN v ELSE IF e \in gone THEN 0 ELSE solution[e]]
  /\ life' = [e \in Domains |-> IF e = d THEN TTL ELSE IF e \in gone THEN 0 ELSE life[e]]
  /\ order' = Append(SelectSeq(order, LAMBDA e : e # d /\ e \notin gone), d)

Remove(ds) ==
  /\ solution' = [e \in Domains |-> IF e \in ds THEN 0 ELSE solution[e]]
  /\ life' = [e \in Domains |-> IF e \in ds THEN 0 ELSE life[e]]
  /\ order' = SelectSeq(order, LAMBDA e : e \notin ds)

(* Mutant: a plain remove. *)
RemoveAny(d, v) == Remove({d})

(* remove_if: only if the entry is still the solution that was sent. *)
RemoveIf(d, v) == IF solution[d] = v THEN Remove({d}) ELSE UNCHANGED cookieVars

(* The request goes on; the request returns. *)
GoTo(t, to) == pc' = [pc EXCEPT ![t] = to] /\ UNCHANGED <<key, sent>>
Return(t) ==
  /\ pc' = [pc EXCEPT ![t] = "idle"]
  /\ key' = [key EXCEPT ![t] = SomeKey]
  /\ sent' = [sent EXCEPT ![t] = 0]

-----------------------------------------------------------------------------
Init ==
  /\ solution = [d \in Domains |-> 0] /\ life = [d \in Domains |-> 0] /\ order = <<>>
  /\ neg = [k \in Keys |-> Unknown]
  /\ earned = [k \in Keys |-> 0]
  /\ pc = [t \in Tasks |-> "idle"]
  /\ key = [t \in Tasks |-> SomeKey]
  /\ sent = [t \in Tasks |-> 0]

(* A request comes and asks the cookie cache. *)
Lookup(t, k) ==
  /\ pc[t] = "idle"
  /\ key' = [key EXCEPT ![t] = k]
  /\ IF Usable(k[1])
     THEN /\ sent' = [sent EXCEPT ![t] = solution[k[1]]]
          /\ pc' = [pc EXCEPT ![t] = "cachedSend"]
     ELSE UNCHANGED sent /\ pc' = [pc EXCEPT ![t] = "missed"]
  /\ UNCHANGED <<cookieVars, negVars>>

(* negcache_reject before the first send. *)
FailFast(t) ==
  /\ pc[t] = "missed"
  /\ IF Blocked(neg[key[t]]) THEN Return(t) ELSE GoTo(t, "send")
  /\ UNCHANGED <<cookieVars, negVars>>

(* The answer is a page, or nothing a solver would change. *)
Answered(t) ==
  /\ pc[t] \in {"send", "cachedSend"}
  /\ Return(t)
  /\ UNCHANGED <<cookieVars, negVars>>

(* The answer is a challenge: a cached solution it rejects is evicted.  A  *)
(* block, or an inferred challenge of a POST, then goes back unsolved.     *)
Challenged(t, solvable) ==
  /\ pc[t] \in {"send", "cachedSend"}
  /\ IF pc[t] = "cachedSend"
     THEN RemoveIf(DomainOf(t), sent[t])
     ELSE UNCHANGED cookieVars
  /\ IF solvable
     THEN /\ pc' = [pc EXCEPT ![t] = "gate"]
          /\ sent' = [sent EXCEPT ![t] = 0]
          /\ UNCHANGED key
     ELSE Return(t)
  /\ UNCHANGED negVars

(* Mutant: the cooldown is tested before the first send only. *)
GateOpen(t) ==
  /\ pc[t] = "gate"
  /\ GoTo(t, "solve")
  /\ UNCHANGED <<cookieVars, negVars>>

(* negcache_reject of solve_and_retry, then provider.solve. *)
Gate(t) ==
  /\ pc[t] = "gate"
  /\ IF Blocked(neg[key[t]]) THEN Return(t) ELSE GoTo(t, "solve")
  /\ UNCHANGED <<cookieVars, negVars>>

SolveFails(t) ==
  /\ pc[t] = "solve"
  /\ RecordFailure(key[t])
  /\ Return(t)
  /\ UNCHANGED cookieVars

SolveSucceeds(t) ==
  /\ pc[t] = "solve"
  /\ Put(DomainOf(t), Fresh)
  /\ GoTo(t, "solved")
  /\ UNCHANGED negVars

(* record_success; the resend that follows touches neither cache. *)
Clear(t) ==
  /\ pc[t] = "solved"
  /\ RecordSuccess(key[t])
  /\ Return(t)
  /\ UNCHANGED cookieVars

(* The eviction tasks of the two caches. *)
EvictCookies ==
  /\ Remove({d \in Domains : Cached(d) /\ life[d] = 0})
  /\ UNCHANGED <<negVars, taskVars>>

EvictNeg ==
  /\ neg' = [k \in Keys |-> IF Kept(neg[k]) THEN neg[k] ELSE Unknown]
  /\ UNCHANGED <<cookieVars, earned, taskVars>>

Tick ==
  /\ life' = [d \in Domains |-> IF life[d] > 0 THEN life[d] - 1 ELSE 0]
  /\ neg' = [k \in Keys |-> Older(neg[k])]
  /\ UNCHANGED <<solution, order, earned, taskVars>>

Answer(t) == Answered(t) \/ \E solvable \in BOOLEAN : Challenged(t, solvable)
Solved(t) == SolveFails(t) \/ SolveSucceeds(t)
Step(t) == FailFast(t) \/ Answer(t) \/ Gate(t) \/ Solved(t) \/ Clear(t)

Next ==
  \/ \E t \in Tasks : Step(t) \/ \E k \in Keys : Lookup(t, k)
  \/ EvictCookies \/ EvictNeg \/ Tick

Spec == Init /\ [][Next]_vars

(* Time passes, and sends and solves end. *)
FairSpec == Spec /\ WF_vars(Tick) /\ \A t \in Tasks : WF_vars(Step(t))

-----------------------------------------------------------------------------
(* Types; the cookie cache never holds more than MaxSize solutions. *)
TypeOK ==
  /\ solution \in [Domains -> Solution \cup {0}] /\ life \in [Domains -> 0..TTL]
  /\ order \in Seq(Domains) /\ Len(order) <= MaxSize
  /\ Range(order) = {d \in Domains : Cached(d)}
  /\ Len(order) = Cardinality(Range(order))
  /\ neg \in [Keys -> NegState]
  /\ earned \in [Keys -> 0..MaxFailures]
  /\ pc \in [Tasks -> Pc] /\ key \in [Tasks -> Keys]
  /\ sent \in [Tasks -> Solution \cup {0}]

(* A late rejection of an old solution never evicts the newer one that     *)
(* another request has put meanwhile.                                      *)
FresherSolutionSurvives ==
  [][\A t \in Tasks :
       pc[t] = "cachedSend" /\ pc'[t] # "cachedSend" /\ solution[DomainOf(t)] # sent[t]
         => solution' = solution]_vars

(* A cohort is on cooldown only for its own failures: MaxFailures of them  *)
(* since its last success, whatever the other cohort does to the domain.   *)
CooldownIsEarned == \A k \in Keys : Blocked(neg[k]) => earned[k] >= MaxFailures

(* A streak the window has aged out is forgotten: a cohort that is not on  *)
(* cooldown and whose last failure is old needs MaxFailures new ones.      *)
StaleStreakForgotten ==
  [][\A k \in Keys :
       MaxFailures > 1 /\ neg[k].age > Window /\ ~Blocked(neg[k])
         => ~Blocked(neg'[k])]_vars

(* The eviction task only forgets what no request could tell from nothing: *)
(* each cohort is as blocked as before, and its next failure leads where   *)
(* it would have led.                                                      *)
EvictionInvisible ==
  [][EvictNeg => \A k \in Keys : /\ Blocked(neg'[k]) = Blocked(neg[k])
                                /\ Failure(neg'[k]) = Failure(neg[k])]_vars

(* No cooldown is renewed for ever: failures still in flight may prolong   *)
(* it, but nobody starts a new solve during it.                            *)
CooldownEnds == \A k \in Keys : []<>~Blocked(neg[k])
=============================================================================
