---------------------------- MODULE ReadPipeline ----------------------------
(***************************************************************************)
(* Concurrent reads of one domain (crates/http/src/read_pipeline.rs): the  *)
(* fetch through the middleware chain, the Chrome fallback, the render     *)
(* mode the reads share (render_cache.rs), and the cooldowns of the solver *)
(* they run into (NegCache), one per authentication cohort.                *)
(*                                                                         *)
(* A read runs under a deadline (deadline.rs) that drops it at an await:   *)
(* while it sends, solves or waits for Chrome.  Between two awaits it      *)
(* takes the two caches one lock at a time, so an action is one cache call *)
(* or one await.  What a send, a solve or Chrome yields, whether cached    *)
(* cookies were used, and when other domains push the mode out of a full   *)
(* cache is nondeterministic.  Time is a Tick.  Onion addresses, which     *)
(* have no Chrome path, and site handlers, which come before, are left out.*)
(***************************************************************************)
EXTENDS NegCache

CONSTANTS
  Reads,          \* reads in flight
  Cohorts,        \* authenticated or not
  TTL,            \* lifetime of a render mode, in ticks
  Deadline        \* the bound of a read, in ticks

ASSUME ReadAssumption == TTL \in Nat \ {0} /\ Deadline \in Nat \ {0} /\ Cohorts # {}

VARIABLES
  mode, life,     \* the domain's entry in RenderModeCache
  neg,            \* the domain's entry in SolverNegCache, per cohort
  pc, cohort, timer,
  earned          \* history: recorded failures of a cohort since its last success

modeVars == <<mode, life>>
negVars == <<neg, earned>>
vars == <<modeVars, negVars, pc, cohort, timer>>

Mode == {"none", "chrome", "giveUp"}
Await == {"chromeFirst", "chain", "fetch", "solve", "resend", "chromeLast", "chromeShell"}
Pc == {"idle", "recheck", "unmark", "gate", "cfError"} \cup Await
SomeCohort == CHOOSE c \in Cohorts : TRUE

(* RenderModeCache::get. *)
Known(m) == mode = m /\ life > 0

Set(m) == mode' = m /\ life' = TTL
Forget == mode' = "none" /\ life' = 0

GoTo(r, to) == pc' = [pc EXCEPT ![r] = to] /\ UNCHANGED <<cohort, timer>>
Return(r) ==
  /\ pc' = [pc EXCEPT ![r] = "idle"]
  /\ cohort' = [cohort EXCEPT ![r] = SomeCohort]
  /\ timer' = [timer EXCEPT ![r] = 0]

BlockedFor(r) == Blocked(neg[cohort[r]])

-----------------------------------------------------------------------------
Init ==
  /\ mode = "none" /\ life = 0
  /\ neg = [c \in Cohorts |-> Unknown]
  /\ earned = [c \in Cohorts |-> 0]
  /\ pc = [r \in Reads |-> "idle"]
  /\ cohort = [r \in Reads |-> SomeCohort] /\ timer = [r \in Reads |-> 0]

(* A read comes and asks the render cache. *)
Begin(r, c) ==
  /\ pc[r] = "idle"
  /\ cohort' = [cohort EXCEPT ![r] = c]
  /\ timer' = [timer EXCEPT ![r] = Deadline]
  /\ pc' = [pc EXCEPT ![r] = IF Known("giveUp") THEN "recheck"
                             ELSE IF Known("chrome") THEN "chromeFirst"
                             ELSE "chain"]
  /\ UNCHANGED <<modeVars, negVars>>

(* A GiveUp holds only while this read's own cohort is on cooldown. *)
Recheck(r) ==
  /\ pc[r] = "recheck"
  /\ \/ BlockedFor(r) /\ Return(r)
     \/ ~BlockedFor(r) /\ GoTo(r, "unmark")
  /\ UNCHANGED <<modeVars, negVars>>

(* cache.remove: whatever the entry is by now. *)
Unmark(r) ==
  /\ pc[r] = "unmark"
  /\ Forget /\ GoTo(r, "chain")
  /\ UNCHANGED negVars

(* Chrome answers first for a domain known to need it, or fails. *)
ChromeFirst(r) ==
  /\ pc[r] = "chromeFirst"
  /\ Return(r) \/ GoTo(r, "chain")
  /\ UNCHANGED <<modeVars, negVars>>

(* The rate limiter's wait, then SolverHandler::handle: cached cookies, or *)
(* the cooldown's ProxyPool error, or a plain send.                        *)
EnterChain(r) ==
  /\ pc[r] = "chain"
  /\ \/ GoTo(r, "fetch")                       \* with cached cookies, or none
     \/ BlockedFor(r) /\ Return(r)
  /\ UNCHANGED <<modeVars, negVars>>

(* The answer of a send: a page or an error that is not Cloudflare's; a    *)
(* JS-only shell, which marks the domain; a block; or, the first time, a   *)
(* challenge to solve.                                                     *)
Answered(r) ==
  /\ pc[r] \in {"fetch", "resend"}
  /\ \/ Return(r) /\ UNCHANGED modeVars
     \/ Set("chrome") /\ GoTo(r, "chromeShell")
     \/ GoTo(r, "cfError") /\ UNCHANGED modeVars
     \/ pc[r] = "fetch" /\ GoTo(r, "gate") /\ UNCHANGED modeVars
  /\ UNCHANGED negVars

(* negcache_reject of solve_and_retry. *)
Gate(r) ==
  /\ pc[r] = "gate"
  /\ IF BlockedFor(r) THEN Return(r) ELSE GoTo(r, "solve")
  /\ UNCHANGED <<modeVars, negVars>>

(* Mutant: the failure is recorded for the domain, whatever the cohort. *)
SolveFailsForAll(r) ==
  /\ pc[r] = "solve"
  /\ neg' = [c \in Cohorts |-> Failure(neg[c])]
  /\ earned' = [earned EXCEPT ![cohort[r]] = IF @ < MaxFailures THEN @ + 1 ELSE @]
  /\ Return(r)
  /\ UNCHANGED modeVars

(* record_failure, and a ProxyPool error that no fallback follows. *)
SolveFails(r) ==
  /\ pc[r] = "solve"
  /\ neg' = [neg EXCEPT ![cohort[r]] = Failure(@)]
  /\ earned' = [earned EXCEPT ![cohort[r]] = IF @ < MaxFailures THEN @ + 1 ELSE @]
  /\ Return(r)
  /\ UNCHANGED modeVars

(* record_success, and the solved page or a resend. *)
SolveSucceeds(r) ==
  /\ pc[r] = "solve"
  /\ neg' = [neg EXCEPT ![cohort[r]] = Unknown]
  /\ earned' = [earned EXCEPT ![cohort[r]] = 0]
  /\ GoTo(r, "resend")
  /\ UNCHANGED modeVars

(* A Cloudflare error: a cohort on cooldown gives up on the domain, another  *)
(* marks it for Chrome.                                                    *)
CfError(r) ==
  /\ pc[r] = "cfError"
  /\ \/ BlockedFor(r) /\ Set("giveUp") /\ Return(r)
     \/ ~BlockedFor(r) /\ Set("chrome") /\ GoTo(r, "chromeLast")
  /\ UNCHANGED negVars

(* Chrome after a Cloudflare error or a shell: the read is over either way. *)
ChromeLast(r) ==
  /\ pc[r] \in {"chromeLast", "chromeShell"}
  /\ Return(r)
  /\ UNCHANGED <<modeVars, negVars>>

(* Mutant: the deadline does not bound the solver's wait. *)
DeadlineButSolve(r) ==
  /\ pc[r] \in Await \ {"solve"} /\ timer[r] = 0
  /\ Return(r)
  /\ UNCHANGED <<modeVars, negVars>>

(* The deadline drops the read where it waits: of a dropped solve nothing  *)
(* is recorded.                                                            *)
DeadlineFires(r) ==
  /\ pc[r] \in Await /\ timer[r] = 0
  /\ Return(r)
  /\ UNCHANGED <<modeVars, neg, earned>>

(* Expiry, or capacity eviction by reads of other domains. *)
Displaced == mode # "none" /\ Forget /\ UNCHANGED <<negVars, pc, cohort, timer>>

EvictNeg ==
  /\ neg' = [c \in Cohorts |-> IF Kept(neg[c]) THEN neg[c] ELSE Unknown]
  /\ UNCHANGED <<modeVars, earned, pc, cohort, timer>>

Tick ==
  /\ life' = IF life > 0 THEN life - 1 ELSE 0
  /\ neg' = [c \in Cohorts |-> Older(neg[c])]
  /\ timer' = [r \in Reads |-> IF timer[r] > 0 THEN timer[r] - 1 ELSE 0]
  /\ UNCHANGED <<mode, earned, pc, cohort>>

(* What a read does by itself, and what it waits for others to do. *)
Local(r) == Recheck(r) \/ Unmark(r) \/ Gate(r) \/ CfError(r)
Solved(r) == SolveFails(r) \/ SolveSucceeds(r)
Remote(r) == ChromeFirst(r) \/ EnterChain(r) \/ Answered(r) \/ Solved(r) \/ ChromeLast(r)

Next ==
  \/ \E r \in Reads :
       \/ \E c \in Cohorts : Begin(r, c)
       \/ Local(r) \/ Remote(r) \/ DeadlineFires(r)
  \/ Displaced \/ EvictNeg \/ Tick

Spec == Init /\ [][Next]_vars

(* Reads run on, timers fire and time passes; origins, solvers and Chrome  *)
(* may never answer.                                                       *)
FairSpec ==
  /\ Spec /\ WF_vars(Tick)
  /\ \A r \in Reads : WF_vars(Local(r)) /\ WF_vars(DeadlineFires(r))

-----------------------------------------------------------------------------
TypeOK ==
  /\ mode \in Mode /\ life \in 0..TTL
  /\ neg \in [Cohorts -> NegState]
  /\ earned \in [Cohorts -> 0..MaxFailures]
  /\ pc \in [Reads -> Pc] /\ cohort \in [Reads -> Cohorts] /\ timer \in [Reads -> 0..Deadline]

(* A read is refused at once only when its own cohort has had MaxFailures  *)
(* failed solves since its last success, although one GiveUp, written by   *)
(* either cohort, is shared by both.                                       *)
RefusalIsEarned ==
  [][\A r \in Reads : pc[r] = "recheck" /\ pc'[r] = "idle"
       => earned[cohort[r]] >= MaxFailures]_vars

(* Every read ends, though origin, solver and Chrome may all hang. *)
EveryReadEnds == \A r \in Reads : pc[r] # "idle" ~> pc[r] = "idle"
=============================================================================
