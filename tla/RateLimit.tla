------------------------------ MODULE RateLimit -----------------------------
(***************************************************************************)
(* The rate limiter of one domain: DomainLimiter over its Limiter          *)
(* (crates/http/src/ratelimit_domain.rs, ratelimit.rs) as the rate-limit   *)
(* middleware uses it.  Domains share nothing but the locks, so one domain *)
(* under one rule stands for all.                                          *)
(*                                                                         *)
(* allow() takes the lock of last_req, lets it go, takes that of the       *)
(* limiters, lets it go, and takes that of last_req again: one action is   *)
(* one such critical section, and reading the clock is one of its own.     *)
(* Instants are modelled by their ages in ticks, which a tick increases.   *)
(***************************************************************************)
EXTENDS Naturals, FiniteSets

CONSTANTS
  Callers,      \* requests that may be in the middleware at once
  PerWindow,      \* requests_per_window
  Window,     \* window_duration
  Delay,      \* min_delay
  Jitter,     \* the largest random part of a delay
  MaxBlock,   \* bound on a Retry-After
  MaxStall    \* bound on the ticks a call of allow spends between its locks

ASSUME RuleAssumption ==
  /\ PerWindow \in Nat \ {0} /\ Window \in Nat \ {0}
  /\ Delay \in Nat /\ Jitter \in Nat /\ MaxBlock \in Nat \ {0}
  /\ MaxStall \in Nat \ {0} /\ Delay + Jitter + MaxStall <= 2 * Window
  /\ MaxStall <= Window /\ IsFiniteSet(Callers)

VARIABLES
  known,      \* the domain has a Limiter
  count,      \* WindowState::count, no further than PerWindow + 1
  start,      \* age of window_start, no further than Window
  block,      \* what is left of blocked_until
  lastReq,    \* age of the last_req entry; Old when it has none
  at,
  now,        \* age of the instant a task took for now
  recent,     \* history: requests admitted i ticks ago, i < Window
  latest,     \* history: age of the latest Record, no further than Delay
  before      \* history: latest when a task asked

limiter == <<known, count, start, block>>
records == <<latest, before>>
limitVars == <<limiter, lastReq, at, now, recent, records>>

(* The age from which evict_expired drops an entry: no delay reaches that  *)
(* far back, so an entry this old and no entry are the same.               *)
Old == 2 * Window + 1
LimitPc == {"idle", "delay", "limiter", "record", "sent"}
Older(age, cap) == IF age < cap THEN age + 1 ELSE cap
Turn(t, to) == at' = [at EXCEPT ![t] = to]

LimitInit ==
  /\ known = FALSE /\ count = 0 /\ start = 0 /\ block = 0
  /\ lastReq = Old
  /\ at = [t \in Callers |-> "idle"] /\ now = [t \in Callers |-> 0]
  /\ recent = [i \in 0..(Window - 1) |-> 0]
  /\ latest = Delay /\ before = [t \in Callers |-> Delay]

(* wait calls allow, the first time or 50 ms after a denial. *)
Ask(t) ==
  /\ at[t] = "idle"
  /\ Turn(t, "delay")
  /\ now' = [now EXCEPT ![t] = 0] /\ before' = [before EXCEPT ![t] = latest]
  /\ UNCHANGED <<limiter, lastReq, recent, latest>>

(* min_delay and jitter; duration_since is 0 for an instant after now. *)
CheckDelay(t) ==
  /\ at[t] = "delay"
  /\ \E jitter \in 0..Jitter :
       Turn(t, IF lastReq # Old /\ lastReq < now[t] + Delay + jitter THEN "idle" ELSE "limiter")
  /\ UNCHANGED <<limiter, lastReq, now, recent, records>>

(* allow makes an entry for a domain that has none; an entry whose window  *)
(* has passed starts another.                                              *)
NewWindow == ~known \/ start >= Window

(* Mutant: a denied call starts the window anew, as the true sliding log   *)
(* of all calls would.                                                     *)
AllowRestarts(t) ==
  LET counted == IF NewWindow THEN 0 ELSE count IN
  /\ at[t] = "limiter" /\ (known => block = 0)
  /\ known' = TRUE /\ start' = 0 /\ block' = 0
  /\ count' = IF counted <= PerWindow THEN counted + 1 ELSE counted
  /\ IF counted < PerWindow
     THEN Turn(t, "record") /\ recent' = [recent EXCEPT ![0] = @ + 1]
     ELSE Turn(t, "idle") /\ UNCHANGED recent
  /\ UNCHANGED <<lastReq, now, records>>

(* Mutant: the limit itself is let through once more. *)
AllowOneMore(t) ==
  LET counted == IF NewWindow THEN 0 ELSE count IN
  /\ at[t] = "limiter" /\ (known => block = 0)
  /\ known' = TRUE
  /\ start' = IF NewWindow THEN 0 ELSE start
  /\ count' = IF counted <= PerWindow THEN counted + 1 ELSE counted
  /\ block' = 0
  /\ IF counted <= PerWindow
     THEN Turn(t, "record") /\ recent' = [recent EXCEPT ![0] = @ + 1]
     ELSE Turn(t, "idle") /\ UNCHANGED recent
  /\ UNCHANGED <<lastReq, now, records>>

(* Limiter::allow, when no block is left: a denied call counts too. *)
AllowUnblocked(t) ==
  LET counted == IF NewWindow THEN 0 ELSE count IN
  /\ at[t] = "limiter" /\ (known => block = 0)
  /\ known' = TRUE
  /\ start' = IF NewWindow THEN 0 ELSE start
  /\ count' = IF counted <= PerWindow THEN counted + 1 ELSE counted
  /\ block' = 0
  /\ IF counted < PerWindow
     THEN Turn(t, "record") /\ recent' = [recent EXCEPT ![0] = @ + 1]
     ELSE Turn(t, "idle") /\ UNCHANGED recent
  /\ UNCHANGED <<lastReq, now, records>>

(* Limiter::allow during a block. *)
DenyBlocked(t) ==
  /\ at[t] = "limiter" /\ known /\ block > 0
  /\ Turn(t, "idle")
  /\ UNCHANGED <<limiter, lastReq, now, recent, records>>

(* Mutant: an instant that is there already is not replaced. *)
RecordFirst(t) ==
  /\ at[t] = "record"
  /\ lastReq' = IF lastReq = Old THEN now[t] ELSE lastReq
  /\ latest' = 0 /\ Turn(t, "sent")
  /\ UNCHANGED <<limiter, now, recent, before>>

(* last_req takes the instant allow began with, whatever it holds by now. *)
Record(t) ==
  /\ at[t] = "record"
  /\ lastReq' = now[t]
  /\ latest' = 0 /\ Turn(t, "sent")
  /\ UNCHANGED <<limiter, now, recent, before>>

(* The request is answered: a 429 with Retry-After calls mark_rate_limited. *)
Respond(t) ==
  /\ at[t] = "sent"
  /\ Turn(t, "idle")
  /\ UNCHANGED <<limiter, lastReq, now, recent, records>>

TooManyRequests(t) ==
  /\ at[t] = "sent"
  /\ block' \in 1..MaxBlock
  /\ known' = TRUE
  /\ start' = IF known THEN start ELSE 0
  /\ count' = IF known THEN count ELSE 0
  /\ Turn(t, "idle")
  /\ UNCHANGED <<lastReq, now, recent, records>>

(* evict_expired: the limiter goes with its last_req entry. *)
Evict ==
  /\ lastReq = Old
  /\ known' = FALSE /\ count' = 0 /\ start' = 0 /\ block' = 0
  /\ UNCHANGED <<lastReq, at, now, recent, records>>

Busy(t) == at[t] \in {"delay", "limiter", "record"}

LimitTick ==
  /\ \A t \in Callers : Busy(t) => now[t] < MaxStall
  /\ start' = IF known THEN Older(start, Window) ELSE 0
  /\ block' = IF block > 0 THEN block - 1 ELSE 0
  /\ lastReq' = Older(lastReq, Old)
  /\ now' = [t \in Callers |-> IF Busy(t) THEN now[t] + 1 ELSE 0]
  /\ recent' = [i \in 0..(Window - 1) |-> IF i = 0 THEN 0 ELSE recent[i - 1]]
  /\ latest' = Older(latest, Delay)
  /\ UNCHANGED <<known, count, at, before>>

CallStep(t) == Ask(t) \/ CheckDelay(t) \/ AllowUnblocked(t) \/ DenyBlocked(t)
             \/ Record(t) \/ Respond(t) \/ TooManyRequests(t)

LimitNext == (\E t \in Callers : CallStep(t)) \/ Evict \/ LimitTick

LimitSpec == LimitInit /\ [][LimitNext]_limitVars

(* Callers are scheduled and time passes. *)
FairLimitSpec == LimitSpec /\ WF_limitVars(LimitTick) /\ \A t \in Callers : WF_limitVars(CallStep(t))

-----------------------------------------------------------------------------
(* The requests admitted in the last Window ticks, each told by its age    *)
(* and its place among those of that age.                                  *)
Admissions == UNION {{i} \X (1..recent[i]) : i \in 0..(Window - 1)}
Admitted == Cardinality(Admissions)

(* What the limiter guarantees of any Window ticks, wherever they begin:   *)
(* as its windows are laid end to end, two of them may share the span, and *)
(* an eviction between a task's Limiter::allow and its last_req entry      *)
(* forgets what the tasks of that moment were counted for.                 *)
WindowBound ==
  Admitted <= PerWindow + (IF Cardinality(Callers) > PerWindow THEN Cardinality(Callers) ELSE PerWindow)

(* Requests polling wait are never shut out all together: again and again  *)
(* one is admitted, as a denied poll does not prolong the window.          *)
AdmissionsGoOn == (\E t \in Callers : at[t] # "idle") ~> (\E t \in Callers : at[t] = "sent")

(* min_delay holds towards every request recorded before a call began, but *)
(* for the time another call spends between its locks, as a late Record    *)
(* puts an older instant in the place of a newer one.                      *)
DelayKeptUpToStall ==
  [][\A t \in Callers : at[t] = "delay" /\ at'[t] = "limiter"
       => before[t] + MaxStall >= Delay]_limitVars

(* "Enforce min_delay" (ratelimit_domain.rs:66): no request is admitted    *)
(* less than Delay after another one.  Does not hold: min_delay is tested  *)
(* under one lock, and last_req written under another.                     *)
MinDelayKept ==
  [][\A t \in Callers : at[t] = "limiter" /\ at'[t] = "record"
       => \A i \in 0..(Window - 1) : recent[i] > 0 => i >= Delay]_limitVars
=============================================================================
