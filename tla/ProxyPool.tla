----------------------------- MODULE ProxyPool ------------------------------
(***************************************************************************)
(* The proxies of a pool in turn (crates/http/src/proxy_pool.rs,           *)
(* proxy_webshare.rs) and HealthyPool, which passes over those that failed *)
(* too often lately (proxy_health.rs).                                     *)
(*                                                                         *)
(* next() holds the lock on the health map while it goes round once, but   *)
(* lets go of it before the fallback takes one more turn, so a fallback    *)
(* may take a turn of the round of another caller.  Time is a Tick.        *)
(***************************************************************************)
EXTENDS Naturals, FiniteSets

CONSTANTS
  PoolSize,       \* proxies, served in turn
  PoolCallers,    \* concurrent calls of next()
  PoolCooldown,   \* ticks a deactivated proxy is passed over
  MinRequests,    \* before the failure rate counts
  MaxCount        \* bound on the successes and on the failures counted

ASSUME PoolAssumption ==
  /\ PoolSize \in Nat \ {0} /\ PoolCooldown \in Nat \ {0} /\ MinRequests \in Nat \ {0}
  /\ MaxCount \in Nat \ {0}

Proxies == 0..(PoolSize - 1)
NoOne == "none"
StaleAfter == 4 * PoolCooldown

VARIABLES
  turn,           \* counter % len: the proxy that is next
  health,         \* the entry of each proxy
  holder,         \* the call that goes round under the lock
  tries,          \* turns it has left
  passed,         \* the proxies it has passed over
  fallingBack,    \* calls that have been all round, and their lock is gone
  stolen          \* history: a fallback has taken a turn of this round

roundVars == <<holder, tries, passed, fallingBack, stolen>>
poolVars == <<turn, health, roundVars>>

(* down: ticks since deactivated_at, from 0; active proxies have none.     *)
(* idle: ticks since last_used, kept while deactivated.                    *)
Untracked == [successes |-> 0, failures |-> 0, active |-> TRUE, down |-> 0, idle |-> 0]
Health == [successes : 0..MaxCount, failures : 0..MaxCount, active : BOOLEAN,
           down : 0..PoolCooldown, idle : 0..StaleAfter]

Cooling(h) == ~h.active /\ h.down < PoolCooldown
TooBad(h) == h.successes + h.failures >= MinRequests /\ h.failures > h.successes

Unlocked == holder = NoOne

-----------------------------------------------------------------------------
PoolInit ==
  /\ turn = 0 /\ health = [p \in Proxies |-> Untracked]
  /\ holder = NoOne /\ tries = 0 /\ passed = {} /\ fallingBack = {} /\ stolen = FALSE

TakeTurn == turn' = (turn + 1) % PoolSize

(* Mutant: one turn too few. *)
GoRoundButOne(c) ==
  /\ Unlocked /\ c \notin fallingBack
  /\ holder' = c /\ tries' = PoolSize - 1 /\ passed' = {} /\ stolen' = FALSE
  /\ UNCHANGED <<turn, health, fallingBack>>

(* next() takes the lock and goes round once. *)
GoRound(c) ==
  /\ Unlocked /\ c \notin fallingBack
  /\ holder' = c /\ tries' = PoolSize /\ passed' = {} /\ stolen' = FALSE
  /\ UNCHANGED <<turn, health, fallingBack>>

(* A proxy that is active, or whose cooldown is over, is served; the       *)
(* latter starts anew (try_reactivate).                                    *)
Serve ==
  /\ ~Unlocked /\ tries > 0 /\ ~Cooling(health[turn])
  /\ TakeTurn
  /\ health' = IF health[turn].active THEN health
               ELSE [health EXCEPT ![turn] = Untracked]
  /\ holder' = NoOne /\ tries' = 0 /\ passed' = {} /\ stolen' = FALSE
  /\ UNCHANGED fallingBack

PassOver ==
  /\ ~Unlocked /\ tries > 0 /\ Cooling(health[turn])
  /\ TakeTurn
  /\ tries' = tries - 1 /\ passed' = passed \cup {turn}
  /\ UNCHANGED <<health, holder, fallingBack, stolen>>

(* All round: drop(health). *)
GiveUpRound ==
  /\ ~Unlocked /\ tries = 0
  /\ fallingBack' = fallingBack \cup {holder}
  /\ holder' = NoOne /\ passed' = {} /\ stolen' = FALSE
  /\ UNCHANGED <<turn, health, tries>>

(* The fallback serves whoever is next, without the lock. *)
FallbackTurn(c) ==
  /\ c \in fallingBack
  /\ TakeTurn
  /\ fallingBack' = fallingBack \ {c}
  /\ stolen' = ~Unlocked
  /\ UNCHANGED <<health, holder, tries, passed>>

-----------------------------------------------------------------------------
(* record_success: a deactivated proxy stays so. *)
RecordProxySuccess(p) ==
  /\ Unlocked /\ health[p].successes < MaxCount
  /\ health' = [health EXCEPT ![p].successes = @ + 1, ![p].idle = 0]
  /\ UNCHANGED <<turn, roundVars>>

(* record_failure: the rate of a deactivated proxy may renew its cooldown. *)
RecordProxyFailure(p) ==
  /\ Unlocked /\ health[p].failures < MaxCount
  /\ LET h == [health[p] EXCEPT !.failures = @ + 1, !.idle = 0] IN
       health' = [health EXCEPT ![p] = IF TooBad(h)
                                       THEN [h EXCEPT !.active = FALSE, !.down = 0]
                                       ELSE h]
  /\ UNCHANGED <<turn, roundVars>>

(* evict_stale. *)
EvictStale ==
  /\ Unlocked
  /\ health' = [p \in Proxies |-> IF ~health[p].active /\ health[p].idle >= StaleAfter
                                  THEN Untracked ELSE health[p]]
  /\ UNCHANGED <<turn, roundVars>>

PoolTick ==
  /\ health' = [p \in Proxies |->
       IF health[p].active THEN health[p]
       ELSE [health[p] EXCEPT !.down = IF @ < PoolCooldown THEN @ + 1 ELSE @,
                              !.idle = IF @ < StaleAfter THEN @ + 1 ELSE @]]
  /\ UNCHANGED <<turn, roundVars>>

PoolNext ==
  \/ \E c \in PoolCallers : GoRound(c) \/ FallbackTurn(c)
  \/ Serve \/ PassOver \/ GiveUpRound
  \/ \E p \in Proxies : RecordProxySuccess(p) \/ RecordProxyFailure(p)
  \/ EvictStale \/ PoolTick

PoolSpec == PoolInit /\ [][PoolNext]_poolVars

-----------------------------------------------------------------------------
(* A call falls back on a proxy it should pass over only when it has found *)
(* every proxy cooling down, or a fallback of another call took a turn of  *)
(* its round.                                                              *)
FallbackOnlyIfAllCool ==
  [][\A c \in fallingBack' \ fallingBack : passed = Proxies \/ stolen]_poolVars
=============================================================================
