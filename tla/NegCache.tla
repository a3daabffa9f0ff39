------------------------------ MODULE NegCache ------------------------------
(***************************************************************************)
(* One entry of SolverNegCache (crates/http/src/solver_negcache.rs): the   *)
(* failed solves of a domain by one authentication cohort, and what a      *)
(* failure, the eviction task and the clock make of it.                    *)
(*                                                                         *)
(* failures counts to MaxFailures, all that is compared; age is that of    *)
(* last_failure, up to one tick past the window; left is what remains of   *)
(* blocked_until.  No entry and one that aged out are told apart by known. *)
(***************************************************************************)
EXTENDS Naturals

CONSTANTS MaxFailures, Cooldown, Window

ASSUME NegAssumption ==
  MaxFailures \in Nat \ {0} /\ Cooldown \in Nat \ {0} /\ Window \in Nat \ {0}

Unknown == [known |-> FALSE, failures |-> 0, age |-> 0, left |-> 0]
NegState == [known : BOOLEAN, failures : 0..MaxFailures, age : 0..(Window + 1),
             left : 0..Cooldown]

Blocked(state) == state.left > 0

(* record_failure. *)
Failure(state) ==
  LET old == IF state.age > Window THEN Unknown ELSE state
      n == IF old.failures < MaxFailures THEN old.failures + 1 ELSE MaxFailures
  IN  [known |-> TRUE, failures |-> n, age |-> 0,
       left |-> IF n = MaxFailures THEN Cooldown ELSE old.left]

(* Mutant: only what is on cooldown is kept. *)
KeptIfBlocked(state) == Blocked(state)

(* evict_expired keeps what is on cooldown or failed recently. *)
Kept(state) == Blocked(state) \/ state.age <= Window

Older(state) ==
  [state EXCEPT !.age = IF state.known /\ @ <= Window THEN @ + 1 ELSE @,
                !.left = IF @ > 0 THEN @ - 1 ELSE 0]
=============================================================================
