--------------------------- MODULE NegCacheProofs ---------------------------
(***************************************************************************)
(* Facts about one entry of the negative cache, for every threshold,       *)
(* cooldown and window: types, and that its streak never runs ahead of the *)
(* failures a cohort really had.                                           *)
(***************************************************************************)
EXTENDS NegCache, TLAPS

USE NegAssumption

(* The operations keep an entry's type; time never blocks anybody. *)
LEMMA UnknownType == Unknown \in NegState
BY DEF Unknown, NegState

LEMMA FailureType == ASSUME NEW s \in NegState PROVE Failure(s) \in NegState
<1> DEFINE old == IF s.age > Window THEN Unknown ELSE s
           n == IF old.failures < MaxFailures THEN old.failures + 1 ELSE MaxFailures
<1>1. old \in NegState
  BY UnknownType
<1>2. n \in 0..MaxFailures /\ old.left \in 0..Cooldown
  BY <1>1 DEF NegState
<1>. HIDE DEF old, n
<1>3. [known |-> TRUE, failures |-> n, age |-> 0,
       left |-> IF n = MaxFailures THEN Cooldown ELSE old.left] \in NegState
  BY <1>2 DEF NegState
<1>. QED BY <1>3 DEF Failure, old, n

LEMMA OlderType ==
  ASSUME NEW s \in NegState
  PROVE  Older(s) \in NegState /\ (Blocked(Older(s)) => Blocked(s))
         /\ Older(s).failures = s.failures
<1> DEFINE age == IF s.known /\ s.age <= Window THEN s.age + 1 ELSE s.age
           left == IF s.left > 0 THEN s.left - 1 ELSE 0
<1>1. age \in 0..(Window + 1) /\ left \in 0..Cooldown /\ (left > 0 => s.left > 0)
  BY DEF NegState
<1>2. Older(s) = [s EXCEPT !.age = age, !.left = left]
  BY DEF Older
<1>. HIDE DEF age, left
<1>3. /\ Older(s) \in NegState /\ Older(s).left = left
      /\ Older(s).failures = s.failures
  BY <1>1, <1>2 DEF NegState
<1>. QED BY <1>1, <1>3 DEF Blocked

(* A failure adds one to the streak and one to the history. *)
LEMMA FailureEarned ==
  ASSUME NEW s \in NegState, NEW e \in 0..MaxFailures,
         s.failures <= e, Blocked(s) => e >= MaxFailures
  PROVE  LET e1 == IF e < MaxFailures THEN e + 1 ELSE e IN
           /\ e1 \in 0..MaxFailures
           /\ Failure(s).failures <= e1
           /\ Blocked(Failure(s)) => e1 >= MaxFailures
<1>1. CASE s.age > Window
  BY <1>1 DEF Failure, Unknown, Blocked, NegState
<1>2. CASE ~(s.age > Window)
  BY <1>2 DEF Failure, Blocked, NegState
<1>. QED BY <1>1, <1>2
=============================================================================
