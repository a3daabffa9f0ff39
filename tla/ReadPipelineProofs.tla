-------------------------- MODULE ReadPipelineProofs --------------------------
(***************************************************************************)
(* Proofs about ReadPipeline, for any number of concurrent reads and       *)
(* cohorts: its types, and that a read refused at once has earned it.      *)
(***************************************************************************)
EXTENDS ReadPipeline, NegCacheProofs

USE ReadAssumption, NegAssumption

LEMMA SomeCohortType == SomeCohort \in Cohorts
BY DEF SomeCohort

-----------------------------------------------------------------------------
(* A typed step moves a read to a place it knows, with its own clock.      *)
ReadTypes ==
  pc \in [Reads -> Pc] /\ cohort \in [Reads -> Cohorts] /\ timer \in [Reads -> 0..Deadline]
ModeTypes == mode \in Mode /\ life \in 0..TTL
NegTypes == neg \in [Cohorts -> NegState] /\ earned \in [Cohorts -> 0..MaxFailures]

(* The streak the cache counts never runs ahead of the real failures. *)
EarnedInv ==
  \A c \in Cohorts : /\ neg[c].failures <= earned[c]
                     /\ Blocked(neg[c]) => earned[c] >= MaxFailures

LEMMA TypeParts == TypeOK <=> ReadTypes /\ ModeTypes /\ NegTypes
BY DEF TypeOK, ReadTypes, ModeTypes, NegTypes

LEMMA GoToType ==
  ASSUME ReadTypes, NEW r \in Reads, NEW to \in Pc, GoTo(r, to)
  PROVE  ReadTypes'
BY DEF ReadTypes, GoTo

LEMMA ReturnType ==
  ASSUME ReadTypes, NEW r \in Reads, Return(r)
  PROVE  ReadTypes'
BY SomeCohortType DEF ReadTypes, Return, Pc

LEMMA SetType == ASSUME NEW m \in Mode, Set(m) PROVE ModeTypes'
BY DEF ModeTypes, Set

LEMMA ForgetType == ASSUME Forget PROVE ModeTypes'
BY DEF ModeTypes, Mode, Forget

(* Every read keeps the types of the reads and of the mode. *)
LEMMA PlaceTypes ==
  ASSUME TypeOK, [Next]_vars
  PROVE  ReadTypes' /\ ModeTypes'
<1>0. ReadTypes /\ ModeTypes
  BY TypeParts
<1>a. ASSUME UNCHANGED modeVars PROVE ModeTypes'
  BY <1>0, <1>a DEF modeVars, ModeTypes
<1>b. {"idle", "recheck", "unmark", "gate", "cfError"} \cup
      {"chromeFirst", "chain", "fetch", "solve", "resend", "chromeLast", "chromeShell"} = Pc
  BY DEF Pc, Await
<1>1. ASSUME NEW r \in Reads, NEW c \in Cohorts, Begin(r, c)
      PROVE  ReadTypes' /\ ModeTypes'
  BY <1>0, <1>1, <1>a, <1>b DEF Begin, ReadTypes
<1>2. ASSUME NEW r \in Reads, Local(r) PROVE ReadTypes' /\ ModeTypes'
  <2>1. CASE Recheck(r)
    BY <1>0, <2>1, <1>a, <1>b, ReturnType, GoToType DEF Recheck
  <2>2. CASE Unmark(r)
    BY <1>0, <2>2, <1>b, ForgetType, GoToType DEF Unmark
  <2>3. CASE Gate(r)
    BY <1>0, <2>3, <1>a, <1>b, ReturnType, GoToType DEF Gate
  <2>4. CASE CfError(r)
    BY <1>0, <2>4, <1>b, SetType, ReturnType, GoToType DEF CfError, Mode
  <2>. QED BY <1>2, <2>1, <2>2, <2>3, <2>4 DEF Local
<1>3. ASSUME NEW r \in Reads, Remote(r) PROVE ReadTypes' /\ ModeTypes'
  <2>1. CASE ChromeFirst(r)
    BY <1>0, <2>1, <1>a, <1>b, ReturnType, GoToType DEF ChromeFirst
  <2>2. CASE EnterChain(r)
    BY <1>0, <2>2, <1>a, <1>b, ReturnType, GoToType DEF EnterChain
  <2>3. CASE Answered(r)
    BY <1>0, <2>3, <1>a, <1>b, SetType, ReturnType, GoToType DEF Answered, Mode
  <2>4. CASE SolveFails(r)
    BY <1>0, <2>4, <1>a, ReturnType DEF SolveFails
  <2>5. CASE SolveSucceeds(r)
    BY <1>0, <2>5, <1>a, <1>b, GoToType DEF SolveSucceeds
  <2>6. CASE ChromeLast(r)
    BY <1>0, <2>6, <1>a, ReturnType DEF ChromeLast
  <2>. QED BY <1>3, <2>1, <2>2, <2>3, <2>4, <2>5, <2>6 DEF Remote, Solved
<1>4. ASSUME NEW r \in Reads, DeadlineFires(r) PROVE ReadTypes' /\ ModeTypes'
  BY <1>0, <1>4, <1>a, ReturnType DEF DeadlineFires
<1>5. CASE Displaced
  BY <1>0, <1>5, ForgetType DEF Displaced, ReadTypes
<1>6. CASE EvictNeg
  BY <1>0, <1>6, <1>a DEF EvictNeg, ReadTypes
<1>7. CASE Tick
  <2>1. life' \in 0..TTL /\ mode' \in Mode
    BY <1>0, <1>7 DEF Tick, ModeTypes
  <2>2. timer' \in [Reads -> 0..Deadline]
    <3>1. timer \in [Reads -> 0..Deadline]
      BY <1>0 DEF ReadTypes
    <3>2. \A r \in Reads :
            (IF timer[r] > 0 THEN timer[r] - 1 ELSE 0) \in 0..Deadline
      BY <3>1
    <3>. QED BY <1>7, <3>2 DEF Tick
  <2>. QED BY <1>0, <1>7, <2>1, <2>2 DEF Tick, ReadTypes, ModeTypes
<1>8. CASE UNCHANGED vars
  BY <1>0, <1>8, <1>a DEF vars, ReadTypes
<1>. QED BY <1>1, <1>2, <1>3, <1>4, <1>5, <1>6, <1>7, <1>8 DEF Next

-----------------------------------------------------------------------------
(* What a step does to the negative cache. *)
NegStep ==
  \/ \E r \in Reads : SolveFails(r) \/ SolveSucceeds(r)
  \/ EvictNeg
  \/ neg' = [c \in Cohorts |-> Older(neg[c])] /\ UNCHANGED earned
  \/ UNCHANGED negVars

LEMMA NegSteps == ASSUME [Next]_vars PROVE NegStep
<1>. USE DEF NegStep
<1>1. ASSUME NEW r \in Reads, Local(r) PROVE NegStep
  BY <1>1 DEF Local, Recheck, Unmark, Gate, CfError
<1>2. ASSUME NEW r \in Reads, Remote(r) PROVE NegStep
  <2>1. CASE ChromeFirst(r) BY <2>1 DEF ChromeFirst
  <2>2. CASE EnterChain(r) BY <2>2 DEF EnterChain
  <2>3. CASE Answered(r) BY <2>3 DEF Answered
  <2>4. CASE Solved(r) BY <2>4 DEF Solved
  <2>5. CASE ChromeLast(r) BY <2>5 DEF ChromeLast
  <2>. QED BY <1>2, <2>1, <2>2, <2>3, <2>4, <2>5 DEF Remote
<1>3. ASSUME NEW r \in Reads, NEW c \in Cohorts, Begin(r, c) PROVE NegStep
  BY <1>3 DEF Begin
<1>4. ASSUME NEW r \in Reads, DeadlineFires(r) PROVE NegStep
  BY <1>4 DEF DeadlineFires, negVars
<1>5. CASE Displaced BY <1>5 DEF Displaced
<1>6. CASE EvictNeg BY <1>6
<1>7. CASE Tick BY <1>7 DEF Tick
<1>8. CASE UNCHANGED vars BY <1>8 DEF vars
<1>. QED BY <1>1, <1>2, <1>3, <1>4, <1>5, <1>6, <1>7, <1>8 DEF Next

ReadInv == TypeOK /\ EarnedInv

LEMMA ReadInit == Init => ReadInv
<1>. SUFFICES ASSUME Init PROVE ReadInv
  OBVIOUS
<1>1. TypeOK
  BY UnknownType, SomeCohortType DEF Init, TypeOK, Mode, Pc
<1>2. EarnedInv
  BY DEF Init, EarnedInv, Unknown, Blocked
<1>. QED BY <1>1, <1>2 DEF ReadInv

LEMMA ReadInvStep == ReadInv /\ [Next]_vars => ReadInv'
<1>. SUFFICES ASSUME ReadInv, [Next]_vars PROVE NegTypes' /\ EarnedInv'
  BY PlaceTypes DEF ReadInv, TypeOK, ReadTypes, ModeTypes, NegTypes
<1>0. NegStep /\ EarnedInv /\ ReadTypes
  BY NegSteps, TypeParts DEF ReadInv
<1>a. neg \in [Cohorts -> NegState] /\ earned \in [Cohorts -> 0..MaxFailures]
  BY DEF ReadInv, TypeOK
<1>1. ASSUME NEW r \in Reads, SolveFails(r) PROVE NegTypes' /\ EarnedInv'
  <2> DEFINE c == cohort[r]
             e1 == IF earned[c] < MaxFailures THEN earned[c] + 1 ELSE earned[c]
  <2>0. c \in Cohorts
    BY <1>0 DEF ReadTypes
  <2>1. /\ Failure(neg[c]) \in NegState /\ e1 \in 0..MaxFailures
        /\ Failure(neg[c]).failures <= e1
        /\ Blocked(Failure(neg[c])) => e1 >= MaxFailures
    BY <1>0, <1>a, <2>0, FailureType, FailureEarned DEF EarnedInv
  <2>2. neg' = [neg EXCEPT ![c] = Failure(neg[c])] /\ earned' = [earned EXCEPT ![c] = e1]
    BY <1>1 DEF SolveFails
  <2>. HIDE DEF c, e1
  <2>. QED BY <1>0, <1>a, <2>0, <2>1, <2>2 DEF NegTypes, EarnedInv
<1>2. ASSUME NEW r \in Reads, SolveSucceeds(r) PROVE NegTypes' /\ EarnedInv'
  <2>1. Unknown \in NegState /\ Unknown.failures = 0 /\ ~Blocked(Unknown)
    BY UnknownType DEF Unknown, Blocked
  <2>2. cohort[r] \in Cohorts
    BY <1>0 DEF ReadTypes
  <2>3. /\ neg' = [neg EXCEPT ![cohort[r]] = Unknown]
        /\ earned' = [earned EXCEPT ![cohort[r]] = 0]
    BY <1>2 DEF SolveSucceeds
  <2>4. 0 \in 0..MaxFailures
    OBVIOUS
  <2>. QED BY <1>0, <1>a, <2>1, <2>2, <2>3, <2>4 DEF NegTypes, EarnedInv
<1>3. CASE EvictNeg
  <2>1. Unknown \in NegState /\ Unknown.failures = 0 /\ ~Blocked(Unknown)
    BY UnknownType DEF Unknown, Blocked
  <2>. QED BY <1>0, <1>3, <1>a, <2>1 DEF EvictNeg, NegTypes, EarnedInv
<1>4. CASE neg' = [c \in Cohorts |-> Older(neg[c])] /\ UNCHANGED earned
  BY <1>0, <1>4, <1>a, OlderType DEF NegTypes, EarnedInv
<1>5. CASE UNCHANGED negVars
  BY <1>0, <1>5, <1>a DEF negVars, NegTypes, EarnedInv
<1>. QED BY <1>0, <1>1, <1>2, <1>3, <1>4, <1>5 DEF NegStep

(* Types of the reads, the shared render mode and the cooldowns. *)
THEOREM ReadTyping == Spec => []TypeOK
<1>1. ReadInv => TypeOK
  BY DEF ReadInv
<1>. QED BY <1>1, ReadInit, ReadInvStep, PTL DEF Spec

(* From "recheck" a read ends only by its own Recheck. *)
LEMMA RefusedByRecheck ==
  ASSUME TypeOK, [Next]_vars, NEW r \in Reads, pc[r] = "recheck", pc'[r] = "idle"
  PROVE  BlockedFor(r)
<1>0. pc \in [Reads -> Pc]
  BY DEF TypeOK
<1>1. ASSUME NEW q \in Reads, q # r, NEW to, pc' = [pc EXCEPT ![q] = to] PROVE FALSE
  BY <1>0, <1>1
<1>a. ASSUME NEW q \in Reads, q # r, Return(q) PROVE FALSE
  BY <1>1, <1>a DEF Return
<1>b. ASSUME NEW q \in Reads, q # r, NEW to \in Pc, GoTo(q, to) PROVE FALSE
  BY <1>1, <1>b DEF GoTo
<1>c. ASSUME NEW to \in Pc, to # "idle", GoTo(r, to) PROVE FALSE
  BY <1>0, <1>c DEF GoTo
<1>2. ASSUME NEW q \in Reads, Local(q) PROVE BlockedFor(r)
  <2>1. CASE Recheck(q)
    BY <2>1, <1>a, <1>b, <1>c DEF Recheck, Pc, Await
  <2>2. CASE Unmark(q)
    BY <2>2, <1>b DEF Unmark, Pc, Await
  <2>3. CASE Gate(q)
    BY <2>3, <1>a, <1>b DEF Gate, Pc, Await
  <2>4. CASE CfError(q)
    BY <2>4, <1>a, <1>b DEF CfError, Pc, Await
  <2>. QED BY <1>2, <2>1, <2>2, <2>3, <2>4 DEF Local
<1>3. ASSUME NEW q \in Reads, Remote(q) PROVE FALSE
  <2>1. CASE ChromeFirst(q)
    BY <2>1, <1>a, <1>b DEF ChromeFirst, Pc, Await
  <2>2. CASE EnterChain(q)
    BY <2>2, <1>a, <1>b DEF EnterChain, Pc, Await
  <2>3. CASE Answered(q)
    <3>1. q # r
      BY <2>3 DEF Answered
    <3>2. Return(q) \/ GoTo(q, "chromeShell") \/ GoTo(q, "cfError") \/ GoTo(q, "gate")
      BY <2>3 DEF Answered
    <3>. QED BY <3>1, <3>2, <1>a, <1>b DEF Pc, Await
  <2>4. CASE SolveFails(q)
    BY <2>4, <1>a DEF SolveFails
  <2>5. CASE SolveSucceeds(q)
    BY <2>5, <1>b DEF SolveSucceeds, Pc, Await
  <2>6. CASE ChromeLast(q)
    BY <2>6, <1>a DEF ChromeLast
  <2>. QED BY <1>3, <2>1, <2>2, <2>3, <2>4, <2>5, <2>6 DEF Remote, Solved
<1>4. ASSUME NEW q \in Reads, DeadlineFires(q) PROVE FALSE
  <2>1. q # r
    BY <1>4 DEF DeadlineFires, Await
  <2>. QED BY <1>4, <2>1, <1>a DEF DeadlineFires
<1>5. ASSUME NEW q \in Reads, NEW c \in Cohorts, Begin(q, c) PROVE FALSE
  <2>1. q # r
    BY <1>5 DEF Begin
  <2>. QED BY <1>0, <1>5, <2>1 DEF Begin
<1>6. CASE Displaced \/ EvictNeg \/ Tick \/ UNCHANGED vars
  BY <1>6 DEF Displaced, EvictNeg, Tick, vars
<1>. QED BY <1>2, <1>3, <1>4, <1>5, <1>6 DEF Next

(* A read is refused at once only when its own cohort has had MaxFailures  *)
(* failed solves since its last success, although one GiveUp, written by   *)
(* either cohort, is shared by both.                                       *)
THEOREM RefusalsAreEarned == Spec => RefusalIsEarned
<1>1. ReadInv /\ [Next]_vars
      => [\A r \in Reads : pc[r] = "recheck" /\ pc'[r] = "idle"
            => earned[cohort[r]] >= MaxFailures]_vars
  <2>. SUFFICES ASSUME ReadInv, [Next]_vars,
                       NEW r \in Reads, pc[r] = "recheck", pc'[r] = "idle"
                PROVE  earned[cohort[r]] >= MaxFailures
    OBVIOUS
  <2>1. BlockedFor(r) /\ cohort[r] \in Cohorts
    BY RefusedByRecheck DEF ReadInv, TypeOK
  <2>. QED BY <2>1 DEF ReadInv, EarnedInv, BlockedFor
<1>. QED BY <1>1, ReadInit, ReadInvStep, PTL DEF Spec, RefusalIsEarned
=============================================================================
