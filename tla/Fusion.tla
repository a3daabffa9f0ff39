------------------------------- MODULE Fusion -------------------------------
(***************************************************************************)
(* A search that asks several engines at once and joins their answers in   *)
(* the order in which they finish: reverse image search                    *)
(* (crates/reverse/src/fusion.rs), which keeps that order, and image       *)
(* search (crates/imagesearch/src/fusion.rs), which ranks by reciprocal    *)
(* rank.  An engine that fails answers with nothing; one that panics ends  *)
(* the loop that joins them, and what is not joined is dropped.            *)
(***************************************************************************)
EXTENDS Naturals, Sequences, FiniteSets, Functions, SequencesExt

CONSTANTS
  Engines,
  Answers,        \* what an engine may answer: sequences of URLs
  FusionLimits,   \* values of max
  Scale           \* a common multiple of the denominators of the scores

RankOffset == 60                                  \* RRF_K

ASSUME FusionAssumption ==
  /\ FusionLimits \subseteq Nat /\ Scale \in Nat
  /\ \A answer \in Answers : /\ answer \in Seq(Range(answer))
                             /\ \A k \in DOMAIN answer : Scale % (RankOffset + k - 1) = 0

VARIABLES
  asking,         \* "reverse" or "image"
  most,           \* max
  running,        \* engines whose task has not ended
  ended,          \* the answers of tasks that ended and are not joined yet
  joined,         \* the URLs joined, each with its rank in its answer
  panicked,       \* a joined task had panicked
  fused,          \* the result
  given           \* history: the URLs that engines have answered with

fusionVars == <<asking, most, running, ended, joined, panicked, fused, given>>

Panic == <<"panic">>
NoResult == <<"none">>

FusionInit ==
  /\ asking \in {"reverse", "image"} /\ most \in FusionLimits
  /\ running = Engines /\ ended = <<>> /\ joined = <<>>
  /\ panicked = FALSE /\ fused = NoResult /\ given = {}

(* A task ends: an answer, nothing after an error, or a panic. *)
EngineEnds(e, outcome) ==
  /\ e \in running
  /\ running' = running \ {e} /\ ended' = Append(ended, outcome)
  /\ given' = IF outcome = Panic THEN given ELSE given \cup Range(outcome)
  /\ UNCHANGED <<asking, most, joined, panicked, fused>>

Places(answer) == [k \in DOMAIN answer |-> [url |-> answer[k], rank |-> k - 1]]

JoinNext ==
  /\ fused = NoResult /\ ~panicked /\ ended # <<>>
  /\ ended' = Tail(ended)
  /\ IF Head(ended) = Panic
     THEN panicked' = TRUE /\ UNCHANGED joined
     ELSE joined' = joined \o Places(Head(ended)) /\ UNCHANGED panicked
  /\ UNCHANGED <<asking, most, running, fused, given>>

-----------------------------------------------------------------------------
(* Each URL where it comes first.  (Recursive functions rather than folds: *)
(* CollectionProofs is about them.)                                        *)
Firsts(urls) ==
  LET firsts[n \in 0..Len(urls)] ==
        IF n = 0 THEN <<>>
        ELSE IF Contains(firsts[n - 1], urls[n]) THEN firsts[n - 1] ELSE Append(firsts[n - 1], urls[n])
  IN  firsts[Len(urls)]

AllJoined == [k \in DOMAIN joined |-> joined[k].url]
Upto(n, urls) == SubSeq(urls, 1, IF Len(urls) < n THEN Len(urls) ELSE n)

(* 1 / (RRF_K + rank) as a multiple of 1 / Scale, ranks from 0. *)
Points(rank) == Scale \div (RankOffset + rank)

(* What the answers give a URL, for each place at which it comes. *)
Score(u) ==
  LET sum[n \in 0..Len(joined)] ==
        IF n = 0 THEN 0
        ELSE sum[n - 1] + (IF joined[n].url = u THEN Points(joined[n].rank) ELSE 0)
  IN  sum[Len(joined)]

(* fuse_wrr: the best first, of equals the one that came first. *)
Ranked(urls) ==
  LET before(m, n) == \/ Score(urls[m]) > Score(urls[n])
                      \/ Score(urls[m]) = Score(urls[n]) /\ m < n
      place(n) == Cardinality({m \in DOMAIN urls : before(m, n)}) + 1
  IN  [k \in DOMAIN urls |-> urls[CHOOSE n \in DOMAIN urls : place(n) = k]]

(* Mutant: the matches are cut before those found twice are dropped. *)
CutFirst ==
  IF asking = "image" THEN Upto(most, Ranked(Firsts(AllJoined)))
  ELSE Firsts(Upto(most, AllJoined))

Result ==
  IF asking = "image" THEN Upto(most, Ranked(Firsts(AllJoined)))
  ELSE Upto(most, Firsts(AllJoined))

(* The loop is over: all have been joined, or one has panicked.  What is   *)
(* still running is aborted with the JoinSet.                              *)
FusionAnswers ==
  /\ fused = NoResult
  /\ panicked \/ (running = {} /\ ended = <<>>)
  /\ fused' = Result
  /\ running' = {} /\ ended' = <<>>
  /\ UNCHANGED <<asking, most, joined, panicked, given>>

FusionNext ==
  \/ \E e \in Engines, outcome \in Answers \cup {<<>>, Panic} : EngineEnds(e, outcome)
  \/ JoinNext \/ FusionAnswers

FusionSpec == FusionInit /\ [][FusionNext]_fusionVars

-----------------------------------------------------------------------------
(* Unless an engine panics, the result is as long as the limit and the     *)
(* URLs given allow, whatever the order in which engines finish; it names  *)
(* none twice; and in an image search no URL given is left out, or comes   *)
(* after another, that has the better score.                               *)
NothingLostWithoutPanic ==
  fused # NoResult =>
    /\ IsInjective(fused)
    /\ Range(fused) \subseteq given
    /\ ~panicked => Len(fused) = IF Cardinality(given) < most THEN Cardinality(given) ELSE most
    /\ ~panicked /\ asking = "image" =>
         /\ \A u \in Range(fused), v \in given \ Range(fused) : Score(u) >= Score(v)
         /\ \A m, n \in DOMAIN fused : m < n => Score(fused[m]) >= Score(fused[n])
=============================================================================
