----------------------------- MODULE MCRequests -----------------------------
(* What a request of a crawl passes, one after the other: the robots gate  *)
(* of the crawler, the rate limiter of its domain, and the middleware      *)
(* chain.  They share no state, so a behaviour is one of one of them.      *)
EXTENDS MCRobotsGate, MCRateLimit, MCRequestChain
VARIABLE part
mcVars == <<part, gateVars, limitVars, vars>>

Robots(step) == part = "robots" /\ step /\ UNCHANGED <<part, limitVars, vars>>
Limiter(step) == part = "limiter" /\ step /\ UNCHANGED <<part, gateVars, vars>>
Chain(step) == part = "chain" /\ step /\ UNCHANGED <<part, gateVars, limitVars>>

ChainAtRest ==
  /\ cfg = [layer \in Layer |-> FALSE] /\ req = [method |-> "GET", onion |-> FALSE]
  /\ pc = "done" /\ result = Result("none", "ok")
  /\ pass = "cold" /\ attempt = 0 /\ proxied = FALSE /\ ua = "own"
  /\ sends = 0 /\ solves = 0 /\ marked = FALSE
  /\ processed = 0 /\ mistaken = FALSE /\ last = "ok"

MCInit ==
  /\ part \in {"robots", "limiter", "chain"}
  /\ GateInit /\ LimitInit
  /\ IF part = "chain" THEN Init ELSE ChainAtRest

MCNext ==
  \/ \E t \in Tasks :
       \/ Robots(Ensure(t)) \/ Robots(Valve(t)) \/ Robots(Store(t)) \/ Robots(Panic(t))
       \/ Robots(Check(t)) \/ Robots(Got(t))
       \/ \E u \in Url : Robots(Start(t, u))
  \/ Robots(Tick)
  \/ \E c \in Callers :
       \/ Limiter(Ask(c)) \/ Limiter(CheckDelay(c)) \/ Limiter(AllowUnblocked(c))
       \/ Limiter(DenyBlocked(c)) \/ Limiter(Record(c)) \/ Limiter(Respond(c))
       \/ Limiter(TooManyRequests(c))
  \/ Limiter(Evict) \/ Limiter(LimitTick)
  \/ Chain(Limit) \/ Chain(Enter) \/ Chain(Send) \/ Chain(Residential) \/ Chain(Retry)
  \/ Chain(Back) \/ Chain(Solve) \/ Chain(Return) \/ Chain(Done)

(* The fairness of the parts. *)
MCSpec ==
  /\ MCInit /\ [][MCNext]_mcVars
  /\ WF_mcVars(Robots(Tick)) /\ WF_mcVars(Limiter(LimitTick)) /\ WF_mcVars(Chain(Next))
  /\ \A t \in Tasks : WF_mcVars(Robots(Step(t)))
  /\ \A c \in Callers : WF_mcVars(Limiter(CallStep(c)))
=============================================================================
