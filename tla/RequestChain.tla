---------------------------- MODULE RequestChain ----------------------------
(***************************************************************************)
(* One request on its way through the middleware chain that               *)
(* crates/http/src/client.rs builds, outermost first:                      *)
(*   rate limit > solver > retry > residential proxy                       *)
(*     > cloudflare_detect > quality check > transport.                    *)
(* Each layer is optional; cfg says which are there.  The request goes     *)
(* down, the answer comes up, and a layer may send the request down again. *)
(* The SSRF and logging layers outside and the client hints inside only    *)
(* refuse or decorate a request, and are left out.                         *)
(*                                                                         *)
(* What the origin or Cloudflare answers, what the solver achieves and     *)
(* what the caches other requests share hold (cookies, cooldowns) is a     *)
(* nondeterministic choice at the moment the code reads it; SolverCaches   *)
(* models the caches.  Bodies, headers and waits are left out.             *)
(***************************************************************************)
EXTENDS Naturals

CONSTANTS MaxRetries    \* RetryConfig::max_retries

ASSUME RetryAssumption == MaxRetries \in Nat

Method == {"GET", "PUT", "POST"}

(* What the transport returns: a response of the origin (a good page, one  *)
(* with little visible text, 401/403, 429 with Retry-After, 503, other 5xx,*)
(* a page at 200 that embeds a Turnstile widget), a challenge of           *)
(* Cloudflare, which the origin never sees, or an error.                   *)
Served == {"ok", "stub", "denied", "limited", "unavailable", "broken", "widget"}
Challenge == {"js", "managed", "blocked"}
Failed == {"timeout", "fatal"}
Answer == Served \cup Challenge \cup Failed

VARIABLES
  cfg,        \* the layers of the chain
  req,        \* the request
  pc,         \* the layer that acts next
  result,     \* what comes up
  pass,       \* the solver's pass: "cold", "cached", "resend"
  attempt,    \* retry_do's attempt
  proxied,    \* Request::proxy is the residential proxy
  ua,         \* whose user-agent and cookies the request carries
  \* History, read by properties only.
  sends, solves, marked,
  processed,  \* sends the origin may have processed
  mistaken,   \* an origin's page was taken for a challenge
  last        \* the last answer

vars == <<cfg, req, pc, result, pass, attempt, proxied, ua,
          sends, solves, marked, processed, mistaken, last>>

Layer == {"limiter", "solver", "retry", "residential", "detect", "quality"}
Pc == {"limit", "enter", "send", "residential", "retry", "back", "solve", "up", "done"}
Tag == {"none", "ok", "cloudflare", "inferred", "status", "net", "fatal", "solver"}

Idempotent == req.method # "POST"
Has(layer) == cfg[layer]
(* Mutant: the solver serves onion addresses too. *)
SolverActsAnyHost == Has("solver")
SolverActs == Has("solver") /\ ~req.onion

Result(tag, what) == [tag |-> tag, what |-> what]
IsChallenged(r) == r.tag \in {"cloudflare", "inferred"}
IsRetryable(r) == r.tag \in {"status", "net"}

(* The history counters are capped: one more than the bounds they test.    *)
SendCap == 4 * (MaxRetries + 1) + 1
Up(n, cap) == IF n < cap THEN n + 1 ELSE cap

-----------------------------------------------------------------------------
(* The quality check and cloudflare_detect: markers of Cloudflare make a   *)
(* Cloudflare error, a fallback-worthy status or a stub page an inferred   *)
(* one; an onion answer is never classified.                               *)
Markers == Challenge \cup {"widget"}
Fallback == {"denied", "limited", "unavailable", "stub"}
RetryStatus == {"limited", "unavailable", "broken", "js"}    \* js is a 503

Classify(a) ==
  IF a = "timeout" THEN Result("net", a)
  ELSE IF a = "fatal" THEN Result("fatal", a)
  ELSE IF req.onion THEN Result("ok", a)
  ELSE IF a \in Markers /\ (Has("quality") \/ Has("detect")) THEN Result("cloudflare", a)
  ELSE IF Has("quality") /\ a \in Fallback THEN Result("inferred", a)
  ELSE Result("ok", a)

Init ==
  /\ cfg \in [Layer -> BOOLEAN]
  /\ req \in [method : Method, onion : BOOLEAN]
  /\ pc = "limit" /\ result = Result("none", "ok")
  /\ pass = "cold" /\ attempt = 0 /\ proxied = FALSE /\ ua = "own"
  /\ sends = 0 /\ solves = 0 /\ marked = FALSE
  /\ processed = 0 /\ mistaken = FALSE /\ last = "ok"

(* RateLimitHandler, on the way down: one wait per request. *)
Limit ==
  /\ pc = "limit"
  /\ pc' = "enter"
  /\ UNCHANGED <<cfg, req, result, pass, attempt, proxied, ua,
                 sends, solves, marked, processed, mistaken, last>>

(* SolverHandler::handle: a cached solution goes into a copy of the        *)
(* request; without one, a domain on cooldown fails fast.                  *)
Enter ==
  /\ pc = "enter"
  /\ \/ ~SolverActs /\ pc' = "send" /\ UNCHANGED <<result, pass, ua>>
     \/ /\ SolverActs
        /\ pc' = "send" /\ pass' = "cached" /\ ua' = "cached"
        /\ UNCHANGED result
     \/ SolverActs /\ pc' = "send" /\ UNCHANGED <<result, pass, ua>>
     \/ /\ SolverActs
        /\ pc' = "up" /\ result' = Result("solver", "cooldown")
        /\ UNCHANGED <<pass, ua>>
  /\ UNCHANGED <<cfg, req, attempt, proxied,
                 sends, solves, marked, processed, mistaken, last>>

(* The transport, and the classification of its answer. *)
Send ==
  /\ pc = "send"
  /\ \E a \in Answer :
       /\ result' = Classify(a)
       /\ last' = a
       /\ processed' = IF a \in Challenge THEN processed ELSE Up(processed, 2)
       /\ mistaken' = (mistaken \/ Classify(a) = Result("cloudflare", "widget"))
  /\ sends' = Up(sends, SendCap)
  /\ pc' = "residential"
  /\ UNCHANGED <<cfg, req, pass, attempt, proxied, ua, solves, marked>>

(* Mutant: every inferred challenge is resent, whatever the method. *)
ResidentialAnyMethod ==
  /\ pc = "residential"
  /\ LET resend == Has("residential") /\ ~proxied /\ IsChallenged(result)
     IN  /\ proxied' = resend
         /\ pc' = IF resend THEN "send" ELSE "retry"
  /\ UNCHANGED <<cfg, req, result, pass, attempt, ua,
                 sends, solves, marked, processed, mistaken, last>>

(* Mutant: the one-shot guard on Request::proxy is missing. *)
ResidentialAgain ==
  /\ pc = "residential"
  /\ LET resend == Has("residential") /\ IsChallenged(result)
     IN  /\ proxied' = resend
         /\ pc' = IF resend THEN "send" ELSE "retry"
  /\ UNCHANGED <<cfg, req, result, pass, attempt, ua,
                 sends, solves, marked, processed, mistaken, last>>

(* ResidentialHandler: resend once through the residential proxy, but not  *)
(* a block, not a managed challenge at 200, and not an inferred challenge  *)
(* of a POST, whose response is handed up instead.                         *)
Residential ==
  /\ pc = "residential"
  /\ LET acts == Has("residential") /\ ~req.onion /\ ~proxied /\ IsChallenged(result)
         unwrap == acts /\ result.tag = "inferred" /\ ~Idempotent
         futile == result.tag = "cloudflare" /\ result.what \in {"blocked", "managed"}
         resend == acts /\ ~unwrap /\ ~futile
     IN  /\ proxied' = resend
         /\ pc' = IF resend THEN "send" ELSE "retry"
         /\ result' = IF unwrap THEN Result("ok", result.what) ELSE result
  /\ UNCHANGED <<cfg, req, pass, attempt, ua,
                 sends, solves, marked, processed, mistaken, last>>

(* RetryHandler: a retryable status of an idempotent request is an error,  *)
(* and retry_do tries again on a retryable error; a POST is tried once and *)
(* gets its inferred challenge's response back.                            *)
Attempted ==
  IF Idempotent
  THEN IF result.tag = "ok" /\ result.what \in RetryStatus
       THEN Result("status", result.what) ELSE result
  ELSE IF result.tag = "inferred" THEN Result("ok", result.what) ELSE result

(* Mutant: the attempt is not counted. *)
RetryForever ==
  /\ pc = "retry"
  /\ LET r == IF Has("retry") THEN Attempted ELSE result
         again == Has("retry") /\ Idempotent /\ IsRetryable(r)
     IN  /\ pc' = IF again THEN "send" ELSE "back"
         /\ result' = r
  /\ proxied' = FALSE
  /\ UNCHANGED <<cfg, req, pass, attempt, ua,
                 sends, solves, marked, processed, mistaken, last>>

(* Mutant: a POST's inferred challenge stays an error. *)
RetryKeepsError ==
  /\ pc = "retry"
  /\ LET r == IF Has("retry") /\ Idempotent THEN Attempted ELSE result
         again == Has("retry") /\ Idempotent /\ IsRetryable(r) /\ attempt < MaxRetries
     IN  /\ attempt' = IF again THEN attempt + 1 ELSE 0
         /\ pc' = IF again THEN "send" ELSE "back"
         /\ result' = r
  /\ proxied' = FALSE
  /\ UNCHANGED <<cfg, req, pass, ua, sends, solves, marked, processed, mistaken, last>>

Retry ==
  /\ pc = "retry"
  /\ LET r == IF Has("retry") THEN Attempted ELSE result
         again == Has("retry") /\ Idempotent /\ IsRetryable(r) /\ attempt < MaxRetries
     IN  /\ attempt' = IF again THEN attempt + 1 ELSE 0
         /\ pc' = IF again THEN "send" ELSE "back"
         /\ result' = r
  /\ proxied' = FALSE
  /\ UNCHANGED <<cfg, req, pass, ua, sends, solves, marked, processed, mistaken, last>>

(* resolve_challenge, on the answer of the first pass: blocks go up, a     *)
(* POST's inferred challenge is unwrapped, the others are solved with the  *)
(* pristine request.  The answer of a resend goes up as it is.             *)
Back ==
  /\ pc = "back"
  /\ LET decide == SolverActs /\ pass # "resend" /\ IsChallenged(result)
         unwrap == decide /\ result.tag = "inferred" /\ ~Idempotent
         solve == decide /\ ~unwrap /\ result # Result("cloudflare", "blocked")
     IN  /\ pc' = IF solve THEN "solve" ELSE "up"
         /\ ua' = IF solve THEN "own" ELSE ua
         /\ result' = IF unwrap THEN Result("ok", result.what) ELSE result
  /\ UNCHANGED <<cfg, req, pass, attempt, proxied,
                 sends, solves, marked, processed, mistaken, last>>

(* solve_and_retry: a cooldown or a failed solve is the solver's error; a  *)
(* solution with the page's body answers a GET at once; otherwise its      *)
(* cookies, and its user-agent if it has one, go on the resend.            *)
Solve ==
  /\ pc = "solve"
  /\ \/ /\ pc' = "up" /\ result' = Result("solver", "cooldown")
        /\ UNCHANGED <<pass, ua, solves>>
     \/ /\ solves' = Up(solves, 2)
        /\ \/ pc' = "up" /\ result' = Result("solver", "failed") /\ UNCHANGED <<pass, ua>>
           \/ /\ req.method = "GET"
              /\ pc' = "up" /\ result' = Result("ok", "ok")
              /\ UNCHANGED <<pass, ua>>
           \/ /\ pc' = "send" /\ pass' = "resend"
              /\ ua' \in {ua, "fresh"}
              /\ UNCHANGED result
  /\ UNCHANGED <<cfg, req, attempt, proxied, sends, marked, processed, mistaken, last>>

(* RateLimitHandler, on the way up: a 429 response marks the domain. *)
Return ==
  /\ pc = "up"
  /\ marked' = (Has("limiter") /\ result = Result("ok", "limited"))
  /\ pc' = "done"
  /\ UNCHANGED <<cfg, req, result, pass, attempt, proxied, ua,
                 sends, solves, processed, mistaken, last>>

Done == pc = "done" /\ UNCHANGED vars

Next ==
  \/ Limit \/ Enter \/ Send \/ Residential \/ Retry \/ Back \/ Solve \/ Return
  \/ Done

Spec == Init /\ [][Next]_vars

(* Every send and every solve ends: the client and the provider time out.  *)
FairSpec == Spec /\ WF_vars(Next)

-----------------------------------------------------------------------------
(* Types; retry_do never counts an attempt beyond max_retries. *)
TypeOK ==
  /\ cfg \in [Layer -> BOOLEAN] /\ req \in [method : Method, onion : BOOLEAN]
  /\ pc \in Pc /\ result \in [tag : Tag, what : Answer \cup {"cooldown", "failed"}]
  /\ pass \in {"cold", "cached", "resend"} /\ attempt \in 0..MaxRetries
  /\ proxied \in BOOLEAN /\ ua \in {"own", "cached", "fresh"}
  /\ sends \in 0..SendCap /\ solves \in 0..2 /\ marked \in BOOLEAN
  /\ processed \in 0..2 /\ mistaken \in BOOLEAN /\ last \in Answer

(* The layers multiply, but no more than that: a request is sent at most   *)
(* once per pass of the solver, attempt and proxy that apply to it.        *)
SendBudget ==
  LET passes == IF SolverActs THEN 2 ELSE 1
      attempts == IF Has("retry") /\ Idempotent THEN MaxRetries + 1 ELSE 1
      proxies == IF Has("residential") /\ ~req.onion THEN 2 ELSE 1
  IN  sends <= passes * attempts * proxies

(* client.rs: one challenged request costs at most one provider.solve(),   *)
(* however its attempts, resends and stale cookies turn out.               *)
AtMostOneSolve == solves <= 1

(* A POST the origin may have processed is never sent again by any layer,  *)
(* as long as no page of the origin is taken for a challenge.              *)
SingleProcessing == ~Idempotent /\ ~mistaken => processed <= 1

(* A POST that the origin answered ends with that response, not with an    *)
(* error made of it, wherever in a chain with retries it is unwrapped.     *)
ResponseKept ==
  pc = "done" /\ ~Idempotent /\ Has("retry") /\ last \in Served \ {"widget"}
    => result = Result("ok", last) \/ sends = 0

(* An onion request stays on Tor: no residential proxy, no solver and no   *)
(* cookies of a solved challenge, whatever its answers look like.          *)
OnionUntouched == req.onion => ~proxied /\ solves = 0 /\ ua = "own"

(* The resend after a solve never carries the fingerprint of the cached    *)
(* solution that was just rejected.                                        *)
FreshFingerprint == pass = "resend" => ua # "cached"

(* A POST whose last answer is a 429 blocks the domain, though layers in   *)
(* between make an error of the answer and another makes a response of it  *)
(* again.                                                                  *)
RefusedMutationBlocks ==
  pc = "done" /\ Has("limiter") /\ Has("retry") /\ ~Idempotent /\ sends > 0 /\ last = "limited"
    => marked

(* Every request comes back, however it is answered. *)
EveryRequestReturns == <>(pc = "done")

(* error.rs of a genuine challenge: "the origin never saw it. Safe to      *)
(* re-send on any method": no POST is processed twice.                     *)
NoDuplicateMutation == ~Idempotent => processed <= 1

(* middleware_ratelimit.rs: "After receiving a 429, parses Retry-After and *)
(* marks the domain as blocked".                                           *)
RetryAfterHonoured ==
  pc = "done" /\ Has("limiter") /\ sends > 0 /\ last = "limited" => marked
=============================================================================
