----------------------------- MODULE CallBounds -----------------------------
(***************************************************************************)
(* The bounds a call of the service runs under (crates/http/src/           *)
(* deadline.rs): the layer around most REST routes (crates/js/src/         *)
(* deadline_layer.rs), the dispatch of the MCP tools (crates/mcp/src/      *)
(* lib.rs), and the bound that a handler sets itself and answers for in    *)
(* its own words (fetch.rs, fetch_smart.rs, read_pipeline.rs).             *)
(*                                                                         *)
(* Times are seconds.  How long the work would take is chosen when it      *)
(* starts, and what ends first ends the call: the work, a bound, or the    *)
(* caller's going away, upon which hyper drops the handler.  At equal      *)
(* times any of them may come first.                                       *)
(***************************************************************************)
EXTENDS Naturals, FiniteSets, FiniteSetsExt

CONSTANTS
  Calls,
  Timeouts,       \* what callers ask for, besides nothing
  Works           \* how long the work of a call would take

ASSUME TimeAssumption == Timeouts \subseteq Nat /\ Works \subseteq Nat

SolverCallBound == 130
MediaDownloadBound == 130
ChromeProxyBound == 70
CrawlBound == 120
MaxCallTimeout == SolverCallBound
ReadDefault == 8
FetchDefault == 15
SmartDefault == 30
OnionDefault == 60

(* No timeout, and no bound; longer than any. *)
Unset == 1000

(* layer: the bound around the handler.  own: the handler's bound of a     *)
(* call that asks for none.  limit: the timeout of the client behind it.   *)
Surface ==
  [fetch |-> [layer |-> Unset, own |-> FetchDefault, limit |-> Unset],
   onionFetch |-> [layer |-> Unset, own |-> OnionDefault, limit |-> Unset],
   read |-> [layer |-> Unset, own |-> ReadDefault, limit |-> Unset],
   smart |-> [layer |-> SolverCallBound, own |-> SmartDefault, limit |-> Unset],
   analyse |-> [layer |-> SolverCallBound, own |-> Unset, limit |-> Unset],
   media |-> [layer |-> MediaDownloadBound, own |-> Unset, limit |-> Unset],
   chrome |-> [layer |-> ChromeProxyBound, own |-> Unset, limit |-> 60],
   crawlTool |-> [layer |-> CrawlBound, own |-> Unset, limit |-> Unset]]

VARIABLES
  callAt,         \* "idle", "layer", "handler", "work", "done"
  surface, asked, takes,
  bounds,         \* OutboundGuards alive, of each call
  inflight,       \* OUTBOUND_INFLIGHT
  answer,         \* what the caller got
  counted         \* outcomes of the call recorded for /fetch

boundVars == <<callAt, surface, asked, takes, bounds, inflight, answer, counted>>

Clamp(n, low, high) == Max({low, Min({n, high})})

(* resolve_timeout and resolve_timeout_for, with the default filled in. *)
Own(c) ==
  IF Surface[surface[c]].own = Unset THEN Unset
  ELSE Clamp(IF asked[c] = Unset THEN Surface[surface[c]].own ELSE asked[c], 1, MaxCallTimeout)

(* Mutant: the bound of a fetch for every route. *)
LayerOfFetch(c) ==
  IF Surface[surface[c]].layer = Unset THEN Unset ELSE Clamp(asked[c], 1, ReadDefault)

LayerBound(c) ==
  IF Surface[surface[c]].layer = Unset THEN Unset
  ELSE Clamp(asked[c], 1, Surface[surface[c]].layer)

-----------------------------------------------------------------------------
BoundsInit ==
  /\ callAt = [c \in Calls |-> "idle"] /\ surface = [c \in Calls |-> "fetch"]
  /\ asked = [c \in Calls |-> Unset] /\ takes = [c \in Calls |-> 0]
  /\ bounds = [c \in Calls |-> 0] /\ inflight = 0
  /\ answer = [c \in Calls |-> "none"] /\ counted = [c \in Calls |-> 0]

Call(c, where, timeout) ==
  /\ callAt[c] = "idle"
  /\ callAt' = [callAt EXCEPT ![c] = "layer"]
  /\ surface' = [surface EXCEPT ![c] = where] /\ asked' = [asked EXCEPT ![c] = timeout]
  /\ UNCHANGED <<takes, bounds, inflight, answer, counted>>

(* The call is over: its futures are dropped, and their guards with them. *)
End(c, with) ==
  /\ callAt' = [callAt EXCEPT ![c] = "done"]
  /\ answer' = [answer EXCEPT ![c] = with]
  /\ inflight' = inflight - bounds[c]
  /\ bounds' = [bounds EXCEPT ![c] = 0]
  /\ UNCHANGED <<surface, asked, takes>>

(* bounded: a guard, if there is a bound. *)
Arm(c, bound, to) ==
  /\ callAt' = [callAt EXCEPT ![c] = to]
  /\ bounds' = IF bound = Unset THEN bounds ELSE [bounds EXCEPT ![c] = @ + 1]
  /\ inflight' = IF bound = Unset THEN inflight ELSE inflight + 1

(* deadline_guard reads the body for the timeout (or refuses the body);    *)
(* dispatch_deadline has it at hand.                                       *)
Guard(c) ==
  /\ callAt[c] = "layer"
  /\ Arm(c, LayerBound(c), "handler")
  /\ UNCHANGED <<surface, asked, takes, answer, counted>>

RefuseBody(c) ==
  /\ callAt[c] = "layer" /\ LayerBound(c) # Unset
  /\ End(c, "refused") /\ UNCHANGED counted

(* The handler rejects its input, or starts the work under its own bound. *)
Reject(c) == callAt[c] = "handler" /\ End(c, "rejected") /\ UNCHANGED counted

Begin(c, duration) ==
  /\ callAt[c] = "handler"
  /\ Arm(c, Own(c), "work")
  /\ takes' = [takes EXCEPT ![c] = Min({duration, Surface[surface[c]].limit})]
  /\ UNCHANGED <<surface, asked, answer, counted>>

Fetching(c) == surface[c] \in {"fetch", "onionFetch"}
CountOutcome(c) == counted' = IF Fetching(c) THEN [counted EXCEPT ![c] = @ + 1] ELSE counted

Complete(c) ==
  /\ callAt[c] = "work" /\ takes[c] <= Own(c) /\ takes[c] <= LayerBound(c)
  /\ End(c, "work") /\ CountOutcome(c)

(* The handler's bound: 504, or a tool error, in the handler's own words. *)
OwnBoundFires(c) ==
  /\ callAt[c] = "work" /\ Own(c) # Unset
  /\ Own(c) <= takes[c] /\ Own(c) <= LayerBound(c)
  /\ End(c, "typed") /\ CountOutcome(c)

(* The layer's: the uniform 504. *)
LayerBoundFires(c) ==
  /\ callAt[c] = "work" /\ LayerBound(c) # Unset
  /\ LayerBound(c) <= takes[c] /\ LayerBound(c) <= Own(c)
  /\ End(c, "generic") /\ UNCHANGED counted

(* Mutant: the gauge is only decremented by a call that returns. *)
GoesAwayCounted(c) ==
  /\ callAt[c] \in {"layer", "handler", "work"}
  /\ callAt' = [callAt EXCEPT ![c] = "done"] /\ answer' = [answer EXCEPT ![c] = "gone"]
  /\ bounds' = [bounds EXCEPT ![c] = 0]
  /\ UNCHANGED <<surface, asked, takes, inflight, counted>>

(* The caller goes away. *)
GoesAway(c) ==
  /\ callAt[c] \in {"layer", "handler", "work"}
  /\ End(c, "gone") /\ UNCHANGED counted

BoundsNext ==
  \E c \in Calls :
    \/ \E where \in DOMAIN Surface, timeout \in Timeouts \cup {Unset} : Call(c, where, timeout)
    \/ Guard(c) \/ RefuseBody(c) \/ Reject(c) \/ (\E duration \in Works : Begin(c, duration))
    \/ Complete(c) \/ OwnBoundFires(c) \/ LayerBoundFires(c) \/ GoesAway(c)

BoundsSpec == BoundsInit /\ [][BoundsNext]_boundVars

-----------------------------------------------------------------------------
(* Under two bounds the caller gets the answer of the right one: a call    *)
(* that asks for no timeout is cut in the words of a handler that has      *)
(* some, and work that its own client ends in time is never cut at all; no *)
(* call outlives what it asked for, within a second; and each fetch that   *)
(* is answered after its work began is counted once.                       *)
RightBoundAnswers ==
  \A c \in Calls :
    /\ answer[c] = "generic" => asked[c] # Unset \/ Surface[surface[c]].own = Unset
    /\ answer[c] \in {"typed", "generic"} /\ asked[c] = Unset
         => Surface[surface[c]].limit = Unset
    /\ answer[c] = "work" => takes[c] <= Max({1, asked[c]})
    /\ counted[c] = IF Fetching(c) /\ answer[c] \in {"work", "typed"} THEN 1 ELSE 0

(* The gauge tells the work in flight: with no call under a bound it is    *)
(* back at zero, whoever went away, and a call counts at most twice.       *)
GaugeSettles ==
  /\ inflight <= 2 * Cardinality({c \in Calls : callAt[c] \in {"handler", "work"}})
  /\ (\A c \in Calls : callAt[c] \in {"idle", "layer", "done"}) => inflight = 0
=============================================================================
