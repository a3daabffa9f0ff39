----------------------------- MODULE MCServices -----------------------------
(* The components that serve one call or one cache each, side by side in   *)
(* one run: a behaviour is one of the component `service` names, and the   *)
(* others keep the state they started in.                                  *)
EXTENDS Transport, Discovery, ProxyPool, Fusion, MediaStore, InboundGate, CallBounds, MCLlmText, MCExtractor

CONSTANTS d1, d2, r1, r2
MCDownloads == {d1, d2}
MCCalls == {r1, r2}
MCSymmetry == Permutations(MCDownloads) \cup Permutations(MCCalls)

(* A site with a cycle and shared sitemaps, of which        *)
(* robots.txt lists one twice, and a deep one with a filter.               *)
Cyclic ==
  [explicit |-> {}, listed |-> <<"a", "b", "a">>, standard |-> <<"a">>,
   kind |-> [a |-> "index", b |-> "index", c |-> "pages", d |-> "pages", e |-> "pages"],
   nested |-> [a |-> <<"b", "e", "c">>, b |-> <<"a", "d", "c">>,
               c |-> <<>>, d |-> <<>>, e |-> <<>>],
   kept |-> {"a", "b", "c", "d", "e"}]
Deep ==
  [explicit |-> {"a"}, listed |-> <<>>, standard |-> <<>>,
   kind |-> [a |-> "index", b |-> "index", c |-> "index", d |-> "pages", e |-> "bad"],
   nested |-> [a |-> <<"b", "c", "e">>, b |-> <<"c">>, c |-> <<"e", "d", "a">>,
               d |-> <<>>, e |-> <<>>],
   kept |-> {"b", "c", "d", "e"}]
MCSites == {Cyclic, Deep}

MCAnswers == {<<"u", "v">>, <<"v">>, <<"w", "v", "w">>}

MCGateConfigs ==
  {[secret |-> FALSE, token |-> FALSE, soft |-> FALSE, insecure |-> TRUE],
   [secret |-> FALSE, token |-> FALSE, soft |-> TRUE, insecure |-> FALSE],
   [secret |-> TRUE, token |-> FALSE, soft |-> TRUE, insecure |-> FALSE],
   [secret |-> TRUE, token |-> TRUE, soft |-> FALSE, insecure |-> FALSE]}

VARIABLE service

(* A component that is not looked at has one initial state. *)
MCInit ==
  /\ service \in {"transport", "discovery", "pool", "fusion", "media", "inbound", "bounds", "text", "extract"}
  /\ RouteInit
  /\ service # "transport" =>
       /\ setup = [tor |-> FALSE, direct |-> FALSE, proxied |-> FALSE, redirects |-> 0]
       /\ hop = [to |-> [onion |-> FALSE, https |-> FALSE], creds |-> TRUE, proxy |-> FALSE]
  /\ DiscoveryInit
  /\ service # "discovery" => site = Deep /\ maxFiles = 2 /\ maxDepth = 1
  /\ FusionInit
  /\ service # "fusion" => asking = "image" /\ most = 1
  /\ InboundInit
  /\ service # "inbound" => config.insecure
  /\ PoolInit /\ MediaInit /\ BoundsInit /\ PageInit /\ ExtractInit

transportRest == <<service, discoveryVars, poolVars, fusionVars, mediaVars, gateRecordVars, boundVars, pageVars, extractVars>>
discoveryRest == <<service, routeVars, poolVars, fusionVars, mediaVars, gateRecordVars, boundVars, pageVars, extractVars>>
poolRest == <<service, routeVars, discoveryVars, fusionVars, mediaVars, gateRecordVars, boundVars, pageVars, extractVars>>
fusionRest == <<service, routeVars, discoveryVars, poolVars, mediaVars, gateRecordVars, boundVars, pageVars, extractVars>>
mediaRest == <<service, routeVars, discoveryVars, poolVars, fusionVars, gateRecordVars, boundVars, pageVars, extractVars>>
inboundRest == <<service, routeVars, discoveryVars, poolVars, fusionVars, mediaVars, boundVars, pageVars, extractVars>>
boundsRest == <<service, routeVars, discoveryVars, poolVars, fusionVars, mediaVars, gateRecordVars, pageVars, extractVars>>
textRest == <<service, routeVars, discoveryVars, poolVars, fusionVars, mediaVars, gateRecordVars, boundVars, extractVars>>
extractRest == <<service, routeVars, discoveryVars, poolVars, fusionVars, mediaVars, gateRecordVars, boundVars, pageVars>>

Routes(step) == service = "transport" /\ step /\ UNCHANGED transportRest
Finds(step) == service = "discovery" /\ step /\ UNCHANGED discoveryRest
Picks(step) == service = "pool" /\ step /\ UNCHANGED poolRest
Fuses(step) == service = "fusion" /\ step /\ UNCHANGED fusionRest
Stores(step) == service = "media" /\ step /\ UNCHANGED mediaRest
Meets(step) == service = "inbound" /\ step /\ UNCHANGED inboundRest
Bounds(step) == service = "bounds" /\ step /\ UNCHANGED boundsRest
Writes(step) == service = "text" /\ step /\ UNCHANGED textRest
Extracts(step) == service = "extract" /\ step /\ UNCHANGED extractRest

MCNext ==
  \/ Routes(\/ Choose \/ Dial \/ Final \/ Reroute \/ Refuse \/ FallBack
            \/ \E to \in Address : Redirect(to))
  \/ Finds(\/ Configured \/ ReadRobots \/ TryStandard \/ ReturnToCaller
           \/ SkipSeen \/ FetchFails \/ ReadFile \/ WalkEnds)
  \/ Picks(\/ \E c \in PoolCallers : GoRound(c) \/ FallbackTurn(c)
           \/ Serve \/ PassOver \/ GiveUpRound \/ EvictStale \/ PoolTick
           \/ \E p \in Proxies : RecordProxySuccess(p) \/ RecordProxyFailure(p))
  \/ Fuses(\/ \E e \in Engines, outcome \in Answers \cup {<<>>, Panic} : EngineEnds(e, outcome)
           \/ JoinNext \/ FusionAnswers)
  \/ Stores(\/ \E d \in Downloads :
                 \/ \E p \in Paths : Ask(d, p)
                 \/ Refused(d) \/ Create(d) \/ Chunk(d) \/ Finish(d)
                 \/ Fail(d) \/ Rename(d) \/ RemovePart(d) \/ Dropped(d)
            \/ CleanUp)
  \/ Meets(\E class \in RouteClasses, ip \in Ips, ua \in UserAgents, secret, bearer \in Credential :
             Inbound(class, ip, ua, secret, bearer))
  \/ Bounds(\E c \in Calls :
             \/ \E where \in DOMAIN Surface, timeout \in Timeouts \cup {Unset} : Call(c, where, timeout)
             \/ \E duration \in Works : Begin(c, duration)
             \/ Guard(c) \/ RefuseBody(c) \/ Reject(c) \/ Complete(c)
             \/ OwnBoundFires(c) \/ LayerBoundFires(c) \/ GoesAway(c))
  \/ Writes(\E piece \in Pieces : Write(piece))
  \/ Extracts(\E fragment \in Fragments, into \in DOMAIN document : Grow(fragment, into))

MCSpec == MCInit /\ [][MCNext]_<<service, routeVars, discoveryVars, poolVars, fusionVars,
                                 mediaVars, gateRecordVars, boundVars, pageVars, extractVars>>
=============================================================================
