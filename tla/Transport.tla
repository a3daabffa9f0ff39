----------------------------- MODULE Transport ------------------------------
(***************************************************************************)
(* One request in the terminal handler (crates/http/src/handler_reqwest.rs):*)
(* which client sends it, what that client follows by itself               *)
(* (ssrf_connect.rs), when a redirect is routed afresh because it crosses  *)
(* the onion boundary (tor.rs), and when a dead proxy is replaced by a     *)
(* direct connection (proxy_fallback.rs).                                  *)
(*                                                                         *)
(* wreq follows redirects inside one send and reports only one kind of     *)
(* error for a proxy that cannot be dialled and for a CONNECT tunnel that  *)
(* a living proxy could not open.  Addresses are a zone and a scheme; the  *)
(* checks of literal and private addresses, which only refuse, are one     *)
(* choice; methods and bodies are left out.                                *)
(***************************************************************************)
EXTENDS Naturals

CONSTANT MaxRedirectsBound      \* the largest max_redirects tried

ASSUME RedirectAssumption == MaxRedirectsBound \in Nat

VARIABLES
  setup,          \* the handler: tor, direct sibling, proxied base client,
                  \* max_redirects
  hop,            \* the request of the present hop, as handle_hop got it
  at,             \* the address wreq is at, redirects included
  client,         \* who sends: "tor", "base", "direct", or "none" yet
  routing,        \* where the handler is
  hops,           \* reroutes across the boundary
  inner,          \* redirects followed inside this send
  proxyDead,      \* the proxy of this send does not answer
  dials,          \* history: connections tried
  leaked          \* history: what was sent where it must not go

routeVars == <<setup, hop, at, client, routing, hops, inner, proxyDead, dials, leaked>>

Address == [onion : BOOLEAN, https : BOOLEAN]
Request == [to : Address, creds : BOOLEAN, proxy : BOOLEAN]
Handler == [tor : BOOLEAN, direct : BOOLEAN, proxied : BOOLEAN, redirects : 0..MaxRedirectsBound]

(* first_attempt_uses_proxy: the request's own, a pool's or a static one. *)
UsesProxy == setup.proxied \/ hop.proxy
Proxied == client = "base" /\ UsesProxy

(* Mutant: only a hop into the onion zone is taken for crossing. *)
CrossesInOnly(to) == to.onion /\ client # "tor"

(* crosses_onion_boundary, for the client that sends. *)
Crosses(to) == to.onion # (client = "tor")

-----------------------------------------------------------------------------
RouteInit ==
  /\ setup \in Handler
  /\ hop \in [to : Address, creds : {TRUE}, proxy : BOOLEAN]
  /\ at = hop.to /\ client = "none" /\ routing = "route"
  /\ hops = 0 /\ inner = 0 /\ proxyDead = FALSE
  /\ dials = 0 /\ leaked = {}

Stop == routing' = "done" /\ UNCHANGED <<setup, hop, at, client, hops, inner, proxyDead, dials, leaked>>

(* handle_hop: an onion address goes to the Tor client or nowhere, another *)
(* to the base client; a proxy that cannot be attached is an error.        *)
Choose ==
  /\ routing = "route"
  /\ \/ hop.to.onion /\ ~setup.tor /\ Stop
     \/ UsesProxy /\ ~hop.to.onion /\ Stop
     \/ /\ hop.to.onion => setup.tor
        /\ client' = IF hop.to.onion THEN "tor" ELSE "base"
        /\ at' = hop.to /\ inner' = 0 /\ routing' = "dial"
        /\ proxyDead' \in BOOLEAN
        /\ UNCHANGED <<setup, hop, hops, dials, leaked>>

(* What a connection gives away: an onion name outside Tor, an address of  *)
(* the open net to Tor, credentials to the other side of the boundary.     *)
Given ==
  (IF at.onion # (client = "tor") THEN {"name"} ELSE {})
  \cup (IF hop.creds /\ hops > 0 THEN {"credentials"} ELSE {})

(* wreq connects.  A dead proxy fails the dial; a tunnel through a living  *)
(* one may fail too, and both are reported alike (is_proxy_connect).       *)
Dial ==
  /\ routing = "dial"
  /\ dials' = dials + 1
  /\ leaked' = leaked \cup Given
  /\ IF Proxied /\ proxyDead
     THEN routing' = "proxyConnect"
     ELSE \/ routing' \in {"answer", "done"}       \* done: any other error
          \/ Proxied /\ at.https /\ routing' = "proxyConnect"
  /\ UNCHANGED <<setup, hop, at, client, hops, inner, proxyDead>>

(* The answer is final. *)
Final == routing = "answer" /\ Stop

(* A redirect: one too many, refused, handed back because it crosses the   *)
(* boundary, or followed in place.                                         *)
Redirect(to) ==
  /\ routing = "answer"
  /\ \/ Stop
     \/ inner < setup.redirects /\ ~Crosses(to)
        /\ at' = to /\ inner' = inner + 1 /\ routing' = "dial"
        /\ UNCHANGED <<setup, hop, client, hops, proxyDead, dials, leaked>>
     \/ inner < setup.redirects /\ Crosses(to)
        /\ at' = to /\ routing' = "crossing"
        /\ UNCHANGED <<setup, hop, client, hops, inner, proxyDead, dials, leaked>>

(* Mutant: the counter of the boundary is not counted. *)
RerouteUncounted ==
  /\ routing = "crossing"
  /\ routing' = "route"
  /\ hop' = [hop EXCEPT !.to = at, !.creds = FALSE]
  /\ UNCHANGED <<setup, at, client, hops, inner, proxyDead, dials, leaked>>

(* onion_boundary_redirect: a new request for the other side, without the  *)
(* credentials of the old one.                                             *)
Reroute ==
  /\ routing = "crossing" /\ hops < setup.redirects
  /\ hops' = hops + 1 /\ routing' = "route"
  /\ hop' = [hop EXCEPT !.to = at, !.creds = FALSE]
  /\ UNCHANGED <<setup, at, client, inner, proxyDead, dials, leaked>>

(* Too many crossings, or the pre-resolve check refuses the new address.   *)
Refuse == routing = "crossing" /\ Stop

(* Mutant: any failed proxy connection falls back. *)
FallBackAlways ==
  /\ routing = "proxyConnect"
  /\ IF setup.direct /\ UsesProxy
     THEN /\ client' = "direct" /\ at' = hop.to /\ inner' = 0 /\ routing' = "dial"
          /\ UNCHANGED <<setup, hop, hops, proxyDead, dials, leaked>>
     ELSE Stop

(* looks_like_proxy_dial_failure: only a plain http address that cannot    *)
(* have been redirected proves that the proxy itself is dead.              *)
FallBack ==
  /\ routing = "proxyConnect"
  /\ IF setup.direct /\ UsesProxy /\ ~hop.to.https /\ setup.redirects = 0
     THEN /\ client' = "direct" /\ at' = hop.to /\ inner' = 0 /\ routing' = "dial"
          /\ UNCHANGED <<setup, hop, hops, proxyDead, dials, leaked>>
     ELSE Stop

RouteNext ==
  \/ Choose \/ Dial \/ Final \/ Reroute \/ Refuse \/ FallBack
  \/ \E to \in Address : Redirect(to)

RouteSpec == RouteInit /\ [][RouteNext]_routeVars

-----------------------------------------------------------------------------
RouteTypeOK ==
  /\ setup \in Handler /\ hop \in Request /\ at \in Address
  /\ client \in {"none", "tor", "base", "direct"}
  /\ routing \in {"route", "dial", "answer", "proxyConnect", "crossing", "done"}
  /\ hops \in 0..MaxRedirectsBound /\ inner \in 0..MaxRedirectsBound
  /\ proxyDead \in BOOLEAN /\ dials \in Nat /\ leaked \subseteq {"name", "credentials"}

(* Over every chain of redirects, followed in place or rerouted, an onion  *)
(* name reaches only the Tor client, Tor only onion names, and what was    *)
(* bound to one side of the boundary never the other.                      *)
BoundaryKept == leaked = {}

(* The caller's own address is shown only when the proxy was really dead,  *)
(* though a tunnel that a living proxy could not open looks the same.      *)
DirectOnlyWhenProxyDead == client = "direct" => proxyDead /\ ~hop.to.onion

(* Redirects are limited per send and per crossing, so together by their   *)
(* product; only the fallback, which follows none, comes on top.           *)
DialsBounded ==
  dials <= IF setup.redirects = 0 THEN 2 ELSE (setup.redirects + 1) * (setup.redirects + 1)
=============================================================================
