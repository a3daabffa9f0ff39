---------------------------- MODULE ServiceProofs -----------------------------
(***************************************************************************)
(* Proofs about the services a call goes through: the transport, for every *)
(* max_redirects, every handler and any chain of redirects; the pool of    *)
(* proxies, for every size and number of calls; who calls without a        *)
(* credential, for every set of callers and the limits of the table; the   *)
(* bounds of a call, for every duration and timeout; the caches around a   *)
(* solver, for any number of requests, domains and failures; and the store *)
(* of media files, for any number of downloads, paths and chunks: a name   *)
(* never shows the inode of another path, without an overlap of two        *)
(* downloads of one URL a file under its final name is whole, and what is  *)
(* stored passes the quota by no more than what the downloads in flight    *)
(* have yet to write.                                                      *)
(***************************************************************************)
EXTENDS Transport, ProxyPool, InboundGate, CallBounds, SolverCaches, MediaStore,
        NegCacheProofs, FiniteSetTheorems, TLAPS

USE RedirectAssumption

(* Products behind a name: the provers' arithmetic is linear.              *)
Before(n, size) == n * size

LEMMA BeforeNat == ASSUME NEW n \in Nat, NEW s \in Nat PROVE Before(n, s) \in Nat
BY DEF Before

LEMMA BeforeZero == ASSUME NEW s \in Nat PROVE Before(0, s) = 0
BY DEF Before

LEMMA BeforeNext ==
  ASSUME NEW n \in Nat, NEW s \in Nat PROVE Before(n + 1, s) = Before(n, s) + s
BY DEF Before

LEMMA BeforeMonotone ==
  ASSUME NEW n \in Nat, NEW m \in Nat, NEW s \in Nat, n <= m
  PROVE  Before(n, s) <= Before(m, s)
<1>1. (m - n) \in Nat /\ (m - n) * s \in Nat
  OBVIOUS
<1>2. m * s = n * s + (m - n) * s
  OBVIOUS
<1>3. n * s \in Nat /\ m * s \in Nat
  OBVIOUS
<1>. QED BY <1>1, <1>2, <1>3 DEF Before

-----------------------------------------------------------------------------
UnderWay == routing \in {"dial", "answer", "proxyConnect", "crossing"}

(* Who sends is on the side of the boundary of the address it is at; the   *)
(* credentials are gone after the first crossing.                          *)
SideInv ==
  /\ leaked = {}
  /\ hops > 0 => ~hop.creds
  /\ UnderWay => hop.to.onion = (client = "tor")
  /\ routing \in {"dial", "answer", "proxyConnect"} => at.onion = (client = "tor")

(* Without redirects the address is the one the caller asked for, so a     *)
(* failed dial to a plain address is the proxy's.                          *)
ProxyInv ==
  /\ inner <= setup.redirects /\ hops <= setup.redirects
  /\ setup.redirects = 0 => routing # "crossing" /\ (UnderWay => at = hop.to)
  /\ routing = "proxyConnect" => client = "base" /\ (at.https \/ proxyDead)
  /\ client = "direct" => setup.redirects = 0 /\ proxyDead /\ ~hop.to.onion /\ routing # "route"

(* What is dialled so far, by the hops before this one and in this one.    *)
Spent ==
  Before(hops, setup.redirects + 1) + inner
  + (IF client = "direct" THEN 1 ELSE 0)
  + (IF routing = "dial" THEN 0 ELSE 1)

DialInv ==
  /\ routing = "route" => dials <= Before(hops, setup.redirects + 1)
  /\ routing # "route" => dials <= Spent

TransportInv == RouteTypeOK /\ SideInv /\ ProxyInv /\ DialInv

LEMMA TransportInit == RouteInit => TransportInv
<1>. SUFFICES ASSUME RouteInit PROVE TransportInv
  OBVIOUS
<1>1. RouteTypeOK
  <2>1. hop \in Request /\ hop.to \in Address
    BY DEF RouteInit, Request
  <2>2. /\ setup \in Handler /\ at = hop.to /\ client = "none" /\ routing = "route"
        /\ hops = 0 /\ inner = 0 /\ proxyDead = FALSE /\ dials = 0 /\ leaked = {}
    BY DEF RouteInit
  <2>3. 0 \in 0..MaxRedirectsBound
    BY RedirectAssumption
  <2>4. at \in Address
    BY <2>1, <2>2
  <2>5. leaked \subseteq {"name", "credentials"} /\ dials \in Nat
    BY <2>2
  <2>. QED BY <2>1, <2>2, <2>3, <2>4, <2>5, Zenon DEF RouteTypeOK
<1>2. setup.redirects \in Nat
  BY DEF RouteInit, Handler
<1>3. SideInv /\ ProxyInv
  BY <1>2 DEF RouteInit, SideInv, ProxyInv, UnderWay
<1>4. DialInv
  BY <1>2, BeforeZero DEF RouteInit, DialInv
<1>. QED BY <1>1, <1>3, <1>4 DEF TransportInv

LEMMA HandlerType ==
  ASSUME RouteTypeOK
  PROVE  /\ setup.redirects \in 0..MaxRedirectsBound /\ setup.redirects \in Nat
         /\ hops \in Nat /\ inner \in Nat /\ dials \in Nat
         /\ Before(hops, setup.redirects + 1) \in Nat
<1>1. /\ setup.redirects \in 0..MaxRedirectsBound /\ setup.redirects \in Nat
      /\ hops \in Nat /\ inner \in Nat /\ dials \in Nat
  BY DEF RouteTypeOK, Handler
<1>2. setup.redirects + 1 \in Nat
  BY <1>1
<1>. QED BY <1>1, <1>2, BeforeNat

LEMMA StopInv == ASSUME TransportInv, Stop PROVE TransportInv'
<1>1. RouteTypeOK'
  BY DEF TransportInv, RouteTypeOK, Stop
<1>2. SideInv' /\ ProxyInv'
  BY DEF TransportInv, SideInv, ProxyInv, UnderWay, Stop
<1>a. RouteTypeOK /\ DialInv
  BY DEF TransportInv
<1>3. DialInv'
  <2>1. routing' = "done" /\ UNCHANGED <<setup, client, hops, inner, dials>>
    BY DEF Stop
  <2>2. CASE routing = "route"
    <3>1. dials <= Before(hops, setup.redirects + 1)
      BY <1>a, <2>2 DEF DialInv
    <3>2. dials' <= Before(hops, setup.redirects + 1) + inner
                    + (IF client = "direct" THEN 1 ELSE 0) + 1
      BY <1>a, <2>1, <3>1, HandlerType
    <3>. QED BY <2>1, <3>2 DEF DialInv, Spent
  <2>3. CASE routing # "route"
    <3>1. dials <= Spent
      BY <1>a, <2>3 DEF DialInv
    <3>2. dials' <= Before(hops, setup.redirects + 1) + inner
                    + (IF client = "direct" THEN 1 ELSE 0) + 1
      BY <1>a, <2>1, <3>1, HandlerType DEF Spent
    <3>. QED BY <2>1, <3>2 DEF DialInv, Spent
  <2>. QED BY <2>2, <2>3
<1>. QED BY <1>1, <1>2, <1>3 DEF TransportInv

LEMMA ChooseInv == ASSUME TransportInv, Choose PROVE TransportInv'
<1>. SUFFICES ASSUME hop.to.onion => setup.tor,
                     client' = IF hop.to.onion THEN "tor" ELSE "base",
                     at' = hop.to, inner' = 0, routing' = "dial", proxyDead' \in BOOLEAN,
                     UNCHANGED <<setup, hop, hops, dials, leaked>>, routing = "route"
              PROVE  TransportInv'
  BY StopInv DEF Choose
<1>1. RouteTypeOK'
  BY DEF TransportInv, RouteTypeOK, Request
<1>a. hop.to.onion \in BOOLEAN
  BY DEF TransportInv, RouteTypeOK, Request, Address
<1>2. SideInv'
  BY <1>a DEF TransportInv, SideInv, UnderWay
<1>b. ProxyInv'
  BY HandlerType DEF TransportInv, ProxyInv, UnderWay
<1>3. DialInv'
  BY HandlerType DEF TransportInv, DialInv, Spent
<1>. QED BY <1>1, <1>2, <1>b, <1>3 DEF TransportInv

LEMMA DialStepInv == ASSUME TransportInv, Dial PROVE TransportInv'
<1>1. routing' \in {"answer", "done", "proxyConnect"}
  BY DEF Dial
<1>2. RouteTypeOK'
  BY <1>1 DEF TransportInv, RouteTypeOK, Dial, Given
<1>3. Given = {}
  BY DEF TransportInv, SideInv, Dial, Given, RouteTypeOK
<1>4. SideInv'
  BY <1>1, <1>3 DEF TransportInv, SideInv, UnderWay, Dial
<1>5. ProxyInv'
  BY <1>1 DEF TransportInv, ProxyInv, UnderWay, Dial, Proxied
<1>6. DialInv'
  BY <1>1, HandlerType DEF TransportInv, DialInv, Spent, Dial
<1>. QED BY <1>2, <1>4, <1>5, <1>6 DEF TransportInv

LEMMA RedirectInv ==
  ASSUME TransportInv, NEW to \in Address, Redirect(to)
  PROVE  TransportInv'
<1>1. CASE Stop
  BY <1>1, StopInv
<1>2. CASE /\ inner < setup.redirects /\ ~Crosses(to)
           /\ at' = to /\ inner' = inner + 1 /\ routing' = "dial"
           /\ UNCHANGED <<setup, hop, client, hops, proxyDead, dials, leaked>>
  <2>1. RouteTypeOK'
    BY <1>2, HandlerType DEF TransportInv, RouteTypeOK
  <2>2. SideInv' /\ ProxyInv'
    BY <1>2, HandlerType DEF TransportInv, SideInv, ProxyInv, UnderWay, Redirect, Crosses
  <2>3. DialInv'
    BY <1>2, HandlerType DEF TransportInv, DialInv, Spent, Redirect
  <2>. QED BY <2>1, <2>2, <2>3 DEF TransportInv
<1>3. CASE /\ inner < setup.redirects /\ Crosses(to)
           /\ at' = to /\ routing' = "crossing"
           /\ UNCHANGED <<setup, hop, client, hops, inner, proxyDead, dials, leaked>>
  <2>1. RouteTypeOK'
    BY <1>3 DEF TransportInv, RouteTypeOK
  <2>2. SideInv' /\ ProxyInv'
    BY <1>3, HandlerType DEF TransportInv, SideInv, ProxyInv, UnderWay, Redirect
  <2>3. DialInv'
    BY <1>3, HandlerType DEF TransportInv, DialInv, Spent, Redirect
  <2>. QED BY <2>1, <2>2, <2>3 DEF TransportInv
<1>. QED BY <1>1, <1>2, <1>3 DEF Redirect

LEMMA RerouteInv == ASSUME TransportInv, Reroute PROVE TransportInv'
<1>1. hop' \in Request /\ hop'.to = at /\ ~hop'.creds
  BY DEF TransportInv, RouteTypeOK, Reroute, Request
<1>2. RouteTypeOK'
  BY <1>1, HandlerType DEF TransportInv, RouteTypeOK, Reroute
<1>3. client # "direct"
  BY DEF TransportInv, ProxyInv, Reroute
<1>4. SideInv' /\ ProxyInv'
  BY <1>1, <1>3, HandlerType DEF TransportInv, SideInv, ProxyInv, UnderWay, Reroute
<1>5. Before(hops + 1, setup.redirects + 1)
      = Before(hops, setup.redirects + 1) + setup.redirects + 1
  BY BeforeNext, HandlerType DEF TransportInv
<1>6. DialInv'
  BY <1>3, <1>5, HandlerType DEF TransportInv, DialInv, ProxyInv, Spent, Reroute
<1>. QED BY <1>2, <1>4, <1>6 DEF TransportInv

LEMMA FallBackInv == ASSUME TransportInv, FallBack PROVE TransportInv'
<1>. SUFFICES ASSUME ~hop.to.https, setup.redirects = 0, routing = "proxyConnect",
                     client' = "direct", at' = hop.to, inner' = 0, routing' = "dial",
                     UNCHANGED <<setup, hop, hops, proxyDead, dials, leaked>>
              PROVE  TransportInv'
  BY StopInv DEF FallBack
<1>1. RouteTypeOK'
  BY DEF TransportInv, RouteTypeOK, Request
<1>2. at = hop.to /\ proxyDead /\ client = "base" /\ ~hop.to.onion
  BY DEF TransportInv, ProxyInv, SideInv, UnderWay
<1>3. SideInv' /\ ProxyInv'
  BY <1>2, HandlerType DEF TransportInv, SideInv, ProxyInv, UnderWay
<1>4. DialInv'
  BY <1>2, HandlerType DEF TransportInv, DialInv, ProxyInv, Spent
<1>. QED BY <1>1, <1>3, <1>4 DEF TransportInv

LEMMA TransportStep == TransportInv /\ [RouteNext]_routeVars => TransportInv'
<1>. SUFFICES ASSUME TransportInv, [RouteNext]_routeVars PROVE TransportInv'
  OBVIOUS
<1>1. CASE UNCHANGED routeVars
  BY <1>1 DEF routeVars, TransportInv, RouteTypeOK, SideInv, ProxyInv, DialInv, Spent, UnderWay
<1>2. CASE Final
  BY <1>2, StopInv DEF Final
<1>3. CASE Refuse
  BY <1>3, StopInv DEF Refuse
<1>. QED BY <1>1, <1>2, <1>3, ChooseInv, DialStepInv, RedirectInv, RerouteInv, FallBackInv
         DEF RouteNext

LEMMA TransportAlways == RouteSpec => []TransportInv
BY TransportInit, TransportStep, PTL DEF RouteSpec

-----------------------------------------------------------------------------
(* Over every chain of redirects, followed in place or rerouted, an onion  *)
(* name reaches only the Tor client, Tor only onion names, and what was    *)
(* bound to one side of the boundary never the other.                      *)
THEOREM NothingCrosses == RouteSpec => []BoundaryKept
<1>1. TransportInv => BoundaryKept
  BY DEF TransportInv, SideInv, BoundaryKept
<1>. QED BY <1>1, TransportAlways, PTL

(* The caller's own address is shown only when the proxy was really dead,  *)
(* though a tunnel that a living proxy could not open looks the same.      *)
THEOREM DirectIsSafe == RouteSpec => []DirectOnlyWhenProxyDead
<1>1. TransportInv => DirectOnlyWhenProxyDead
  BY DEF TransportInv, ProxyInv, DirectOnlyWhenProxyDead
<1>. QED BY <1>1, TransportAlways, PTL

(* Redirects are limited per send and per crossing, so together by their   *)
(* product; only the fallback, which follows none, comes on top.           *)
THEOREM DialsAreBounded == RouteSpec => []DialsBounded
<1>1. ASSUME TransportInv PROVE DialsBounded
  <2> DEFINE r == setup.redirects
  <2>1. r \in Nat /\ hops \in Nat /\ inner \in Nat /\ hops <= r /\ inner <= r /\ dials \in Nat
    BY <1>1, HandlerType DEF TransportInv, ProxyInv
  <2>2. Before(hops, r + 1) <= Before(r, r + 1) /\ Before(hops, r + 1) \in Nat
    <3>1. r + 1 \in Nat
      BY <2>1
    <3>. QED BY <2>1, <3>1, BeforeMonotone, BeforeNat
  <2>3. (r + 1) * (r + 1) = Before(r, r + 1) + r + 1 /\ Before(r, r + 1) \in Nat
    <3>1. (r + 1) * (r + 1) = Before(r + 1, r + 1)
      BY DEF Before
    <3>2. Before(r + 1, r + 1) = Before(r, r + 1) + (r + 1)
      BY <2>1, BeforeNext
    <3>3. r + 1 \in Nat /\ Before(r, r + 1) \in Nat
      <4>1. r + 1 \in Nat
        BY <2>1
      <4>. QED BY <2>1, <4>1, BeforeNat
    <3>. QED BY <2>1, <3>1, <3>2, <3>3
  <2>4. client = "direct" => r = 0
    BY <1>1 DEF TransportInv, ProxyInv
  <2>5. /\ routing = "route" => dials <= Before(hops, r + 1)
        /\ routing # "route" => dials <= Spent
    BY <1>1 DEF TransportInv, DialInv
  <2>6. Spent <= Before(hops, r + 1) + inner + (IF client = "direct" THEN 1 ELSE 0) + 1
    BY <2>1, <2>2 DEF Spent
  <2>7. CASE r = 0
    <3>1. Before(hops, r + 1) = 0
      BY <2>1, <2>7, BeforeZero
    <3>2. Spent <= 2 /\ Spent \in Nat
      BY <2>1, <2>6, <2>7, <3>1 DEF Spent
    <3>. QED BY <2>1, <2>5, <2>7, <3>1, <3>2 DEF DialsBounded
  <2>8. CASE r # 0
    <3>1. Spent <= Before(r, r + 1) + r + 1 /\ Spent \in Nat
      BY <2>1, <2>2, <2>3, <2>4, <2>6, <2>8 DEF Spent
    <3>2. dials <= Before(r, r + 1) + r + 1
      BY <2>1, <2>2, <2>3, <2>5, <3>1
    <3>3. dials <= (r + 1) * (r + 1)
      BY <2>3, <3>2
    <3>. QED BY <2>8, <3>3 DEF DialsBounded
  <2>. QED BY <2>7, <2>8
<1>. QED BY <1>1, TransportAlways, PTL

-----------------------------------------------------------------------------
(* The pool of proxies.                                                    *)

(* What the proofs need of the types of the pool. *)
RoundTypes == turn \in Proxies /\ tries \in 0..PoolSize

(* The n proxies before the one whose turn it is, round the pool. *)
Behind(n) == {p \in Proxies : (turn - n <= p /\ p < turn) \/ turn + PoolSize - n <= p}

(* A round whose turns are all its own has passed over all it has met. *)
RoundInv == ~Unlocked /\ ~stolen => passed = Behind(PoolSize - tries)

LEMMA TurnTaken == ASSUME RoundTypes, TakeTurn
                   PROVE  turn' = IF turn = PoolSize - 1 THEN 0 ELSE turn + 1
<1>1. turn \in 0..(PoolSize - 1) /\ PoolSize \in Nat \ {0}
  BY PoolAssumption DEF RoundTypes, Proxies
<1>2. CASE turn = PoolSize - 1
  <2>1. PoolSize % PoolSize = 0
    BY <1>1
  <2>. QED BY <1>1, <1>2, <2>1 DEF TakeTurn
<1>3. CASE turn # PoolSize - 1
  <2>1. turn + 1 \in 0..(PoolSize - 1)
    BY <1>1, <1>3
  <2>2. (turn + 1) % PoolSize = turn + 1
    BY <1>1, <2>1
  <2>. QED BY <1>3, <2>2 DEF TakeTurn
<1>. QED BY <1>2, <1>3

LEMMA RoundInit == PoolInit => RoundTypes /\ RoundInv
BY PoolAssumption DEF PoolInit, RoundTypes, RoundInv, Proxies, Unlocked

LEMMA RoundStep == RoundTypes /\ RoundInv /\ [PoolNext]_poolVars => (RoundTypes /\ RoundInv)'
<1> SUFFICES ASSUME RoundTypes, RoundInv, [PoolNext]_poolVars PROVE (RoundTypes /\ RoundInv)'
  OBVIOUS
<1>0. PoolSize \in Nat \ {0} /\ turn \in 0..(PoolSize - 1) /\ tries \in 0..PoolSize
  BY PoolAssumption DEF RoundTypes, Proxies
<1>t. ASSUME TakeTurn PROVE turn' \in Proxies /\ turn' = IF turn = PoolSize - 1 THEN 0 ELSE turn + 1
  BY <1>0, <1>t, TurnTaken DEF Proxies
<1>1. ASSUME NEW c \in PoolCallers, GoRound(c) PROVE (RoundTypes /\ RoundInv)'
  <2>1. tries' = PoolSize /\ turn' = turn /\ passed' = {}
    BY <1>1 DEF GoRound
  <2>2. Behind(PoolSize - tries)' = {}
    BY <1>0, <2>1 DEF Behind, Proxies
  <2>. QED BY <1>0, <2>1, <2>2 DEF RoundTypes, RoundInv, Proxies
<1>2. ASSUME NEW c \in PoolCallers, FallbackTurn(c) PROVE (RoundTypes /\ RoundInv)'
  BY <1>0, <1>2, <1>t DEF FallbackTurn, RoundTypes, RoundInv, Unlocked
<1>3. CASE Serve
  BY <1>0, <1>3, <1>t DEF Serve, RoundTypes, RoundInv, Unlocked
<1>4. CASE PassOver
  <2>1. /\ tries > 0 /\ tries' = tries - 1 /\ passed' = passed \cup {turn}
        /\ UNCHANGED <<holder, stolen>> /\ turn' \in Proxies
        /\ turn' = IF turn = PoolSize - 1 THEN 0 ELSE turn + 1
    BY <1>4, <1>t DEF PassOver
  <2>2. ASSUME (~Unlocked /\ ~stolen)' PROVE passed' = Behind(PoolSize - tries)'
    <3>1. passed = Behind(PoolSize - tries)
      BY <2>1, <2>2 DEF RoundInv, Unlocked
    <3>2. ASSUME NEW p \in 0..(PoolSize - 1)
          PROVE  \/ turn - (PoolSize - tries) <= p /\ p < turn
                 \/ turn + PoolSize - (PoolSize - tries) <= p
                 \/ p = turn
             <=> \/ turn' - (PoolSize - (tries - 1)) <= p /\ p < turn'
                 \/ turn' + PoolSize - (PoolSize - (tries - 1)) <= p
      BY <1>0, <2>1
    <3>. QED BY <1>0, <2>1, <3>1, <3>2 DEF Behind, Proxies
  <2>. QED BY <1>0, <2>1, <2>2 DEF RoundTypes, RoundInv
<1>5. CASE GiveUpRound
  BY <1>5 DEF GiveUpRound, RoundTypes, RoundInv, Unlocked
<1>6. ASSUME NEW p \in Proxies, RecordProxySuccess(p) \/ RecordProxyFailure(p)
      PROVE (RoundTypes /\ RoundInv)'
  BY <1>6 DEF RecordProxySuccess, RecordProxyFailure, roundVars, RoundTypes, RoundInv, Unlocked, Behind
<1>7. CASE EvictStale \/ PoolTick \/ UNCHANGED poolVars
  BY <1>7 DEF EvictStale, PoolTick, poolVars, roundVars, RoundTypes, RoundInv, Unlocked, Behind
<1>. QED BY <1>1, <1>2, <1>3, <1>4, <1>5, <1>6, <1>7 DEF PoolNext

LEMMA AllRound ==
  ASSUME RoundTypes, RoundInv, [PoolNext]_poolVars, NEW c \in fallingBack' \ fallingBack
  PROVE  passed = Proxies \/ stolen
<1>1. GiveUpRound
  <2>1. ASSUME NEW d \in PoolCallers, GoRound(d) \/ FallbackTurn(d) PROVE FALSE
    BY <2>1 DEF GoRound, FallbackTurn
  <2>2. ASSUME NEW p \in Proxies, RecordProxySuccess(p) \/ RecordProxyFailure(p) PROVE FALSE
    BY <2>2 DEF RecordProxySuccess, RecordProxyFailure, roundVars
  <2>3. ~Serve /\ ~PassOver /\ ~EvictStale /\ ~PoolTick /\ ~UNCHANGED poolVars
    BY DEF Serve, PassOver, EvictStale, PoolTick, poolVars, roundVars
  <2>. QED BY <2>1, <2>2, <2>3 DEF PoolNext
<1>2. tries = 0 /\ ~Unlocked
  BY <1>1 DEF GiveUpRound
<1>3. Behind(PoolSize - 0) = Proxies
  BY PoolAssumption DEF Behind, Proxies, RoundTypes
<1>. QED BY <1>2, <1>3 DEF RoundInv

(* A call falls back only after every proxy was found cooling down, or     *)
(* when a fallback of another call took a turn of its round; for every     *)
(* size of the pool and number of callers.                                 *)
THEOREM FallbackAfterAll == PoolSpec => FallbackOnlyIfAllCool
<1>1. RoundTypes /\ RoundInv /\ [PoolNext]_poolVars
        => [\A c \in fallingBack' \ fallingBack : passed = Proxies \/ stolen]_poolVars
  BY AllRound
<1>. QED BY <1>1, RoundInit, RoundStep, PTL DEF PoolSpec, FallbackOnlyIfAllCool

-----------------------------------------------------------------------------
(* Callers without a credential, and the table they are noticed in.        *)

SightingTypes ==
  /\ uasOf \in [Ips -> SUBSET UserAgents] /\ capped \subseteq Ips
  /\ \A row \in seenRows : row.ip \in Ips

(* The table stays within its three limits; its rows name a user agent     *)
(* only if it is one of the few of its address; and an address is          *)
(* announced as capped only when its rows are at their limit, and they     *)
(* stay there.                                                             *)
TableBounded ==
  /\ Cardinality(seenRows) <= MaxSightings
  /\ \A ip \in Ips : /\ Cardinality(uasOf[ip]) <= MaxUasPerIp
                     /\ Entries(ip) <= MaxEntriesPerIp
  /\ \A row \in seenRows : row.ua = OtherUa \/ row.ua \in uasOf[row.ip]
  /\ \A ip \in capped : Entries(ip) = MaxEntriesPerIp

TableInv ==
  /\ IsFiniteSet(seenRows) /\ \A ip \in Ips : IsFiniteSet(uasOf[ip])
  /\ TableBounded

RowsOf(ip) == {row \in seenRows : row.ip = ip}

LEMMA FirstTypes ==
  ASSUME SightingTypes, NEW result, NEW class, NEW ip \in Ips, NEW ua \in UserAgents,
         First(result, class, ip, ua)
  PROVE  SightingTypes'
BY DEF First, SightingTypes, Row, Recorded

LEMMA SightingStep == SightingTypes /\ [InboundNext]_gateRecordVars => SightingTypes'
<1> SUFFICES ASSUME SightingTypes, [InboundNext]_gateRecordVars PROVE SightingTypes'
  OBVIOUS
<1>1. ASSUME NEW class \in RouteClasses, NEW ip \in Ips, NEW ua \in UserAgents,
             NEW secret \in Credential, NEW bearer \in Credential,
             Inbound(class, ip, ua, secret, bearer)
      PROVE  SightingTypes'
  <2>1. UNCHANGED <<seenRows, uasOf, capped>> \/ First(Decide(secret, bearer), class, ip, ua)
    BY <1>1 DEF Inbound
  <2>. QED BY <2>1, FirstTypes DEF SightingTypes
<1>2. CASE UNCHANGED gateRecordVars
  BY <1>2 DEF gateRecordVars, SightingTypes
<1>. QED BY <1>1, <1>2 DEF InboundNext

(* What First leaves behind of the caller it is given. *)
LEMMA FirstNotices ==
  ASSUME SightingTypes, NEW result, NEW class, NEW ip \in Ips, NEW ua \in UserAgents,
         First(result, class, ip, ua)
  PROVE  \/ \E row \in seenRows' : row = Row(result, class, ip, ua)
         \/ /\ \E row \in seenRows' : row = Row(result, class, ip, OtherUa)
            /\ ua \notin uasOf'[ip]
         \/ ip \in capped'
         \/ Cardinality(seenRows') >= MaxSightings
<1> DEFINE name == Recorded(ip, ua)
           row == Row(result, class, ip, name)
<1>1. name = ua \/ (name = OtherUa /\ ua \notin uasOf[ip])
  BY DEF Recorded
<1>2. CASE Cardinality(seenRows) >= MaxSightings
  BY <1>2 DEF First
<1>3. CASE ~(Cardinality(seenRows) >= MaxSightings) /\ row \in seenRows
  <2>1. seenRows' = seenRows /\ uasOf' = uasOf
    BY <1>3 DEF First
  <2>. QED BY <1>1, <1>3, <2>1
<1>4. CASE ~(Cardinality(seenRows) >= MaxSightings) /\ row \notin seenRows /\ Entries(ip) >= MaxEntriesPerIp
  BY <1>4 DEF First
<1>5. CASE ~(Cardinality(seenRows) >= MaxSightings) /\ row \notin seenRows /\ ~(Entries(ip) >= MaxEntriesPerIp)
  <2>1. row \in seenRows' /\ (name = OtherUa => uasOf' = uasOf)
    BY <1>5 DEF First
  <2>. QED BY <1>1, <2>1
<1>. QED BY <1>2, <1>3, <1>4, <1>5

(* Whoever comes without a valid credential is logged by name, or as       *)
(* another of its address, or its address was announced as capped, or the  *)
(* table is full: for every set of callers and every limit.                *)
THEOREM EveryCallerNoticed == InboundSpec => []NoSilentCaller
<1>1. InboundInit => SightingTypes /\ NoSilentCaller
  BY DEF InboundInit, SightingTypes, NoSilentCaller
<1>2. SightingTypes /\ NoSilentCaller /\ [InboundNext]_gateRecordVars => NoSilentCaller'
  <2> SUFFICES ASSUME SightingTypes, NoSilentCaller, [InboundNext]_gateRecordVars
               PROVE  NoSilentCaller'
    OBVIOUS
  <2>1. ASSUME NEW class \in RouteClasses, NEW ip \in Ips, NEW ua \in UserAgents,
               NEW secret \in Credential, NEW bearer \in Credential,
               Inbound(class, ip, ua, secret, bearer)
        PROVE  NoSilentCaller'
    <3> DEFINE result == Decide(secret, bearer)
               caller == [result |-> result, class |-> class, ip |-> ip, ua |-> ua,
                          allowed |-> Allowed(result)]
    <3>1. CASE met' = {}
      BY <3>1 DEF NoSilentCaller
    <3>2. CASE met' # {}
      <4>1. met' = {caller} /\ First(result, class, ip, ua)
        BY <2>1, <3>2 DEF Inbound
      <4>2. \A name : LET row == Row(result, class, ip, name)
                      IN  /\ row.result = caller.result /\ row.class = caller.class
                          /\ row.ip = caller.ip /\ row.ua = name
        BY DEF Row
      <4>. QED BY <4>1, <4>2, FirstNotices DEF NoSilentCaller
    <3>. QED BY <3>1, <3>2
  <2>2. CASE UNCHANGED gateRecordVars
    BY <2>2 DEF gateRecordVars, NoSilentCaller
  <2>. QED BY <2>1, <2>2 DEF InboundNext
<1>. QED BY <1>1, <1>2, SightingStep, PTL DEF InboundSpec

-----------------------------------------------------------------------------
(* A row more, of one address, and what that does to the counts.           *)
LEMMA RowAdded ==
  ASSUME TableInv, NEW ip \in Ips, NEW row, row \notin seenRows, row.ip = ip,
         seenRows' = seenRows \cup {row}
  PROVE  /\ IsFiniteSet(seenRows') /\ Cardinality(seenRows') = Cardinality(seenRows) + 1
         /\ Entries(ip)' = Entries(ip) + 1 /\ Entries(ip) \in Nat
         /\ \A o \in Ips : o # ip => Entries(o)' = Entries(o)
<1>1. IsFiniteSet(seenRows)
  BY DEF TableInv
<1>2. IsFiniteSet(seenRows') /\ Cardinality(seenRows') = Cardinality(seenRows) + 1
  BY <1>1, FS_AddElement
<1>3. IsFiniteSet(RowsOf(ip)) /\ row \notin RowsOf(ip)
  <2>1. RowsOf(ip) \in SUBSET seenRows
    BY DEF RowsOf
  <2>. QED BY <1>1, <2>1, FS_Subset
<1>4. RowsOf(ip)' = RowsOf(ip) \cup {row}
  BY DEF RowsOf
<1>5. Cardinality(RowsOf(ip)') = Cardinality(RowsOf(ip)) + 1 /\ Cardinality(RowsOf(ip)) \in Nat
  BY <1>3, <1>4, FS_AddElement, FS_CardinalityType
<1>6. ASSUME NEW o \in Ips, o # ip PROVE RowsOf(o)' = RowsOf(o)
  BY <1>6 DEF RowsOf
<1>. QED BY <1>2, <1>5, <1>6 DEF Entries, RowsOf

LEMMA FirstBounds ==
  ASSUME SightingTypes, TableInv, NEW result, NEW class, NEW ip \in Ips,
         NEW ua \in UserAgents, First(result, class, ip, ua)
  PROVE  TableInv'
<1>. DEFINE name == Recorded(ip, ua)
            row == Row(result, class, ip, name)
            silent == Cardinality(seenRows) >= MaxSightings \/ row \in seenRows
            full == Entries(ip) >= MaxEntriesPerIp
<1>0. /\ MaxSightings \in Nat /\ MaxUasPerIp \in Nat \ {0} /\ MaxEntriesPerIp \in Nat
      /\ ua # OtherUa
  BY SightingAssumption
<1>1. CASE silent
  <2>1. seenRows' = seenRows /\ uasOf' = uasOf /\ capped' = capped
    BY <1>1 DEF First
  <2>. QED BY <2>1 DEF TableInv, TableBounded, Entries
<1>2. CASE ~silent /\ full
  <2>1. seenRows' = seenRows /\ uasOf' = uasOf /\ capped' = capped \cup {ip}
    BY <1>2 DEF First
  <2>2. \A o \in Ips : Entries(o) \in Nat /\ Entries(o)' = Entries(o)
    <3>1. ASSUME NEW o \in Ips PROVE Entries(o) \in Nat
      <4>1. RowsOf(o) \in SUBSET seenRows
        BY DEF RowsOf
      <4>. QED BY <4>1, FS_Subset, FS_CardinalityType DEF TableInv, Entries, RowsOf
    <3>. QED BY <2>1, <3>1 DEF Entries
  <2>3. Entries(ip) = MaxEntriesPerIp
    BY <1>0, <1>2, <2>2 DEF TableInv, TableBounded
  <2>4. \A o \in capped \cup {ip} : Entries(o)' = MaxEntriesPerIp
    BY <2>2, <2>3 DEF TableInv, TableBounded, SightingTypes
  <2>. QED BY <2>1, <2>2, <2>4 DEF TableInv, TableBounded
<1>3. CASE ~silent /\ ~full
  <2>1. /\ seenRows' = seenRows \cup {row} /\ row \notin seenRows /\ capped' = capped
        /\ uasOf' = IF name = OtherUa THEN uasOf ELSE [uasOf EXCEPT ![ip] = @ \cup {ua}]
    BY <1>3 DEF First
  <2>2. row.ip = ip /\ row.ua = name
    BY DEF Row
  <2>3. /\ IsFiniteSet(seenRows') /\ Cardinality(seenRows') = Cardinality(seenRows) + 1
        /\ Entries(ip)' = Entries(ip) + 1 /\ Entries(ip) \in Nat
        /\ \A o \in Ips : o # ip => Entries(o)' = Entries(o)
    <3>. HIDE DEF row
    <3>. QED BY <2>1, <2>2, RowAdded
  <2>4. Cardinality(seenRows') <= MaxSightings
    <3>1. Cardinality(seenRows) \in Nat /\ ~(Cardinality(seenRows) >= MaxSightings)
      BY <1>3, FS_CardinalityType DEF TableInv
    <3>. QED BY ONLY <1>0, <2>3, <3>1
  <2>5. Entries(ip)' <= MaxEntriesPerIp /\ ip \notin capped
    BY <1>0, <1>3, <2>3 DEF TableInv, TableBounded
  <2>6. CASE name = OtherUa
    <3>1. uasOf' = uasOf
      BY <2>1, <2>6
    <3>2. \A o \in Ips : Entries(o)' <= MaxEntriesPerIp
      BY <2>3, <2>5 DEF TableInv, TableBounded
    <3>3. \A o \in capped : Entries(o)' = MaxEntriesPerIp
      BY <2>1, <2>3, <2>5 DEF TableInv, TableBounded, SightingTypes
    <3>4. \A r \in seenRows' : r.ua = OtherUa \/ r.ua \in uasOf'[r.ip]
      BY <2>1, <2>2, <2>6, <3>1 DEF TableInv, TableBounded
    <3>. QED BY <2>1, <2>3, <2>4, <3>1, <3>2, <3>3, <3>4 DEF TableInv, TableBounded
  <2>7. CASE name # OtherUa
    <3>1. /\ name = ua
          /\ ua \in uasOf[ip] \/ ~(Cardinality(uasOf[ip]) >= MaxUasPerIp)
      BY <2>7 DEF Recorded
    <3>2. /\ uasOf'[ip] = uasOf[ip] \cup {ua} /\ \A o \in Ips : o # ip => uasOf'[o] = uasOf[o]
      BY <2>1, <2>7 DEF SightingTypes
    <3>3. IsFiniteSet(uasOf'[ip]) /\ Cardinality(uasOf'[ip]) <= MaxUasPerIp
      <4>. DEFINE U == uasOf[ip]
      <4>1. IsFiniteSet(U) /\ Cardinality(U) \in Nat /\ Cardinality(U) <= MaxUasPerIp
        BY FS_CardinalityType DEF TableInv, TableBounded
      <4>. HIDE DEF U
      <4>2. CASE ua \in U
        <5>1. U \cup {ua} = U
          BY <4>2
        <5>. QED BY <3>2, <4>1, <5>1 DEF U
      <4>3. CASE ua \notin U
        <5>1. IsFiniteSet(U \cup {ua}) /\ Cardinality(U \cup {ua}) = Cardinality(U) + 1
          BY <4>1, <4>3, FS_AddElement
        <5>2. ~(Cardinality(U) >= MaxUasPerIp)
          BY <3>1, <4>3 DEF U
        <5>3. Cardinality(U) + 1 <= MaxUasPerIp
          BY ONLY <1>0, <4>1, <5>2
        <5>. QED BY <3>2, <5>1, <5>3 DEF U
      <4>. QED BY <4>2, <4>3
    <3>4. \A o \in Ips : IsFiniteSet(uasOf'[o]) /\ Cardinality(uasOf'[o]) <= MaxUasPerIp
      BY <3>2, <3>3 DEF TableInv, TableBounded
    <3>5. \A o \in Ips : Entries(o)' <= MaxEntriesPerIp
      BY <2>3, <2>5 DEF TableInv, TableBounded
    <3>6. \A o \in capped : Entries(o)' = MaxEntriesPerIp
      BY <2>1, <2>3, <2>5 DEF TableInv, TableBounded, SightingTypes
    <3>7. \A r \in seenRows' : r.ua = OtherUa \/ r.ua \in uasOf'[r.ip]
      BY <2>1, <2>2, <3>1, <3>2 DEF TableInv, TableBounded, SightingTypes
    <3>. QED BY <2>1, <2>3, <2>4, <3>4, <3>5, <3>6, <3>7 DEF TableInv, TableBounded
  <2>. QED BY <2>6, <2>7
<1>. QED BY <1>1, <1>2, <1>3

(* Whoever calls, and in whatever order: the table and what each address   *)
(* takes of it stay within the limits of Sightings::first, a row names a   *)
(* user agent only if it is one of the few kept for its address, and the   *)
(* one log line that says an address is capped is true from then on.       *)
THEOREM TableStaysBounded == InboundSpec => []TableBounded
<1>1. InboundInit => SightingTypes /\ TableInv
  <2>1. SUFFICES ASSUME InboundInit PROVE SightingTypes /\ TableInv
    OBVIOUS
  <2>2. SightingTypes
    BY <2>1 DEF InboundInit, SightingTypes
  <2>3. \A ip \in Ips : RowsOf(ip) = {}
    BY <2>1 DEF InboundInit, RowsOf
  <2>4. IsFiniteSet({}) /\ Cardinality({}) = 0
    BY FS_EmptySet
  <2>5. \A ip \in Ips : Entries(ip) = 0
    BY <2>3, <2>4 DEF Entries, RowsOf
  <2>. QED BY <2>1, <2>2, <2>4, <2>5, SightingAssumption DEF InboundInit, TableInv, TableBounded
<1>2. SightingTypes /\ TableInv /\ [InboundNext]_gateRecordVars => TableInv'
  <2>. SUFFICES ASSUME SightingTypes, TableInv, [InboundNext]_gateRecordVars PROVE TableInv'
    OBVIOUS
  <2>1. ASSUME NEW class \in RouteClasses, NEW ip \in Ips, NEW ua \in UserAgents,
               NEW secret \in Credential, NEW bearer \in Credential,
               Inbound(class, ip, ua, secret, bearer)
        PROVE  TableInv'
    <3>1. UNCHANGED <<seenRows, uasOf, capped>> \/ First(Decide(secret, bearer), class, ip, ua)
      BY <2>1 DEF Inbound
    <3>. QED BY <3>1, FirstBounds DEF TableInv, TableBounded, Entries
  <2>2. CASE UNCHANGED gateRecordVars
    BY <2>2 DEF gateRecordVars, TableInv, TableBounded, Entries
  <2>. QED BY <2>1, <2>2 DEF InboundNext
<1>3. TableInv => TableBounded
  BY DEF TableInv
<1>. QED BY <1>1, <1>2, <1>3, SightingStep, PTL DEF InboundSpec

-----------------------------------------------------------------------------
(* Calls and their bounds.                                                 *)
CallStages == {"idle", "layer", "handler", "work", "done"}

CallTypes ==
  /\ callAt \in [Calls -> CallStages] /\ surface \in [Calls -> DOMAIN Surface]
  /\ asked \in [Calls -> Nat] /\ takes \in [Calls -> Nat]
  /\ bounds \in [Calls -> Nat]
  /\ answer \in [Calls -> {"none", "refused", "rejected", "work", "typed", "generic", "gone"}]
  /\ counted \in [Calls -> Nat]

LEMMA HigherOfTwo ==
  ASSUME NEW a \in Nat, NEW b \in Nat PROVE Max({a, b}) = IF a >= b THEN a ELSE b
<1>. DEFINE m == IF a >= b THEN a ELSE b
<1>1. m \in {a, b} /\ \A y \in {a, b} : m >= y
  OBVIOUS
<1>2. \A x \in {a, b} : (\A y \in {a, b} : x >= y) => x = m
  OBVIOUS
<1>. QED BY <1>1, <1>2 DEF Max

LEMMA LowerOfTwo ==
  ASSUME NEW a \in Nat, NEW b \in Nat PROVE Min({a, b}) = IF a <= b THEN a ELSE b
<1>. DEFINE m == IF a <= b THEN a ELSE b
<1>1. m \in {a, b} /\ \A y \in {a, b} : m =< y
  OBVIOUS
<1>2. \A x \in {a, b} : (\A y \in {a, b} : x =< y) => x = m
  OBVIOUS
<1>. QED BY <1>1, <1>2 DEF Min

LEMMA Clamped ==
  ASSUME NEW n \in Nat, NEW high \in Nat, high >= 1
  PROVE  /\ Clamp(n, 1, high) \in 1..high
         /\ n >= 1 => Clamp(n, 1, high) <= n
         /\ n >= high => Clamp(n, 1, high) = high
         /\ n \in 1..high => Clamp(n, 1, high) = n
         /\ n = 0 => Clamp(n, 1, high) = 1
<1>1. Min({n, high}) = IF n <= high THEN n ELSE high
  BY LowerOfTwo
<1>2. Min({n, high}) \in Nat
  BY <1>1
<1>3. Max({1, Min({n, high})}) = IF 1 >= Min({n, high}) THEN 1 ELSE Min({n, high})
  BY <1>2, HigherOfTwo
<1>. QED BY <1>1, <1>2, <1>3 DEF Clamp

(* The table of the surfaces, as far as the answers depend on it: each     *)
(* has a bound, a client's limit lies below the layer's bound around it,   *)
(* and a handler's own bound lies below the layer's.                       *)
LEMMA SurfaceFacts ==
  ASSUME NEW s \in DOMAIN Surface
  PROVE  /\ Surface[s].layer = Unset \/ Surface[s].layer \in 70..130
         /\ Surface[s].own = Unset \/ Surface[s].own \in 8..60
         /\ Surface[s].limit = Unset \/ Surface[s].limit = 60
         /\ Surface[s].layer # Unset \/ Surface[s].own # Unset
         /\ Surface[s].limit # Unset => Surface[s].own = Unset /\ Surface[s].layer = 70
BY DEF Surface, Unset, SolverCallBound, MediaDownloadBound, ChromeProxyBound, CrawlBound,
       ReadDefault, FetchDefault, SmartDefault, OnionDefault, MaxCallTimeout

(* The bounds of one call.                                                 *)
LEMMA OwnFacts ==
  ASSUME CallTypes, NEW c \in Calls
  PROVE  /\ Own(c) \in Nat
         /\ Surface[surface[c]].own = Unset => Own(c) = Unset
         /\ Surface[surface[c]].own # Unset =>
              /\ Own(c) \in 1..130
              /\ asked[c] >= 1 /\ asked[c] # Unset => Own(c) <= asked[c]
              /\ asked[c] = 0 => Own(c) = 1
              /\ asked[c] = Unset => Own(c) <= 60
<1>. DEFINE s == surface[c]
            n == IF asked[c] = Unset THEN Surface[s].own ELSE asked[c]
<1>1. s \in DOMAIN Surface /\ asked[c] \in Nat
  BY DEF CallTypes
<1>2. CASE Surface[s].own = Unset
  BY <1>2 DEF Own, Unset
<1>3. CASE Surface[s].own # Unset
  <2>1. Surface[s].own \in 8..60
    BY <1>1, <1>3, SurfaceFacts
  <2>2. n \in Nat
    BY <1>1, <2>1
  <2>3. Own(c) = Clamp(n, 1, 130)
    BY <1>3 DEF Own, MaxCallTimeout, SolverCallBound
  <2>4. /\ Clamp(n, 1, 130) \in 1..130
        /\ n >= 1 => Clamp(n, 1, 130) <= n
        /\ n = 0 => Clamp(n, 1, 130) = 1
    <3>. DEFINE high == 130
    <3>1. high \in Nat /\ high >= 1
      OBVIOUS
    <3>. HIDE DEF n, high
    <3>2. /\ Clamp(n, 1, high) \in 1..high
          /\ n >= 1 => Clamp(n, 1, high) <= n
          /\ n = 0 => Clamp(n, 1, high) = 1
      BY <2>2, <3>1, Clamped
    <3>. QED BY ONLY <3>2 DEF high
  <2>5. CASE asked[c] = Unset
    <3>1. n = Surface[s].own
      BY <2>5
    <3>2. n \in 1..60 /\ n # 0
      BY ONLY <2>1, <3>1
    <3>. HIDE DEF n
    <3>3. Own(c) <= 60 /\ Own(c) \in 1..130 /\ Own(c) <= n
      BY ONLY <2>3, <2>4, <3>2
    <3>4. Own(c) \in Nat /\ asked[c] # 0
      BY ONLY <2>5, <3>3 DEF Unset
    <3>. QED BY ONLY <1>3, <2>5, <3>3, <3>4
  <2>6. CASE asked[c] # Unset
    <3>1. n = asked[c]
      BY <2>6
    <3>. QED BY ONLY <1>1, <1>3, <2>1, <2>3, <2>4, <2>6, <3>1 DEF Unset
  <2>. QED BY <2>5, <2>6
<1>. QED BY <1>2, <1>3

LEMMA LayerFacts ==
  ASSUME CallTypes, NEW c \in Calls
  PROVE  /\ LayerBound(c) \in Nat
         /\ Surface[surface[c]].layer = Unset => LayerBound(c) = Unset
         /\ Surface[surface[c]].layer # Unset =>
              /\ LayerBound(c) \in 1..130
              /\ asked[c] >= 1 => LayerBound(c) <= asked[c]
              /\ asked[c] = 0 => LayerBound(c) = 1
              /\ asked[c] = Unset => LayerBound(c) = Surface[surface[c]].layer
<1>. DEFINE s == surface[c]
            high == Surface[s].layer
<1>1. s \in DOMAIN Surface /\ asked[c] \in Nat
  BY DEF CallTypes
<1>2. CASE high = Unset
  BY <1>2 DEF LayerBound, Unset
<1>3. CASE high # Unset
  <2>1. high \in 70..130
    BY <1>1, <1>3, SurfaceFacts
  <2>2. LayerBound(c) = Clamp(asked[c], 1, high)
    BY <1>3 DEF LayerBound
  <2>3. /\ Clamp(asked[c], 1, high) \in 1..high
        /\ asked[c] >= 1 => Clamp(asked[c], 1, high) <= asked[c]
        /\ asked[c] = 0 => Clamp(asked[c], 1, high) = 1
        /\ asked[c] >= high => Clamp(asked[c], 1, high) = high
    <3>1. high \in Nat /\ high >= 1
      BY <2>1
    <3>. HIDE DEF high
    <3>. QED BY <1>1, <3>1, Clamped
  <2>. QED BY ONLY <1>1, <1>3, <2>1, <2>2, <2>3 DEF Unset
<1>. QED BY <1>2, <1>3

-----------------------------------------------------------------------------
LEMMA EndTypes ==
  ASSUME CallTypes, NEW c \in Calls, End(c, answer'[c]),
         answer'[c] \in {"refused", "rejected", "work", "typed", "generic", "gone"},
         counted' \in [Calls -> Nat]
  PROVE  CallTypes'
BY DEF CallTypes, End, CallStages

LEMMA CallTypesStep == TimeAssumption /\ CallTypes /\ [BoundsNext]_boundVars => CallTypes'
<1>. SUFFICES ASSUME TimeAssumption, CallTypes, [BoundsNext]_boundVars PROVE CallTypes'
  OBVIOUS
<1>1. CASE UNCHANGED boundVars
  BY <1>1 DEF CallTypes, boundVars
<1>2. ASSUME NEW c \in Calls, NEW where \in DOMAIN Surface,
             NEW timeout \in Timeouts \cup {Unset}, Call(c, where, timeout)
      PROVE  CallTypes'
  <2>1. timeout \in Nat
    BY DEF TimeAssumption, Unset
  <2>. QED BY <1>2, <2>1 DEF CallTypes, Call, CallStages
<1>3. ASSUME NEW c \in Calls, NEW with \in {"refused", "rejected", "work", "typed", "generic", "gone"},
             End(c, with), UNCHANGED counted \/ CountOutcome(c)
      PROVE  CallTypes'
  <2>1. counted' \in [Calls -> Nat]
    BY <1>3 DEF CallTypes, CountOutcome
  <2>. QED BY <1>3, <2>1 DEF CallTypes, End, CallStages
<1>4. ASSUME NEW c \in Calls, Guard(c)
      PROVE  CallTypes'
  BY <1>4 DEF CallTypes, Guard, Arm, CallStages
<1>5. ASSUME NEW c \in Calls, NEW duration \in Works, Begin(c, duration)
      PROVE  CallTypes'
  <2>1. Surface[surface[c]].limit \in Nat
    BY SurfaceFacts DEF CallTypes, Unset
  <2>2. duration \in Nat
    BY DEF TimeAssumption
  <2>3. Min({duration, Surface[surface[c]].limit}) \in Nat
    BY <2>1, <2>2, LowerOfTwo
  <2>. QED BY <1>5, <2>3 DEF CallTypes, Begin, Arm, CallStages
<1>6. ASSUME NEW c \in Calls,
             RefuseBody(c) \/ Reject(c) \/ Complete(c) \/ OwnBoundFires(c)
               \/ LayerBoundFires(c) \/ GoesAway(c)
      PROVE  CallTypes'
  BY <1>3, <1>6
     DEF RefuseBody, Reject, Complete, OwnBoundFires, LayerBoundFires, GoesAway
<1>. QED BY <1>1, <1>2, <1>4, <1>5, <1>6 DEF BoundsNext

-----------------------------------------------------------------------------
(* A call that has no answer is not counted; its work, once it has begun,  *)
(* ends with its client's own limit at the latest.                         *)
AnswerInv ==
  \A c \in Calls :
    /\ callAt[c] # "done" => answer[c] = "none" /\ counted[c] = 0
    /\ callAt[c] = "work" => takes[c] <= Surface[surface[c]].limit

CallAnswered(c) ==
  /\ answer[c] = "generic" => asked[c] # Unset \/ Surface[surface[c]].own = Unset
  /\ answer[c] \in {"typed", "generic"} /\ asked[c] = Unset
       => Surface[surface[c]].limit = Unset
  /\ answer[c] = "work" => takes[c] <= Max({1, asked[c]})
  /\ counted[c] = IF Fetching(c) /\ answer[c] \in {"work", "typed"} THEN 1 ELSE 0

AnsweredInv == CallTypes /\ AnswerInv /\ RightBoundAnswers

LEMMA CompleteAnswers ==
  ASSUME AnsweredInv, NEW c \in Calls, Complete(c)
  PROVE  CallAnswered(c)'
<1>1. CallTypes /\ AnswerInv
  BY DEF AnsweredInv
<1>. DEFINE s == surface[c]
<1>2. s \in DOMAIN Surface /\ asked[c] \in Nat /\ takes[c] \in Nat
  BY <1>1 DEF CallTypes
<1>3. takes[c] <= Own(c) /\ takes[c] <= LayerBound(c) /\ counted[c] = 0
  BY <1>1 DEF Complete, AnswerInv
<1>4. Max({1, asked[c]}) = IF 1 >= asked[c] THEN 1 ELSE asked[c]
  BY <1>2, HigherOfTwo
<1>5. takes[c] <= Max({1, asked[c]})
  <2>1. CASE Surface[s].layer # Unset
    BY <1>1, <1>2, <1>3, <1>4, <2>1, LayerFacts
  <2>2. CASE Surface[s].own # Unset /\ asked[c] # Unset
    BY <1>1, <1>2, <1>3, <1>4, <2>2, OwnFacts
  <2>3. CASE Surface[s].own # Unset /\ asked[c] = Unset
    BY <1>1, <1>2, <1>3, <1>4, <2>3, OwnFacts DEF Unset
  <2>. QED BY <1>2, <2>1, <2>2, <2>3, SurfaceFacts
<1>6. answer'[c] = "work" /\ takes' = takes /\ asked' = asked /\ surface' = surface
  BY <1>1 DEF Complete, End, CallTypes
<1>7. counted'[c] = IF Fetching(c) THEN 1 ELSE 0
  BY <1>1, <1>3 DEF Complete, CountOutcome, CallTypes
<1>. QED BY <1>5, <1>6, <1>7 DEF CallAnswered, Fetching

LEMMA OwnBoundAnswers ==
  ASSUME AnsweredInv, NEW c \in Calls, OwnBoundFires(c)
  PROVE  CallAnswered(c)'
<1>1. CallTypes /\ AnswerInv
  BY DEF AnsweredInv
<1>. DEFINE s == surface[c]
<1>2. s \in DOMAIN Surface /\ counted[c] = 0
  BY <1>1 DEF CallTypes, AnswerInv, OwnBoundFires
<1>3. Surface[s].own # Unset
  BY <1>1, OwnFacts DEF OwnBoundFires
<1>4. Surface[s].limit = Unset
  BY <1>2, <1>3, SurfaceFacts
<1>5. answer'[c] = "typed" /\ takes' = takes /\ asked' = asked /\ surface' = surface
  BY <1>1 DEF OwnBoundFires, End, CallTypes
<1>6. counted'[c] = IF Fetching(c) THEN 1 ELSE 0
  BY <1>1, <1>2 DEF OwnBoundFires, CountOutcome, CallTypes
<1>. QED BY <1>4, <1>5, <1>6 DEF CallAnswered, Fetching

LEMMA LayerBoundAnswers ==
  ASSUME AnsweredInv, NEW c \in Calls, LayerBoundFires(c)
  PROVE  CallAnswered(c)'
<1>1. CallTypes /\ AnswerInv
  BY DEF AnsweredInv
<1>. DEFINE s == surface[c]
<1>2. /\ s \in DOMAIN Surface /\ counted[c] = 0 /\ takes[c] \in Nat
      /\ takes[c] <= Surface[s].limit
  BY <1>1 DEF CallTypes, AnswerInv, LayerBoundFires
<1>3. Surface[s].layer # Unset /\ LayerBound(c) <= takes[c] /\ LayerBound(c) <= Own(c)
  BY <1>1, LayerFacts DEF LayerBoundFires
<1>4. ASSUME asked[c] = Unset PROVE LayerBound(c) = Surface[s].layer /\ LayerBound(c) \in 70..130
  BY <1>1, <1>2, <1>3, <1>4, LayerFacts, SurfaceFacts
<1>5. ASSUME asked[c] = Unset PROVE Surface[s].own = Unset
  <2>1. SUFFICES ASSUME Surface[s].own # Unset PROVE FALSE
    OBVIOUS
  <2>2. Own(c) \in Nat /\ Own(c) <= 60
    BY <1>1, <1>5, <2>1, OwnFacts
  <2>. QED BY <1>3, <1>4, <1>5, <2>2
<1>6. ASSUME asked[c] = Unset PROVE Surface[s].limit = Unset
  BY <1>2, <1>3, <1>4, <1>6, SurfaceFacts
<1>7. /\ answer'[c] = "generic" /\ takes' = takes /\ asked' = asked /\ surface' = surface
      /\ counted' = counted
  BY <1>1 DEF LayerBoundFires, End, CallTypes
<1>. QED BY <1>2, <1>5, <1>6, <1>7 DEF CallAnswered, Fetching

LEMMA AnsweredStep ==
  AnsweredInv /\ CallTypes' /\ [BoundsNext]_boundVars => AnswerInv' /\ RightBoundAnswers'
<1>. SUFFICES ASSUME AnsweredInv, CallTypes', [BoundsNext]_boundVars
              PROVE  AnswerInv' /\ RightBoundAnswers'
  OBVIOUS
<1>. USE DEF AnsweredInv
<1>1. CASE UNCHANGED boundVars
  BY <1>1 DEF AnswerInv, RightBoundAnswers, Fetching, boundVars
<1>a. \A c \in Calls : CallAnswered(c)
  BY DEF RightBoundAnswers, CallAnswered
<1>b. ASSUME \A c \in Calls : CallAnswered(c)' PROVE RightBoundAnswers'
  BY <1>b DEF RightBoundAnswers, CallAnswered
(* A step is a step of one call: what the others have stays as it is.      *)
<1>2. ASSUME NEW c \in Calls, NEW where \in DOMAIN Surface,
             NEW timeout \in Timeouts \cup {Unset}, Call(c, where, timeout)
      PROVE  AnswerInv' /\ RightBoundAnswers'
  <2>1. AnswerInv'
    BY <1>2 DEF AnswerInv, Call, CallTypes
  <2>2. ASSUME NEW o \in Calls PROVE CallAnswered(o)'
    <3>1. CASE o = c
      <4>1. answer'[c] = "none" /\ counted'[c] = 0
        BY <1>2 DEF AnswerInv, Call, CallTypes
      <4>. QED BY <3>1, <4>1 DEF CallAnswered
    <3>2. CASE o # c
      <4>1. /\ answer'[o] = answer[o] /\ counted'[o] = counted[o] /\ takes'[o] = takes[o]
            /\ asked'[o] = asked[o] /\ surface'[o] = surface[o]
        BY <1>2, <3>2 DEF Call, CallTypes
      <4>. QED BY <1>a, <4>1 DEF CallAnswered, Fetching
    <3>. QED BY <3>1, <3>2
  <2>. QED BY <2>1, <2>2, <1>b
<1>3. ASSUME NEW c \in Calls, Guard(c)
      PROVE  AnswerInv' /\ RightBoundAnswers'
  BY <1>3 DEF AnswerInv, RightBoundAnswers, Fetching, Guard, Arm, CallTypes
<1>4. ASSUME NEW c \in Calls, NEW duration \in Works, TimeAssumption, Begin(c, duration)
      PROVE  AnswerInv' /\ RightBoundAnswers'
  <2>1. Surface[surface[c]].limit \in Nat
    BY SurfaceFacts DEF CallTypes, Unset
  <2>2. duration \in Nat
    BY <1>4 DEF TimeAssumption
  <2>3. Min({duration, Surface[surface[c]].limit}) <= Surface[surface[c]].limit
    BY <2>1, <2>2, LowerOfTwo
  <2>4. AnswerInv'
    BY <1>4, <2>3 DEF AnswerInv, Begin, Arm, CallTypes
  <2>5. ASSUME NEW o \in Calls PROVE CallAnswered(o)'
    <3>1. answer' = answer /\ counted' = counted /\ asked' = asked /\ surface' = surface
      BY <1>4 DEF Begin
    <3>2. takes'[o] = takes[o] \/ answer[o] = "none"
      BY <1>4 DEF AnswerInv, Begin, CallTypes
    <3>. QED BY <1>a, <3>1, <3>2 DEF CallAnswered, Fetching
  <2>. QED BY <2>4, <2>5, <1>b
<1>5. ASSUME NEW c \in Calls, NEW with, with \notin {"none"}, End(c, with),
             UNCHANGED counted \/ CountOutcome(c), CallAnswered(c)'
      PROVE  AnswerInv' /\ RightBoundAnswers'
  <2>1. AnswerInv'
    BY <1>5 DEF AnswerInv, End, CountOutcome, CallTypes
  <2>2. ASSUME NEW o \in Calls, o # c PROVE CallAnswered(o)'
    <3>1. /\ answer'[o] = answer[o] /\ counted'[o] = counted[o] /\ takes'[o] = takes[o]
          /\ asked'[o] = asked[o] /\ surface'[o] = surface[o]
      BY <1>5, <2>2 DEF End, CountOutcome, CallTypes
    <3>. QED BY <1>a, <3>1 DEF CallAnswered, Fetching
  <2>. QED BY <1>5, <2>1, <2>2, <1>b
<1>6. ASSUME NEW c \in Calls, RefuseBody(c) \/ Reject(c) \/ GoesAway(c)
      PROVE  AnswerInv' /\ RightBoundAnswers'
  <2>1. PICK with \in {"refused", "rejected", "gone"} : End(c, with) /\ UNCHANGED counted
    BY <1>6 DEF RefuseBody, Reject, GoesAway
  <2>2. callAt[c] # "done"
    BY <1>6 DEF RefuseBody, Reject, GoesAway
  <2>3. counted'[c] = 0 /\ answer'[c] = with
    BY <2>1, <2>2 DEF AnswerInv, End, CallTypes
  <2>4. CallAnswered(c)'
    BY <2>3 DEF CallAnswered
  <2>. QED BY <1>5, <2>1, <2>4
<1>7. ASSUME NEW c \in Calls, Complete(c)
      PROVE  AnswerInv' /\ RightBoundAnswers'
  BY <1>5, <1>7, CompleteAnswers DEF Complete
<1>8. ASSUME NEW c \in Calls, OwnBoundFires(c)
      PROVE  AnswerInv' /\ RightBoundAnswers'
  BY <1>5, <1>8, OwnBoundAnswers DEF OwnBoundFires
<1>9. ASSUME NEW c \in Calls, LayerBoundFires(c)
      PROVE  AnswerInv' /\ RightBoundAnswers'
  BY <1>5, <1>9, LayerBoundAnswers DEF LayerBoundFires
<1>. QED BY <1>1, <1>2, <1>3, <1>4, <1>6, <1>7, <1>8, <1>9, TimeAssumption DEF BoundsNext

LEMMA CallsStart == BoundsInit => AnsweredInv
<1>. SUFFICES ASSUME BoundsInit PROVE AnsweredInv
  OBVIOUS
<1>1. "fetch" \in DOMAIN Surface /\ Unset \in Nat
  BY DEF Surface, Unset
<1>2. CallTypes
  BY <1>1 DEF BoundsInit, CallTypes, CallStages
<1>3. AnswerInv /\ RightBoundAnswers
  BY DEF BoundsInit, AnswerInv, RightBoundAnswers
<1>. QED BY <1>2, <1>3 DEF AnsweredInv

(* For every set of calls, every duration of their work and every timeout  *)
(* they ask for: the bound that cuts a call is the one whose words suit    *)
(* it, no call outlives what it asked for, and an answered fetch is        *)
(* counted once.                                                           *)
THEOREM TheRightBound == BoundsSpec => []RightBoundAnswers
<1>1. BoundsInit => AnsweredInv
  BY CallsStart
<1>2. AnsweredInv /\ [BoundsNext]_boundVars => AnsweredInv'
  BY CallTypesStep, AnsweredStep, TimeAssumption DEF AnsweredInv
<1>3. AnsweredInv => RightBoundAnswers
  BY DEF AnsweredInv
<1>. QED BY <1>1, <1>2, <1>3, PTL DEF BoundsSpec

-----------------------------------------------------------------------------
(* The guards alive, each of its call and with its number; the gauge is    *)
(* how many there are.                                                     *)
Guards == UNION {{c} \X (1..bounds[c]) : c \in Calls}
UnderBounds == {c \in Calls : callAt[c] \in {"handler", "work"}}

GaugeInv ==
  /\ IsFiniteSet(UnderBounds)
  /\ \A c \in Calls : /\ bounds[c] <= 2
                      /\ callAt[c] = "handler" => bounds[c] <= 1
                      /\ callAt[c] \notin {"handler", "work"} => bounds[c] = 0
  /\ IsFiniteSet(Guards) /\ inflight = Cardinality(Guards)

LEMMA UpTo == ASSUME NEW n \in Nat PROVE IsFiniteSet(1..n) /\ Cardinality(1..n) = n
BY FS_Interval

LEMMA GuardMembers ==
  ASSUME NEW g PROVE g \in Guards <=> \E c \in Calls : \E n \in 1..bounds[c] : g = <<c, n>>
BY DEF Guards

LEMMA GaugeCounts ==
  ASSUME CallTypes, GaugeInv
  PROVE  GaugeSettles
<1>1. Guards \subseteq UnderBounds \X (1..2)
  <2>1. SUFFICES ASSUME NEW g \in Guards PROVE g \in UnderBounds \X (1..2)
    OBVIOUS
  <2>2. PICK c \in Calls : \E n \in 1..bounds[c] : g = <<c, n>>
    BY GuardMembers
  <2>3. PICK n \in 1..bounds[c] : g = <<c, n>>
    BY <2>2
  <2>4. bounds[c] \in Nat /\ bounds[c] <= 2
    BY DEF CallTypes, GaugeInv
  <2>5. bounds[c] # 0 /\ n \in 1..2
    BY <2>3, <2>4
  <2>6. c \in UnderBounds
    BY <2>5 DEF GaugeInv, UnderBounds
  <2>. QED BY <2>3, <2>5, <2>6
<1>2. IsFiniteSet(1..2) /\ Cardinality(1..2) = 2
  BY UpTo
<1>3. IsFiniteSet(UnderBounds) /\ Cardinality(UnderBounds) \in Nat
  BY FS_CardinalityType DEF GaugeInv
<1>4. /\ IsFiniteSet(UnderBounds \X (1..2))
      /\ Cardinality(UnderBounds \X (1..2)) = Cardinality(UnderBounds) * Cardinality(1..2)
  BY <1>2, <1>3, FS_Product
<1>5. Cardinality(Guards) <= Cardinality(UnderBounds \X (1..2))
  BY <1>1, <1>4, FS_Subset
<1>6. inflight <= 2 * Cardinality(UnderBounds)
  BY <1>2, <1>3, <1>4, <1>5 DEF GaugeInv
<1>7. ASSUME \A c \in Calls : callAt[c] \in {"idle", "layer", "done"} PROVE inflight = 0
  <2>1. UnderBounds = {}
    BY <1>7 DEF UnderBounds
  <2>2. Guards = {}
    BY <1>1, <2>1
  <2>. QED BY <2>2, FS_EmptySet DEF GaugeInv
<1>. QED BY <1>6, <1>7 DEF GaugeSettles, UnderBounds

(* A bound arms: a guard more, of a call that is under way.                *)
LEMMA GaugeArms ==
  ASSUME CallTypes, GaugeInv, NEW c \in Calls, NEW bound, NEW to \in {"handler", "work"},
         callAt[c] \in {"layer", "handler"}, to = "handler" => callAt[c] = "layer",
         Arm(c, bound, to)
  PROVE  GaugeInv'
<1>1. callAt' = [callAt EXCEPT ![c] = to] /\ callAt \in [Calls -> CallStages]
      /\ bounds \in [Calls -> Nat]
  BY DEF Arm, CallTypes
<1>2. /\ callAt'[c] = to
      /\ \A o \in Calls : o # c => callAt'[o] = callAt[o]
  BY <1>1
<1>3. UnderBounds' = UnderBounds \cup {c}
  BY <1>2 DEF UnderBounds
<1>4. IsFiniteSet(UnderBounds')
  BY <1>3, FS_AddElement DEF GaugeInv
<1>5. CASE bound = Unset
  <2>1. bounds' = bounds /\ inflight' = inflight
    BY <1>5 DEF Arm
  <2>2. Guards' = Guards
    BY <2>1 DEF Guards
  <2>3. /\ bounds[c] <= 1
        /\ callAt[c] = "layer" => bounds[c] = 0
    BY DEF GaugeInv
  <2>4. ASSUME NEW o \in Calls
        PROVE  /\ bounds'[o] <= 2
               /\ callAt'[o] = "handler" => bounds'[o] <= 1
               /\ callAt'[o] \notin {"handler", "work"} => bounds'[o] = 0
    <3>1. CASE o = c
      BY <1>2, <2>1, <2>3, <3>1 DEF GaugeInv
    <3>2. CASE o # c
      BY <1>2, <2>1, <3>2 DEF GaugeInv
    <3>. QED BY <3>1, <3>2
  <2>. QED BY <1>4, <2>1, <2>2, <2>4 DEF GaugeInv
<1>6. CASE bound # Unset
  <2>1. bounds' = [bounds EXCEPT ![c] = @ + 1] /\ inflight' = inflight + 1
    BY <1>6 DEF Arm
  <2>2. /\ bounds'[c] = bounds[c] + 1
        /\ \A o \in Calls : o # c => bounds'[o] = bounds[o]
    BY <1>1, <2>1
  <2>3. /\ bounds[c] \in Nat /\ bounds[c] <= 1
        /\ callAt[c] = "layer" => bounds[c] = 0
    BY <1>1 DEF GaugeInv
  <2>4. <<c, bounds[c] + 1>> \notin Guards
    <3>1. SUFFICES ASSUME <<c, bounds[c] + 1>> \in Guards PROVE FALSE
      OBVIOUS
    <3>2. PICK o \in Calls : \E n \in 1..bounds[o] : <<c, bounds[c] + 1>> = <<o, n>>
      BY <3>1, GuardMembers
    <3>3. bounds[c] + 1 \in 1..bounds[c]
      BY <3>2
    <3>. QED BY <2>3, <3>3
  <2>5. Guards' = Guards \cup {<<c, bounds[c] + 1>>}
    <3>1. ASSUME NEW g \in Guards PROVE g \in Guards'
      <4>1. PICK o \in Calls : \E n \in 1..bounds[o] : g = <<o, n>>
        BY <3>1, GuardMembers
      <4>2. PICK n \in 1..bounds[o] : g = <<o, n>>
        BY <4>1
      <4>3. n \in 1..bounds'[o]
        BY <1>1, <2>2, <4>2
      <4>. QED BY <4>2, <4>3 DEF Guards
    <3>2. <<c, bounds[c] + 1>> \in Guards'
      <4>1. bounds[c] + 1 \in 1..bounds'[c]
        BY <2>2, <2>3
      <4>. QED BY <4>1 DEF Guards
    <3>3. ASSUME NEW g \in Guards' PROVE g \in Guards \cup {<<c, bounds[c] + 1>>}
      <4>1. PICK o \in Calls : \E n \in 1..bounds'[o] : g = <<o, n>>
        BY <3>3 DEF Guards
      <4>2. PICK n \in 1..bounds'[o] : g = <<o, n>>
        BY <4>1
      <4>3. n \in 1..bounds[o] \/ (o = c /\ n = bounds[c] + 1)
        BY <1>1, <2>2, <4>2
      <4>. QED BY <4>2, <4>3, GuardMembers
    <3>. QED BY <3>1, <3>2, <3>3
  <2>6. IsFiniteSet(Guards') /\ Cardinality(Guards') = Cardinality(Guards) + 1
    <3>. DEFINE e == <<c, bounds[c] + 1>>
    <3>. HIDE DEF e
    <3>1. IsFiniteSet(Guards) /\ e \notin Guards /\ Guards' = Guards \cup {e}
      BY <2>4, <2>5 DEF GaugeInv, e
    <3>. QED BY <3>1, FS_AddElement
  <2>7. ASSUME NEW o \in Calls
        PROVE  /\ bounds'[o] <= 2
               /\ callAt'[o] = "handler" => bounds'[o] <= 1
               /\ callAt'[o] \notin {"handler", "work"} => bounds'[o] = 0
    <3>1. CASE o = c
      BY <1>2, <2>2, <2>3, <3>1 DEF GaugeInv
    <3>2. CASE o # c
      BY <1>2, <2>2, <3>2 DEF GaugeInv
    <3>. QED BY <3>1, <3>2
  <2>. QED BY <1>4, <2>1, <2>6, <2>7 DEF GaugeInv
<1>. QED BY <1>5, <1>6

(* A call ends: its guards go, and with them as much as they counted.      *)
LEMMA GaugeDrops ==
  ASSUME CallTypes, GaugeInv, NEW c \in Calls, NEW with, End(c, with)
  PROVE  GaugeInv'
<1>. DEFINE own == {c} \X (1..bounds[c])
<1>1. /\ callAt' = [callAt EXCEPT ![c] = "done"] /\ callAt \in [Calls -> CallStages]
      /\ bounds' = [bounds EXCEPT ![c] = 0] /\ bounds \in [Calls -> Nat]
      /\ inflight' = inflight - bounds[c]
  BY DEF End, CallTypes
<1>2. /\ callAt'[c] = "done" /\ bounds'[c] = 0
      /\ \A o \in Calls : o # c => callAt'[o] = callAt[o] /\ bounds'[o] = bounds[o]
  BY <1>1
<1>3. UnderBounds' \subseteq UnderBounds
  BY <1>2 DEF UnderBounds
<1>4. IsFiniteSet(UnderBounds')
  BY <1>3, FS_Subset DEF GaugeInv
<1>5. own \subseteq Guards
  BY DEF Guards
<1>6. Guards' = Guards \ own
  <2>1. ASSUME NEW g \in Guards' PROVE g \in Guards \ own
    <3>1. PICK o \in Calls : \E n \in 1..bounds'[o] : g = <<o, n>>
      BY <2>1 DEF Guards
    <3>2. PICK n \in 1..bounds'[o] : g = <<o, n>>
      BY <3>1
    <3>3. o # c
      BY <1>2, <3>2
    <3>. QED BY <1>2, <3>2, <3>3, GuardMembers
  <2>2. ASSUME NEW g \in Guards \ own PROVE g \in Guards'
    <3>1. PICK o \in Calls : \E n \in 1..bounds[o] : g = <<o, n>>
      BY <2>2, GuardMembers
    <3>2. PICK n \in 1..bounds[o] : g = <<o, n>>
      BY <3>1
    <3>3. o # c
      BY <2>2, <3>2
    <3>4. n \in 1..bounds'[o]
      BY <1>2, <3>2, <3>3
    <3>. QED BY <3>2, <3>4 DEF Guards
  <2>. QED BY <2>1, <2>2
<1>7. Cardinality(own) = bounds[c]
  <2>1. bounds[c] \in Nat
    BY <1>1
  <2>2. IsFiniteSet(1..bounds[c]) /\ Cardinality(1..bounds[c]) = bounds[c]
    BY <2>1, UpTo
  <2>3. Cardinality(own) = Cardinality({c}) * Cardinality(1..bounds[c])
    BY <2>2, FS_Product, FS_Singleton
  <2>4. Cardinality({c}) = 1
    BY FS_Singleton
  <2>. QED BY ONLY <2>1, <2>2, <2>3, <2>4
<1>8. IsFiniteSet(Guards') /\ Cardinality(Guards') = Cardinality(Guards) - bounds[c]
  <2>. HIDE DEF own
  <2>1. Guards \cap own = own
    BY <1>5
  <2>2. /\ IsFiniteSet(Guards \ own)
        /\ Cardinality(Guards \ own) = Cardinality(Guards) - Cardinality(Guards \cap own)
    BY FS_Difference DEF GaugeInv
  <2>. QED BY ONLY <1>6, <1>7, <2>1, <2>2
<1>9. ASSUME NEW o \in Calls
      PROVE  /\ bounds'[o] <= 2
             /\ callAt'[o] = "handler" => bounds'[o] <= 1
             /\ callAt'[o] \notin {"handler", "work"} => bounds'[o] = 0
  <2>1. CASE o = c
    BY <1>2, <2>1
  <2>2. CASE o # c
    BY <1>2, <2>2 DEF GaugeInv
  <2>. QED BY <2>1, <2>2
<1>. QED BY <1>1, <1>4, <1>8, <1>9 DEF GaugeInv

LEMMA GaugeStep == CallTypes /\ GaugeInv /\ [BoundsNext]_boundVars => GaugeInv'
<1>. SUFFICES ASSUME CallTypes, GaugeInv, [BoundsNext]_boundVars PROVE GaugeInv'
  OBVIOUS
<1>1. CASE UNCHANGED boundVars
  BY <1>1 DEF GaugeInv, Guards, UnderBounds, boundVars
<1>2. ASSUME NEW c \in Calls, NEW where \in DOMAIN Surface,
             NEW timeout \in Timeouts \cup {Unset}, Call(c, where, timeout)
      PROVE  GaugeInv'
  <2>1. /\ bounds' = bounds /\ inflight' = inflight
        /\ callAt[c] = "idle" /\ callAt'[c] = "layer"
        /\ \A o \in Calls : o # c => callAt'[o] = callAt[o]
    BY <1>2 DEF Call, CallTypes
  <2>2. UnderBounds' = UnderBounds /\ Guards' = Guards
    BY <2>1 DEF UnderBounds, Guards
  <2>. QED BY <2>1, <2>2 DEF GaugeInv
<1>3. ASSUME NEW c \in Calls, Guard(c) PROVE GaugeInv'
  BY <1>3, GaugeArms DEF Guard
<1>4. ASSUME NEW c \in Calls, NEW duration \in Works, Begin(c, duration) PROVE GaugeInv'
  BY <1>4, GaugeArms DEF Begin
<1>5. ASSUME NEW c \in Calls,
             RefuseBody(c) \/ Reject(c) \/ Complete(c) \/ OwnBoundFires(c)
               \/ LayerBoundFires(c) \/ GoesAway(c)
      PROVE  GaugeInv'
  BY <1>5, GaugeDrops
     DEF RefuseBody, Reject, Complete, OwnBoundFires, LayerBoundFires, GoesAway
<1>. QED BY <1>1, <1>2, <1>3, <1>4, <1>5 DEF BoundsNext

(* However many calls there are, and whichever of them end, are cut or go  *)
(* away: the gauge is how many guards are alive, so that it is back at     *)
(* zero when no call is under a bound.                                     *)
THEOREM TheGaugeSettles == BoundsSpec => []GaugeSettles
<1>1. BoundsInit => CallTypes /\ GaugeInv
  <2>1. SUFFICES ASSUME BoundsInit PROVE CallTypes /\ GaugeInv
    OBVIOUS
  <2>2. CallTypes
    BY <2>1, CallsStart DEF AnsweredInv
  <2>3. UnderBounds = {} /\ Guards = {}
    BY <2>1 DEF BoundsInit, UnderBounds, Guards
  <2>. QED BY <2>1, <2>2, <2>3, FS_EmptySet DEF BoundsInit, GaugeInv
<1>2. CallTypes /\ GaugeInv /\ [BoundsNext]_boundVars => (CallTypes /\ GaugeInv)'
  BY CallTypesStep, GaugeStep, TimeAssumption
<1>3. CallTypes /\ GaugeInv => GaugeSettles
  BY GaugeCounts
<1>. QED BY <1>1, <1>2, <1>3, PTL DEF BoundsSpec

-----------------------------------------------------------------------------
(* The caches around a solver: cooldowns are earned by the cohort's own    *)
(* failures, old streaks are forgotten, the eviction of cooldowns cannot   *)
(* be noticed, and a late rejection does not remove a newer solution.      *)
USE KeyAssumption, SizeAssumption, NegAssumption

(* The types the proofs need: of the tasks and of the negative cache. *)
NegTypes ==
  /\ neg \in [Keys -> NegState] /\ earned \in [Keys -> 0..MaxFailures]
  /\ pc \in [Tasks -> Pc] /\ key \in [Tasks -> Keys]

LEMMA SomeKeyType == SomeKey \in Keys
BY DEF SomeKey

(* What each action does to the negative cache and its history. *)
NegStep ==
  \/ \E k \in Keys : RecordFailure(k)
  \/ \E k \in Keys : RecordSuccess(k)
  \/ EvictNeg
  \/ neg' = [k \in Keys |-> Older(neg[k])] /\ UNCHANGED earned
  \/ UNCHANGED negVars

(* A step of a task leaves it at a place and with a key of the right kind. *)
LEMMA TaskTypesStep ==
  ASSUME NegTypes, [Next]_vars
  PROVE  pc' \in [Tasks -> Pc] /\ key' \in [Tasks -> Keys]
<1>. USE SomeKeyType DEF NegTypes
<1>1. ASSUME NEW t \in Tasks, Return(t)
      PROVE  pc' \in [Tasks -> Pc] /\ key' \in [Tasks -> Keys]
  BY <1>1 DEF Return, Pc
<1>2. ASSUME NEW t \in Tasks, NEW to \in Pc, GoTo(t, to)
      PROVE  pc' \in [Tasks -> Pc] /\ key' \in [Tasks -> Keys]
  BY <1>2 DEF GoTo
<1>3. ASSUME NEW t \in Tasks, NEW k \in Keys, Lookup(t, k)
      PROVE  pc' \in [Tasks -> Pc] /\ key' \in [Tasks -> Keys]
  BY <1>3 DEF Lookup, Pc
<1>4. ASSUME NEW t \in Tasks, Step(t)
      PROVE  pc' \in [Tasks -> Pc] /\ key' \in [Tasks -> Keys]
  <2>1. CASE FailFast(t)
    BY <2>1, <1>1, <1>2 DEF FailFast, Pc
  <2>2. CASE Answered(t)
    BY <2>2, <1>1 DEF Answered
  <2>3. ASSUME NEW solvable \in BOOLEAN, Challenged(t, solvable)
        PROVE  pc' \in [Tasks -> Pc] /\ key' \in [Tasks -> Keys]
    <3>1. CASE solvable
      BY <2>3, <3>1 DEF Challenged, Pc
    <3>2. CASE ~solvable
      BY <2>3, <3>2, <1>1 DEF Challenged
    <3>. QED BY <3>1, <3>2
  <2>4. CASE Gate(t)
    BY <2>4, <1>1, <1>2 DEF Gate, Pc
  <2>5. CASE SolveFails(t)
    BY <2>5, <1>1 DEF SolveFails
  <2>6. CASE SolveSucceeds(t)
    BY <2>6, <1>2 DEF SolveSucceeds, Pc
  <2>7. CASE Clear(t)
    BY <2>7, <1>1 DEF Clear
  <2>. QED BY <1>4, <2>1, <2>2, <2>3, <2>4, <2>5, <2>6, <2>7 DEF Step, Answer, Solved
<1>5. CASE EvictCookies \/ EvictNeg \/ Tick \/ UNCHANGED vars
  BY <1>5 DEF EvictCookies, EvictNeg, Tick, taskVars, vars
<1>. QED BY <1>3, <1>4, <1>5 DEF Next

LEMMA NegSteps == ASSUME NegTypes, [Next]_vars PROVE NegStep
<1>. USE DEF NegStep
<1>1. ASSUME NEW t \in Tasks, Step(t) PROVE NegStep
  <2>0. key[t] \in Keys
    BY DEF NegTypes
  <2>1. CASE FailFast(t) BY <2>1 DEF FailFast
  <2>2. CASE Answered(t) BY <2>2 DEF Answered
  <2>3. CASE \E solvable \in BOOLEAN : Challenged(t, solvable) BY <2>3 DEF Challenged
  <2>4. CASE Gate(t) BY <2>4 DEF Gate
  <2>5. CASE SolveFails(t) BY <2>0, <2>5 DEF SolveFails
  <2>6. CASE SolveSucceeds(t) BY <2>6 DEF SolveSucceeds
  <2>7. CASE Clear(t) BY <2>0, <2>7 DEF Clear
  <2>. QED BY <1>1, <2>1, <2>2, <2>3, <2>4, <2>5, <2>6, <2>7 DEF Step, Answer, Solved
<1>2. ASSUME NEW t \in Tasks, NEW k \in Keys, Lookup(t, k) PROVE NegStep
  BY <1>2 DEF Lookup
<1>3. CASE EvictCookies BY <1>3 DEF EvictCookies
<1>4. CASE EvictNeg BY <1>4
<1>5. CASE Tick BY <1>5 DEF Tick
<1>6. CASE UNCHANGED vars BY <1>6 DEF vars
<1>. QED BY <1>1, <1>2, <1>3, <1>4, <1>5, <1>6 DEF Next

-----------------------------------------------------------------------------
(* The streak the cache counts is never longer than the failures the       *)
(* cohort has had since its last success.                                  *)
Earned ==
  \A k \in Keys : /\ neg[k].failures <= earned[k]
                  /\ Blocked(neg[k]) => earned[k] >= MaxFailures

NegInv == NegTypes /\ Earned

LEMMA NegInit == Init => NegInv
<1>. SUFFICES ASSUME Init PROVE NegInv
  OBVIOUS
<1>1. NegTypes
  BY UnknownType, SomeKeyType DEF Init, NegTypes, Pc
<1>2. Earned
  BY DEF Init, Earned, Unknown, Blocked
<1>. QED BY <1>1, <1>2 DEF NegInv

LEMMA NegInvStep == NegInv /\ [Next]_vars => NegInv'
<1>. SUFFICES ASSUME NegInv, [Next]_vars PROVE NegInv'
  OBVIOUS
<1>0. NegTypes /\ Earned /\ NegStep
  BY NegSteps DEF NegInv
<1>. SUFFICES /\ neg' \in [Keys -> NegState] /\ earned' \in [Keys -> 0..MaxFailures]
              /\ Earned'
  BY <1>0, TaskTypesStep DEF NegInv, NegTypes
<1>a. neg \in [Keys -> NegState] /\ earned \in [Keys -> 0..MaxFailures]
  BY <1>0 DEF NegTypes
<1>1. ASSUME NEW k \in Keys, RecordFailure(k)
      PROVE  /\ neg' \in [Keys -> NegState] /\ earned' \in [Keys -> 0..MaxFailures]
             /\ Earned'
  <2> DEFINE e1 == IF earned[k] < MaxFailures THEN earned[k] + 1 ELSE earned[k]
  <2>1. /\ Failure(neg[k]) \in NegState /\ e1 \in 0..MaxFailures
        /\ Failure(neg[k]).failures <= e1
        /\ Blocked(Failure(neg[k])) => e1 >= MaxFailures
    BY <1>0, <1>a, FailureType, FailureEarned DEF Earned
  <2>2. neg' = [neg EXCEPT ![k] = Failure(neg[k])] /\ earned' = [earned EXCEPT ![k] = e1]
    BY <1>1 DEF RecordFailure
  <2>. HIDE DEF e1
  <2>. QED BY <1>0, <1>a, <2>1, <2>2 DEF Earned
<1>2. ASSUME NEW k \in Keys, RecordSuccess(k)
      PROVE  /\ neg' \in [Keys -> NegState] /\ earned' \in [Keys -> 0..MaxFailures]
             /\ Earned'
  <2>1. Unknown \in NegState /\ Unknown.failures = 0 /\ ~Blocked(Unknown)
    BY UnknownType DEF Unknown, Blocked
  <2>. QED BY <1>0, <1>2, <1>a, <2>1 DEF RecordSuccess, Earned
<1>3. CASE EvictNeg
  <2>1. Unknown \in NegState /\ Unknown.failures = 0 /\ ~Blocked(Unknown)
    BY UnknownType DEF Unknown, Blocked
  <2>. QED BY <1>0, <1>3, <1>a, <2>1 DEF EvictNeg, Earned
<1>4. CASE neg' = [k \in Keys |-> Older(neg[k])] /\ UNCHANGED earned
  BY <1>0, <1>4, <1>a, OlderType DEF Earned
<1>5. CASE UNCHANGED negVars
  BY <1>0, <1>5, <1>a DEF negVars, Earned
<1>. QED BY <1>0, <1>1, <1>2, <1>3, <1>4, <1>5 DEF NegStep

LEMMA NegAlways == Spec => []NegInv
BY NegInit, NegInvStep, PTL DEF Spec

(* A cohort is on cooldown only for MaxFailures failures of its own since  *)
(* its last success, however many requests of the other cohort fail on the *)
(* same domain.                                                            *)
THEOREM CooldownsAreEarned == Spec => []CooldownIsEarned
<1>1. NegInv => CooldownIsEarned
  BY DEF NegInv, Earned, CooldownIsEarned
<1>. QED BY <1>1, NegAlways, PTL

-----------------------------------------------------------------------------
(* Of the action properties each is a fact about one step from a state of  *)
(* the right types.                                                        *)
LEMMA Evicted ==
  ASSUME NEW s \in NegState, ~Kept(s)
  PROVE  Blocked(Unknown) = Blocked(s) /\ Failure(Unknown) = Failure(s)
<1>1. s.age > Window /\ ~Blocked(s) /\ ~Blocked(Unknown) /\ ~(Unknown.age > Window)
  BY DEF Kept, NegState, Unknown, Blocked
<1>2. Failure(Unknown) = Failure(s)
  BY <1>1 DEF Failure
<1>. QED BY <1>1, <1>2 DEF Blocked

(* The eviction task forgets only what no request could tell from nothing, *)
(* neither now nor at the next failure.                                    *)
THEOREM EvictionUnnoticed == Spec => EvictionInvisible
<1>1. ASSUME NegInv, EvictNeg, NEW k \in Keys
      PROVE  Blocked(neg'[k]) = Blocked(neg[k]) /\ Failure(neg'[k]) = Failure(neg[k])
  <2>1. neg[k] \in NegState /\ neg'[k] = IF Kept(neg[k]) THEN neg[k] ELSE Unknown
    BY <1>1 DEF NegInv, NegTypes, EvictNeg
  <2>2. CASE Kept(neg[k])
    <3>1. neg'[k] = neg[k]
      BY <2>1, <2>2
    <3>. QED BY <3>1
  <2>3. CASE ~Kept(neg[k])
    <3>1. neg'[k] = Unknown
      BY <2>1, <2>3
    <3>. QED BY <2>1, <2>3, <3>1, Evicted
  <2>. QED BY <2>2, <2>3
<1>2. NegInv /\ [Next]_vars
        => [EvictNeg => \A k \in Keys : /\ Blocked(neg'[k]) = Blocked(neg[k])
                                       /\ Failure(neg'[k]) = Failure(neg[k])]_vars
  BY <1>1
<1>. QED BY <1>2, NegAlways, PTL DEF Spec, EvictionInvisible

LEMMA AgedOut ==
  ASSUME NEW s \in NegState, MaxFailures > 1, s.age > Window
  PROVE  ~Blocked(Failure(s))
BY DEF Failure, Unknown, Blocked, NegState

(* A streak that the window has aged out never counts towards a cooldown,  *)
(* whoever fails next.                                                     *)
THEOREM StreaksAgeOut == Spec => StaleStreakForgotten
<1>1. ASSUME NegInv, [Next]_vars, NEW k \in Keys,
             MaxFailures > 1, neg[k].age > Window, ~Blocked(neg[k])
      PROVE  ~Blocked(neg'[k])
  <2>0. NegStep /\ neg \in [Keys -> NegState] /\ neg[k] \in NegState
    BY <1>1, NegSteps DEF NegInv, NegTypes
  <2>1. ASSUME NEW j \in Keys, RecordFailure(j) PROVE ~Blocked(neg'[k])
    <3>1. neg'[k] = IF k = j THEN Failure(neg[k]) ELSE neg[k]
      BY <2>0, <2>1 DEF RecordFailure
    <3>. QED BY <1>1, <2>0, <3>1, AgedOut
  <2>2. ~Blocked(Unknown)
    BY DEF Unknown, Blocked
  <2>3. ASSUME NEW j \in Keys, RecordSuccess(j) PROVE ~Blocked(neg'[k])
    BY <1>1, <2>0, <2>2, <2>3 DEF RecordSuccess
  <2>4. CASE EvictNeg
    BY <1>1, <2>2, <2>4 DEF EvictNeg
  <2>5. CASE neg' = [j \in Keys |-> Older(neg[j])]
    BY <1>1, <2>0, <2>5, OlderType
  <2>6. CASE UNCHANGED negVars
    BY <1>1, <2>6 DEF negVars
  <2>. QED BY <2>0, <2>1, <2>3, <2>4, <2>5, <2>6 DEF NegStep
<1>2. NegInv /\ [Next]_vars
        => [\A k \in Keys :
              MaxFailures > 1 /\ neg[k].age > Window /\ ~Blocked(neg[k])
                => ~Blocked(neg'[k])]_vars
  BY <1>1
<1>. QED BY <1>2, NegAlways, PTL DEF Spec, StaleStreakForgotten

-----------------------------------------------------------------------------
(* A task that waits for the answer to a cached solution leaves that place *)
(* only by its own Answered or Challenged.                                 *)
LEMMA OwnStep ==
  ASSUME NegTypes, [Next]_vars, NEW t \in Tasks,
         pc[t] = "cachedSend", pc'[t] # "cachedSend"
  PROVE  Answered(t) \/ \E solvable \in BOOLEAN : Challenged(t, solvable)
<1>0. pc \in [Tasks -> Pc]
  BY DEF NegTypes
<1>1. ASSUME NEW s \in Tasks, NEW k \in Keys, Lookup(s, k) PROVE FALSE
  BY <1>0, <1>1 DEF Lookup
<1>2. ASSUME NEW s \in Tasks, Step(s), s # t PROVE FALSE
  <2>1. \E to : pc' = [pc EXCEPT ![s] = to]
    BY <1>2 DEF Step, Answer, Solved, FailFast, Answered, Challenged, Gate, SolveFails,
                SolveSucceeds, Clear, Return, GoTo
  <2>. QED BY <1>0, <1>2, <2>1
<1>3. ASSUME Step(t) PROVE Answer(t)
  BY <1>3 DEF Step, Solved, FailFast, Gate, SolveFails, SolveSucceeds, Clear
<1>4. CASE EvictCookies \/ EvictNeg \/ Tick \/ UNCHANGED vars
  BY <1>4 DEF EvictCookies, EvictNeg, Tick, taskVars, vars
<1>. QED BY <1>1, <1>2, <1>3, <1>4 DEF Next, Answer

(* A rejection that comes late never removes the solution another request  *)
(* has stored since.                                                       *)
THEOREM NewerSolutionKept == Spec => FresherSolutionSurvives
<1>1. ASSUME NegInv, [Next]_vars, NEW t \in Tasks,
             pc[t] = "cachedSend", pc'[t] # "cachedSend", solution[DomainOf(t)] # sent[t]
      PROVE  solution' = solution
  <2>1. Answered(t) \/ \E solvable \in BOOLEAN : Challenged(t, solvable)
    BY <1>1, OwnStep DEF NegInv
  <2>2. UNCHANGED cookieVars
    BY <1>1, <2>1 DEF Answered, Challenged, RemoveIf
  <2>. QED BY <2>2 DEF cookieVars
<1>2. NegInv /\ [Next]_vars
        => [\A t \in Tasks :
              pc[t] = "cachedSend" /\ pc'[t] # "cachedSend" /\ solution[DomainOf(t)] # sent[t]
                => solution' = solution]_vars
  BY <1>1
<1>. QED BY <1>2, NegAlways, PTL DEF Spec, FresherSolutionSurvives

-----------------------------------------------------------------------------
USE MediaAssumption

LEMMA SomePathType == SomePath \in Paths
BY DEF SomePath

LEMMA NewInodeIsFree ==
  ASSUME NEW i \in Inodes, Free(i)
  PROVE  NewInode \in Inodes /\ Free(NewInode)
BY DEF NewInode

-----------------------------------------------------------------------------
(* Every inode has one name at most. *)
OneName ==
  /\ \A p, q \in Paths : part[p] = part[q] /\ part[p] # NoFile => p = q
  /\ \A p, q \in Paths : dest[p] = dest[q] /\ dest[p] # NoFile => p = q
  /\ \A p, q \in Paths : part[p] = dest[q] => part[p] = NoFile

(* An open file is the inode of its own path, if it has a name still. *)
OwnFile ==
  /\ \A d \in Downloads : stage[d] = "stream" => file[d] \in Inodes
  /\ \A d \in Downloads, p \in Paths :
       stage[d] = "stream" /\ file[d] \in {part[p], dest[p]} => p = path[d]
  /\ \A d, e \in Downloads :
       stage[d] = "stream" /\ stage[e] = "stream" /\ file[d] = file[e] => path[d] = path[e]

(* While nobody overlaps, the one download of a path holds its partial     *)
(* file, and the file has what it has written.                             *)
Alone(p) ==
  /\ \A d, e \in Downloads :
       stage[d] \in Open /\ stage[e] \in Open /\ path[d] = p /\ path[e] = p => d = e
  /\ \A d \in Downloads : stage[d] = "stream" /\ path[d] = p
       => part[p] = file[d] /\ content[file[d]] = 1..written[d]
  /\ \A d \in Downloads : stage[d] = "rename" /\ path[d] = p
       => part[p] # NoFile /\ content[part[p]] = Whole
  /\ dest[p] # NoFile => content[dest[p]] = Whole

(* A download that has no open file has written nothing of the next one. *)
Idling == \A d \in Downloads : stage[d] # "stream" => written[d] = 0

MediaInv ==
  /\ MediaTypeOK /\ OneName /\ OwnFile /\ Idling
  /\ \A p \in Paths : ~raced[p] => Alone(p)

LEMMA MediaStart == MediaInit => MediaInv
<1>. SUFFICES ASSUME MediaInit PROVE MediaInv
  OBVIOUS
<1>1. MediaTypeOK
  BY SomePathType DEF MediaInit, MediaTypeOK, Stage
<1>2. OneName /\ OwnFile /\ Idling /\ \A p \in Paths : Alone(p)
  BY DEF MediaInit, OneName, OwnFile, Idling, Alone, Open
<1>. QED BY <1>1, <1>2 DEF MediaInv

-----------------------------------------------------------------------------
(* What has a name or is open keeps its content. *)
ContentKept ==
  /\ content' \in [Inodes -> SUBSET Whole]
  /\ \A p \in Paths : /\ part'[p] # NoFile => content'[part'[p]] = content[part'[p]]
                      /\ dest'[p] # NoFile => content'[dest'[p]] = content[dest'[p]]
  /\ \A d \in Downloads : stage'[d] = "stream" /\ file'[d] \in Inodes
                            => content'[file'[d]] = content[file'[d]]

LEMMA ReclaimKeeps ==
  ASSUME MediaTypeOK, Reclaim,
         part' \in [Paths -> Inodes \cup {NoFile}], dest' \in [Paths -> Inodes \cup {NoFile}]
  PROVE  ContentKept
<1>1. content \in [Inodes -> SUBSET Whole]
  BY DEF MediaTypeOK
<1>2. \A i \in Inodes : content'[i] = IF Linked(i)' \/ Opened(i)' THEN content[i] ELSE {}
  BY DEF Reclaim
<1>3. content' \in [Inodes -> SUBSET Whole]
  BY <1>1 DEF Reclaim
<1>4. ASSUME NEW i \in Inodes, Linked(i)' \/ Opened(i)' PROVE content'[i] = content[i]
  BY <1>2, <1>4
<1>5. ASSUME NEW i \in Inodes, NEW p \in Paths, i = part'[p] \/ i = dest'[p]
      PROVE  content'[i] = content[i]
  <2>1. Linked(i)'
    BY <1>5 DEF Linked
  <2>. QED BY <1>4, <2>1
<1>6. ASSUME NEW i \in Inodes, NEW d \in Downloads, stage'[d] = "stream", i = file'[d]
      PROVE  content'[i] = content[i]
  <2>1. Opened(i)'
    BY <1>6 DEF Opened
  <2>. QED BY <1>4, <2>1
<1>7. \A p \in Paths : /\ part'[p] # NoFile => part'[p] \in Inodes
                       /\ dest'[p] # NoFile => dest'[p] \in Inodes
  OBVIOUS
<1>. QED BY <1>3, <1>5, <1>6, <1>7 DEF ContentKept

(* A download closes its file, and no name changes. *)
LEMMA LeaveInv ==
  ASSUME MediaInv, NEW d \in Downloads, NEW to \in {"idle", "rename", "remove"},
         Close(d, to), UNCHANGED <<part, dest, raced>>, ContentKept,
         to # "idle" => stage[d] = "stream",
         to = "rename" => written[d] = Chunks
  PROVE  MediaInv'
<1>0. MediaTypeOK /\ OneName /\ OwnFile
  BY DEF MediaInv
<1>a. /\ stage \in [Downloads -> Stage] /\ path \in [Downloads -> Paths]
      /\ file \in [Downloads -> Inodes \cup {NoFile}] /\ written \in [Downloads -> 0..Chunks]
  BY <1>0 DEF MediaTypeOK
<1>b. /\ stage' = [stage EXCEPT ![d] = to] /\ file' = [file EXCEPT ![d] = NoFile]
      /\ written' = [written EXCEPT ![d] = 0]
      /\ path' = IF to = "idle" THEN [path EXCEPT ![d] = SomePath] ELSE path
  BY DEF Close
<1>c. \A e \in Downloads : e # d => stage'[e] = stage[e] /\ path'[e] = path[e] /\ file'[e] = file[e]
                                   /\ written'[e] = written[e]
  BY <1>a, <1>b
<1>d. stage'[d] = to /\ (to # "idle" => path'[d] = path[d])
  BY <1>a, <1>b
<1>1. MediaTypeOK'
  <2>1. stage' \in [Downloads -> Stage] /\ path' \in [Downloads -> Paths]
    BY <1>a, <1>b, SomePathType DEF Stage, Open
  <2>2. file' \in [Downloads -> Inodes \cup {NoFile}] /\ written' \in [Downloads -> 0..Chunks]
    BY <1>a, <1>b
  <2>. QED BY <1>0, <2>1, <2>2 DEF MediaTypeOK, ContentKept
<1>2. OneName'
  BY <1>0 DEF OneName
<1>3. OwnFile'
  BY <1>0, <1>c, <1>d DEF OwnFile
<1>i. Idling'
  BY <1>a, <1>b, <1>c DEF MediaInv, Idling
<1>4. ASSUME NEW p \in Paths, ~raced'[p] PROVE Alone(p)'
  <2>0. Alone(p)
    BY <1>4 DEF MediaInv
  <2>1. \A e \in Downloads : stage'[e] \in Open /\ path'[e] = p => stage[e] \in Open /\ path[e] = p
    BY <1>c, <1>d DEF Open
  <2>2. \A e, f \in Downloads :
          stage'[e] \in Open /\ stage'[f] \in Open /\ path'[e] = p /\ path'[f] = p => e = f
    BY <2>0, <2>1 DEF Alone
  <2>3. ASSUME NEW e \in Downloads, stage'[e] = "stream", path'[e] = p
        PROVE  part'[p] = file'[e] /\ content'[file'[e]] = 1..written'[e]
    BY <1>0, <1>c, <1>d, <2>0, <2>3 DEF Alone, ContentKept, OwnFile
  <2>4. ASSUME NEW e \in Downloads, stage'[e] = "rename", path'[e] = p
        PROVE  part'[p] # NoFile /\ content'[part'[p]] = Whole
    <3>1. CASE e = d
      <4>1. stage[d] = "stream" /\ path[d] = p /\ written[d] = Chunks
        BY <1>d, <2>4, <3>1
      <4>2. part[p] = file[d] /\ content[file[d]] = Whole /\ file[d] \in Inodes
        BY <1>0, <2>0, <4>1 DEF Alone, OwnFile, Whole
      <4>. QED BY <4>2 DEF ContentKept
    <3>2. CASE e # d
      BY <1>c, <2>0, <2>4, <3>2 DEF Alone, ContentKept
    <3>. QED BY <3>1, <3>2
  <2>5. dest'[p] # NoFile => content'[dest'[p]] = Whole
    BY <2>0 DEF Alone, ContentKept
  <2>. QED BY <2>2, <2>3, <2>4, <2>5 DEF Alone, Whole
<1>. QED BY <1>1, <1>2, <1>3, <1>i, <1>4 DEF MediaInv

(* What is open by others, and what is unraced, when d starts or ends. *)
LEMMA AskInv ==
  ASSUME MediaInv, NEW d \in Downloads, NEW p \in Paths, Ask(d, p) PROVE MediaInv'
<1>0. /\ stage \in [Downloads -> Stage] /\ path \in [Downloads -> Paths] /\ stage[d] = "idle"
      /\ stage' = [stage EXCEPT ![d] = "send"] /\ path' = [path EXCEPT ![d] = p]
      /\ UNCHANGED <<part, dest, content, file, written, raced>>
  BY DEF MediaInv, MediaTypeOK, Ask, dirVars
<1>1. /\ stage' \in [Downloads -> Stage] /\ path' \in [Downloads -> Paths]
      /\ \A e \in Downloads : stage'[e] \in Open => e # d /\ stage'[e] = stage[e] /\ path'[e] = path[e]
  BY <1>0 DEF Stage, Open
<1>2. MediaTypeOK' /\ OneName'
  BY <1>0, <1>1 DEF MediaInv, MediaTypeOK, OneName
<1>3. OwnFile' /\ Idling'
  BY <1>0, <1>1 DEF MediaInv, OwnFile, Idling, Open
<1>4. ASSUME NEW q \in Paths, ~raced'[q] PROVE Alone(q)'
  <2>1. Alone(q)
    BY <1>0, <1>4 DEF MediaInv
  <2>. QED BY <1>0, <1>1, <2>1 DEF Alone, Open, Whole
<1>. QED BY <1>2, <1>3, <1>4 DEF MediaInv

LEMMA CreateInv ==
  ASSUME MediaInv, NEW d \in Downloads, Create(d) PROVE MediaInv'
<1>0. MediaTypeOK /\ OneName /\ OwnFile
  BY DEF MediaInv
<1>p. PICK p \in Paths : p = path[d]
  BY <1>0 DEF MediaTypeOK
<1>i. PICK i : i = IF part[p] = NoFile THEN NewInode ELSE part[p]
  OBVIOUS
<1>a. /\ stage \in [Downloads -> Stage] /\ path \in [Downloads -> Paths]
      /\ part \in [Paths -> Inodes \cup {NoFile}] /\ dest \in [Paths -> Inodes \cup {NoFile}]
      /\ content \in [Inodes -> SUBSET Whole] /\ raced \in [Paths -> BOOLEAN]
      /\ file \in [Downloads -> Inodes \cup {NoFile}] /\ written \in [Downloads -> 0..Chunks]
  BY <1>0 DEF MediaTypeOK
<1>b. /\ stage' = [stage EXCEPT ![d] = "stream"] /\ file' = [file EXCEPT ![d] = i]
      /\ part' = [part EXCEPT ![p] = i] /\ content' = [content EXCEPT ![i] = {}]
      /\ raced' = [raced EXCEPT ![p] = @ \/ Busy(p)]
      /\ UNCHANGED <<dest, path, written>> /\ stage[d] = "send"
  BY <1>p, <1>i DEF Create
<1>c. /\ i \in Inodes
      /\ \A q \in Paths : i # dest[q] /\ (i = part[q] => q = p)
      /\ \A e \in Downloads : stage[e] = "stream" /\ file[e] = i => path[e] = p
  <2>1. CASE part[p] = NoFile
    <3>1. i \in Inodes /\ Free(i)
      BY <2>1, <1>p, <1>i, NewInodeIsFree DEF Create
    <3>. QED BY <2>1, <3>1, <1>a DEF Free, Linked, Opened
  <2>2. CASE part[p] # NoFile
    BY <2>2, <1>0, <1>a, <1>i DEF OneName, OwnFile
  <2>. QED BY <2>1, <2>2
<1>d. written[d] = 0
  BY DEF MediaInv, Idling, Create
<1>e. /\ \A e \in Downloads : e # d => stage'[e] = stage[e] /\ file'[e] = file[e]
      /\ stage'[d] = "stream" /\ file'[d] = i /\ part'[p] = i /\ content'[i] = {}
      /\ \A q \in Paths : q # p => part'[q] = part[q] /\ raced'[q] = raced[q]
      /\ \A j \in Inodes : j # i => content'[j] = content[j]
  BY <1>a, <1>b, <1>c
<1>1. MediaTypeOK'
  BY <1>0, <1>a, <1>b, <1>c DEF MediaTypeOK, Stage, Open
<1>2. OneName'
  BY <1>0, <1>a, <1>b, <1>c, <1>e DEF OneName
<1>3. OwnFile'
  BY <1>0, <1>a, <1>b, <1>c, <1>e, <1>p DEF OwnFile
<1>6. Idling'
  BY <1>a, <1>b, <1>e DEF MediaInv, Idling
<1>4. ASSUME NEW q \in Paths, ~raced'[q], q # p PROVE Alone(q)'
  <2>1. Alone(q)
    BY <1>4, <1>e DEF MediaInv
  <2>2. \A e \in Downloads : path[e] = q => e # d
    BY <1>4, <1>p
  <2>3. \A e \in Downloads : stage[e] = "stream" /\ path[e] = q => file[e] \in Inodes /\ file[e] # i
    BY <1>0, <1>4, <1>c DEF OwnFile
  <2>4. part[q] # i /\ dest[q] # i
    BY <1>4, <1>c
  <2>. QED BY <1>a, <1>b, <1>4, <1>e, <2>1, <2>2, <2>3, <2>4 DEF Alone, Whole, Open
<1>5. ASSUME ~raced'[p] PROVE Alone(p)'
  <2>1. ~raced[p] /\ ~Busy(p)
    BY <1>5, <1>a, <1>b
  <2>2. Alone(p) /\ \A e \in Downloads : stage[e] \in Open => path[e] # p
    BY <2>1, <1>a DEF MediaInv, Busy
  <2>3. \A e \in Downloads : stage'[e] \in Open /\ path'[e] = p => e = d
    BY <1>b, <1>e, <2>2
  <2>4. content'[file'[d]] = 1..written'[d]
    BY <1>b, <1>d, <1>e
  <2>5. dest'[p] # NoFile => content'[dest'[p]] = Whole
    BY <1>a, <1>b, <1>c, <1>e, <2>2 DEF Alone
  <2>6. part'[p] = file'[d] /\ stage'[d] # "rename"
    BY <1>e
  <2>. QED BY <2>3, <2>4, <2>5, <2>6 DEF Alone, Open, Whole
<1>. QED BY <1>1, <1>2, <1>3, <1>4, <1>5, <1>6 DEF MediaInv

LEMMA ChunkInv ==
  ASSUME MediaInv, NEW d \in Downloads, Chunk(d) PROVE MediaInv'
<1>0. MediaTypeOK /\ OneName /\ OwnFile /\ Idling
  BY DEF MediaInv
<1>i. PICK i \in Inodes : i = file[d]
  BY <1>0 DEF OwnFile, Chunk
<1>w. PICK w \in 0..Chunks : w = written[d]
  BY <1>0 DEF MediaTypeOK
<1>a. /\ content \in [Inodes -> SUBSET Whole] /\ written \in [Downloads -> 0..Chunks]
  BY <1>0 DEF MediaTypeOK
<1>b. /\ stage[d] = "stream" /\ w < Chunks
      /\ written' = [written EXCEPT ![d] = w + 1]
      /\ content' = [content EXCEPT ![i] = @ \cup {w + 1}]
      /\ UNCHANGED <<part, dest, stage, path, file, raced>>
  BY <1>i, <1>w DEF Chunk
<1>c. w + 1 \in Whole /\ w + 1 \in 0..Chunks
  BY <1>b DEF Whole
<1>d. /\ written'[d] = w + 1 /\ \A e \in Downloads : e # d => written'[e] = written[e]
      /\ content'[i] = content[i] \cup {w + 1}
      /\ \A j \in Inodes : j # i => content'[j] = content[j]
      /\ content' \in [Inodes -> SUBSET Whole] /\ written' \in [Downloads -> 0..Chunks]
  BY <1>a, <1>b, <1>c
<1>1. MediaTypeOK'
  BY <1>0, <1>b, <1>d DEF MediaTypeOK
<1>2. OneName' /\ OwnFile' /\ Idling'
  BY <1>0, <1>b, <1>d DEF OneName, OwnFile, Idling
<1>3. ASSUME NEW q \in Paths, ~raced'[q] PROVE Alone(q)'
  <2>0. Alone(q)
    BY <1>b, <1>3 DEF MediaInv
  <2>1. part[q] \in Inodes \cup {NoFile} /\ dest[q] \in Inodes \cup {NoFile}
    BY <1>0 DEF MediaTypeOK
  <2>2. CASE q # path[d]
    <3>1. i # part[q] /\ i # dest[q]
      BY <1>0, <1>b, <1>i, <2>2 DEF OwnFile
    <3>2. \A e \in Downloads : stage[e] = "stream" /\ path[e] = q
            => e # d /\ file[e] \in Inodes /\ file[e] # i
      BY <1>0, <1>b, <1>i, <2>2 DEF OwnFile
    <3>. QED BY <1>b, <1>d, <2>0, <2>1, <3>1, <3>2 DEF Alone, Whole
  <2>3. CASE q = path[d]
    <3>1. \A e \in Downloads : stage[e] \in Open /\ path[e] = q => e = d
      BY <1>b, <2>0, <2>3 DEF Alone, Open
    <3>2. part[q] = i /\ content[i] = 1..w
      BY <1>b, <1>i, <1>w, <2>0, <2>3 DEF Alone
    <3>3. content'[i] = 1..(w + 1)
      BY <1>d, <3>2
    <3>4. dest[q] # i
      BY <1>0, <3>2 DEF OneName
    <3>5. dest'[q] # NoFile => content'[dest'[q]] = Whole
      BY <1>b, <1>d, <2>0, <2>1, <3>4 DEF Alone
    <3>. QED BY <1>b, <1>d, <1>i, <3>1, <3>2, <3>3, <3>5 DEF Alone, Open, Whole
  <2>. QED BY <2>2, <2>3
<1>. QED BY <1>1, <1>2, <1>3 DEF MediaInv

(* A step that takes names away, or moves a partial file to its final name.*)
LEMMA NamesType ==
  ASSUME MediaTypeOK, NEW p \in Paths
  PROVE  /\ [part EXCEPT ![p] = NoFile] \in [Paths -> Inodes \cup {NoFile}]
         /\ [dest EXCEPT ![p] = NoFile] \in [Paths -> Inodes \cup {NoFile}]
         /\ [dest EXCEPT ![p] = part[p]] \in [Paths -> Inodes \cup {NoFile}]
BY DEF MediaTypeOK

LEMMA RenameInv ==
  ASSUME MediaInv, NEW d \in Downloads, Rename(d) PROVE MediaInv'
<1>0. MediaTypeOK /\ OneName /\ OwnFile /\ Idling
  BY DEF MediaInv
<1>p. PICK p \in Paths : p = path[d]
  BY <1>0 DEF MediaTypeOK
<1>1. CASE part[p] = NoFile
  <2>1. UNCHANGED <<part, dest, raced>> /\ Close(d, "idle") /\ Reclaim
    BY <1>1, <1>p DEF Rename
  <2>2. ContentKept
    BY <1>0, <2>1, ReclaimKeeps DEF MediaTypeOK
  <2>. QED BY <2>1, <2>2, LeaveInv
<1>2. CASE part[p] # NoFile
  <2>1. /\ dest' = [dest EXCEPT ![p] = part[p]] /\ part' = [part EXCEPT ![p] = NoFile]
        /\ Close(d, "idle") /\ Reclaim /\ UNCHANGED raced /\ stage[d] = "rename"
    BY <1>2, <1>p DEF Rename
  <2>2. /\ part' \in [Paths -> Inodes \cup {NoFile}] /\ dest' \in [Paths -> Inodes \cup {NoFile}]
        /\ ContentKept
    BY <1>0, <2>1, ReclaimKeeps, NamesType
  <2>a. /\ stage \in [Downloads -> Stage] /\ path \in [Downloads -> Paths]
        /\ part \in [Paths -> Inodes \cup {NoFile}] /\ dest \in [Paths -> Inodes \cup {NoFile}]
        /\ file \in [Downloads -> Inodes \cup {NoFile}] /\ written \in [Downloads -> 0..Chunks]
    BY <1>0 DEF MediaTypeOK
  <2>3. /\ part'[p] = NoFile /\ dest'[p] = part[p]
        /\ \A q \in Paths : q # p => part'[q] = part[q] /\ dest'[q] = dest[q]
    BY <2>1, <2>a
  <2>4. /\ stage' \in [Downloads -> Stage] /\ path' \in [Downloads -> Paths]
        /\ file' \in [Downloads -> Inodes \cup {NoFile}] /\ written' \in [Downloads -> 0..Chunks]
        /\ stage'[d] = "idle" /\ written'[d] = 0
        /\ \A e \in Downloads : e # d => stage'[e] = stage[e] /\ path'[e] = path[e] /\ file'[e] = file[e]
                                        /\ written'[e] = written[e]
    BY <2>1, <2>a, SomePathType DEF Close, Stage
  <2>5. MediaTypeOK'
    BY <1>0, <2>1, <2>2, <2>4 DEF MediaTypeOK, ContentKept
  <2>6. OneName'
    BY <1>0, <1>2, <2>3 DEF OneName
  <2>7. OwnFile' /\ Idling'
    BY <1>0, <2>3, <2>4 DEF OwnFile, Idling
  <2>8. ASSUME NEW q \in Paths, ~raced'[q] PROVE Alone(q)'
    <3>0. Alone(q)
      BY <2>1, <2>8 DEF MediaInv
    <3>1. CASE q # p
      <4>1. part'[q] = part[q] /\ dest'[q] = dest[q]
        BY <2>3, <3>1
      <4>2. \A e \in Downloads : stage'[e] \in Open
              => e # d /\ stage'[e] = stage[e] /\ path'[e] = path[e] /\ file'[e] = file[e]
                 /\ written'[e] = written[e]
        BY <2>4 DEF Open
      <4>3. ASSUME NEW e \in Downloads, stage'[e] = "stream", path'[e] = q
            PROVE  part'[q] = file'[e] /\ content'[file'[e]] = 1..written'[e]
        BY <1>0, <2>2, <3>0, <4>1, <4>2, <4>3 DEF Alone, Open, ContentKept, OwnFile
      <4>4. ASSUME NEW e \in Downloads, stage'[e] = "rename", path'[e] = q
            PROVE  part'[q] # NoFile /\ content'[part'[q]] = Whole
        BY <2>2, <3>0, <4>1, <4>2, <4>4 DEF Alone, Open, ContentKept
      <4>5. dest'[q] # NoFile => content'[dest'[q]] = Whole
        BY <2>2, <3>0, <4>1 DEF Alone, ContentKept
      <4>6. \A e, f \in Downloads :
              stage'[e] \in Open /\ stage'[f] \in Open /\ path'[e] = q /\ path'[f] = q => e = f
        BY <3>0, <4>2 DEF Alone
      <4>. QED BY <4>3, <4>4, <4>5, <4>6 DEF Alone, Open, Whole
    <3>2. CASE q = p
      <4>1. \A e \in Downloads : ~(stage'[e] \in Open /\ path'[e] = q)
        BY <1>p, <2>1, <2>4, <3>0, <3>2 DEF Alone, Open
      <4>2. content[part[p]] = Whole
        BY <1>p, <2>1, <3>0, <3>2 DEF Alone
      <4>3. content'[dest'[q]] = Whole
        BY <1>2, <2>2, <2>3, <3>2, <4>2 DEF ContentKept
      <4>. QED BY <4>1, <4>3 DEF Alone, Open, Whole
    <3>. QED BY <3>1, <3>2
  <2>. QED BY <2>5, <2>6, <2>7, <2>8 DEF MediaInv
<1>. QED BY <1>1, <1>2

LEMMA RemovePartInv ==
  ASSUME MediaInv, NEW d \in Downloads, RemovePart(d) PROVE MediaInv'
<1>0. MediaTypeOK /\ OneName /\ OwnFile /\ Idling
  BY DEF MediaInv
<1>p. PICK p \in Paths : p = path[d]
  BY <1>0 DEF MediaTypeOK
<1>1. /\ part' = [part EXCEPT ![p] = NoFile] /\ UNCHANGED <<dest, raced>>
      /\ Close(d, "idle") /\ Reclaim /\ stage[d] = "remove"
  BY <1>p DEF RemovePart
<1>a. /\ stage \in [Downloads -> Stage] /\ path \in [Downloads -> Paths]
      /\ part \in [Paths -> Inodes \cup {NoFile}] /\ dest \in [Paths -> Inodes \cup {NoFile}]
      /\ file \in [Downloads -> Inodes \cup {NoFile}] /\ written \in [Downloads -> 0..Chunks]
  BY <1>0 DEF MediaTypeOK
<1>2. /\ part' \in [Paths -> Inodes \cup {NoFile}] /\ dest' \in [Paths -> Inodes \cup {NoFile}]
      /\ ContentKept
  BY <1>0, <1>1, <1>a, ReclaimKeeps, NamesType
<1>3. part'[p] = NoFile /\ \A q \in Paths : q # p => part'[q] = part[q]
  BY <1>1, <1>a
<1>4. /\ stage' \in [Downloads -> Stage] /\ path' \in [Downloads -> Paths]
      /\ file' \in [Downloads -> Inodes \cup {NoFile}] /\ written' \in [Downloads -> 0..Chunks]
      /\ stage'[d] = "idle" /\ written'[d] = 0
      /\ \A e \in Downloads : e # d => stage'[e] = stage[e] /\ path'[e] = path[e] /\ file'[e] = file[e]
                                      /\ written'[e] = written[e]
  BY <1>1, <1>a, SomePathType DEF Close, Stage
<1>5. MediaTypeOK'
  BY <1>0, <1>1, <1>2, <1>4 DEF MediaTypeOK, ContentKept
<1>6. OneName'
  BY <1>0, <1>1, <1>3 DEF OneName
<1>7. OwnFile' /\ Idling'
  BY <1>0, <1>1, <1>3, <1>4 DEF OwnFile, Idling
<1>8. ASSUME NEW q \in Paths, ~raced'[q] PROVE Alone(q)'
  <2>0. Alone(q)
    BY <1>1, <1>8 DEF MediaInv
  <2>1. \A e \in Downloads : stage'[e] \in Open
          => e # d /\ stage'[e] = stage[e] /\ path'[e] = path[e] /\ file'[e] = file[e]
             /\ written'[e] = written[e]
    BY <1>4 DEF Open
  <2>2. dest'[q] # NoFile => content'[dest'[q]] = Whole
    BY <1>1, <1>2, <2>0 DEF Alone, ContentKept
  <2>3. CASE q = p
    <3>1. \A e \in Downloads : ~(stage'[e] \in Open /\ path'[e] = q)
      BY <1>p, <1>1, <2>0, <2>1, <2>3 DEF Alone, Open
    <3>. QED BY <2>2, <3>1 DEF Alone, Open, Whole
  <2>4. CASE q # p
    <3>1. part'[q] = part[q]
      BY <1>3, <2>4
    <3>3. ASSUME NEW e \in Downloads, stage'[e] = "stream", path'[e] = q
          PROVE  part'[q] = file'[e] /\ content'[file'[e]] = 1..written'[e]
      BY <1>0, <1>2, <2>0, <2>1, <3>1, <3>3 DEF Alone, Open, ContentKept, OwnFile
    <3>4. ASSUME NEW e \in Downloads, stage'[e] = "rename", path'[e] = q
          PROVE  part'[q] # NoFile /\ content'[part'[q]] = Whole
      BY <1>2, <2>0, <2>1, <3>1, <3>4 DEF Alone, Open, ContentKept
    <3>5. \A e, f \in Downloads :
            stage'[e] \in Open /\ stage'[f] \in Open /\ path'[e] = q /\ path'[f] = q => e = f
      BY <2>0, <2>1 DEF Alone
    <3>. QED BY <2>2, <3>3, <3>4, <3>5 DEF Alone, Open, Whole
  <2>. QED BY <2>3, <2>4
<1>. QED BY <1>5, <1>6, <1>7, <1>8 DEF MediaInv

LEMMA CleanUpInv == ASSUME MediaInv, CleanUp PROVE MediaInv'
<1>0. MediaTypeOK /\ OneName /\ OwnFile /\ Idling
  BY DEF MediaInv
<1>1. PICK p \in Paths :
        /\ ~Busy(p)
        /\ \/ part' = [part EXCEPT ![p] = NoFile] /\ UNCHANGED dest
           \/ dest' = [dest EXCEPT ![p] = NoFile] /\ UNCHANGED part
  BY DEF CleanUp
<1>2. Reclaim /\ UNCHANGED <<stage, path, file, written, raced>>
  BY DEF CleanUp, callVars
<1>a. part \in [Paths -> Inodes \cup {NoFile}] /\ dest \in [Paths -> Inodes \cup {NoFile}]
  BY <1>0 DEF MediaTypeOK
<1>3. /\ part' \in [Paths -> Inodes \cup {NoFile}] /\ dest' \in [Paths -> Inodes \cup {NoFile}]
      /\ ContentKept
  BY <1>0, <1>1, <1>2, <1>a, ReclaimKeeps, NamesType
<1>4. \A q \in Paths : /\ part'[q] \in {part[q], NoFile} /\ dest'[q] \in {dest[q], NoFile}
                       /\ q # p => part'[q] = part[q]
  BY <1>1, <1>a
<1>5. MediaTypeOK'
  BY <1>0, <1>2, <1>3 DEF MediaTypeOK, ContentKept
<1>6. OneName'
  BY <1>0, <1>4 DEF OneName
<1>7. OwnFile' /\ Idling'
  BY <1>0, <1>2, <1>4 DEF OwnFile, Idling
<1>8. ASSUME NEW q \in Paths, ~raced'[q] PROVE Alone(q)'
  <2>0. Alone(q)
    BY <1>2, <1>8 DEF MediaInv
  <2>1. \A e \in Downloads : stage[e] \in Open /\ path[e] = q => part'[q] = part[q]
    BY <1>1, <1>4 DEF Busy
  <2>2. dest'[q] # NoFile => content'[dest'[q]] = Whole
    BY <1>3, <1>4, <2>0 DEF Alone, ContentKept
  <2>3. ASSUME NEW e \in Downloads, stage'[e] = "stream", path'[e] = q
        PROVE  part'[q] = file'[e] /\ content'[file'[e]] = 1..written'[e]
    BY <1>0, <1>2, <1>3, <2>0, <2>1, <2>3 DEF Alone, Open, ContentKept, OwnFile
  <2>4. ASSUME NEW e \in Downloads, stage'[e] = "rename", path'[e] = q
        PROVE  part'[q] # NoFile /\ content'[part'[q]] = Whole
    BY <1>2, <1>3, <2>0, <2>1, <2>4 DEF Alone, Open, ContentKept
  <2>. QED BY <1>2, <2>0, <2>2, <2>3, <2>4 DEF Alone, Open, Whole
<1>. QED BY <1>5, <1>6, <1>7, <1>8 DEF MediaInv

LEMMA MediaStep == MediaInv /\ [MediaNext]_mediaVars => MediaInv'
<1>. SUFFICES ASSUME MediaInv, [MediaNext]_mediaVars PROVE MediaInv'
  OBVIOUS
<1>0. MediaTypeOK
  BY DEF MediaInv
<1>a. ASSUME UNCHANGED <<part, dest>>, Reclaim PROVE ContentKept
  BY <1>0, <1>a, ReclaimKeeps DEF MediaTypeOK
<1>1. ASSUME NEW d \in Downloads, Refused(d) PROVE MediaInv'
  <2>1. ContentKept
    BY <1>0, <1>1 DEF Refused, ContentKept, dirVars, MediaTypeOK
  <2>. QED BY <1>1, <2>1, LeaveInv DEF Refused, dirVars
<1>2. ASSUME NEW d \in Downloads, Finish(d) PROVE MediaInv'
  BY <1>2, <1>a, LeaveInv DEF Finish
<1>3. ASSUME NEW d \in Downloads, Fail(d) PROVE MediaInv'
  BY <1>3, <1>a, LeaveInv DEF Fail
<1>4. ASSUME NEW d \in Downloads, Dropped(d) PROVE MediaInv'
  BY <1>4, <1>a, LeaveInv DEF Dropped
<1>5. CASE UNCHANGED mediaVars
  BY <1>5 DEF mediaVars, dirVars, callVars, MediaInv, MediaTypeOK, OneName, OwnFile, Idling,
              Alone, Open, Whole
<1>. QED BY <1>1, <1>2, <1>3, <1>4, <1>5, AskInv, CreateInv, ChunkInv, RenameInv, RemovePartInv,
         CleanUpInv DEF MediaNext, Stream

LEMMA MediaAlways == MediaSpec => []MediaInv
BY MediaStart, MediaStep, PTL DEF MediaSpec

-----------------------------------------------------------------------------
(* Types of the directory and of the downloads. *)
THEOREM MediaTyping == MediaSpec => []MediaTypeOK
<1>1. MediaInv => MediaTypeOK
  BY DEF MediaInv
<1>. QED BY <1>1, MediaAlways, PTL

(* A file under its final name is whole, whatever failed, was dropped or   *)
(* left a partial file before, unless two downloads of it have overlapped. *)
THEOREM WholeWithoutRaces == MediaSpec => []WholeUnlessRaced
<1>1. MediaInv => WholeUnlessRaced
  BY DEF MediaInv, Alone, WholeUnlessRaced
<1>. QED BY <1>1, MediaAlways, PTL

(* Even when downloads overlap, no file ever appears under two names: what *)
(* one URL's download writes is never shown for another URL.               *)
THEOREM NamesNeverShared == MediaSpec => [](OneName /\ OwnFile)
<1>1. MediaInv => OneName /\ OwnFile
  BY DEF MediaInv
<1>. QED BY <1>1, MediaAlways, PTL

-----------------------------------------------------------------------------
(* The quota.  What the directory may still grow to without another check: *)
(* a file that is being written counts as a whole body, and a call that    *)
(* has been admitted and has no file yet counts as a body too.             *)
Filled ==
  {c \in Inodes \X Whole : /\ Linked(c[1])
                           /\ Opened(c[1]) \/ \E n \in content[c[1]] : c[2] <= n}
Senders == {d \in Downloads : stage[d] = "send"}
Writers == {d \in Downloads : stage[d] = "stream"}
OpenFiles == {i \in Inodes : Linked(i) /\ Opened(i)}

QuotaInv ==
  /\ IsFiniteSet(Filled)
  /\ Cardinality(Filled) + Cardinality(Senders \X Whole)
       <= Cap + (Cardinality(Downloads) - 1) * Chunks

LEMMA WholeSize == IsFiniteSet(Whole) /\ Cardinality(Whole) = Chunks /\ Chunks \in Nat
<1>1. Chunks \in Nat /\ 1 \in Int /\ Chunks \in Int /\ ~(1 > Chunks)
  OBVIOUS
<1>2. IsFiniteSet(1..Chunks) /\ Cardinality(1..Chunks) = Chunks - 1 + 1
  BY <1>1, FS_Interval
<1>. QED BY <1>1, <1>2 DEF Whole

(* A body for each of a set of things: room for a body each.               *)
LEMMA Bodies ==
  ASSUME NEW S, IsFiniteSet(S)
  PROVE  /\ IsFiniteSet(S \X Whole) /\ Cardinality(S) \in Nat
         /\ Cardinality(S \X Whole) = Cardinality(S) * Chunks
         /\ Cardinality(S \X Whole) \in Nat
<1>1. IsFiniteSet(S \X Whole) /\ Cardinality(S \X Whole) = Cardinality(S) * Cardinality(Whole)
  BY WholeSize, FS_Product
<1>. QED BY <1>1, WholeSize, FS_CardinalityType

LEMMA Distribute ==
  ASSUME NEW a \in Nat, NEW b \in Nat, NEW c \in Nat, a + b <= c
  PROVE  a * Chunks + b * Chunks <= c * Chunks
<1>1. (c - a - b) \in Nat /\ Chunks \in Nat
  OBVIOUS
<1>2. (c - a - b) * Chunks \in Nat
  BY <1>1
<1>3. c * Chunks = a * Chunks + b * Chunks + (c - a - b) * Chunks
  BY <1>1
<1>4. a * Chunks \in Nat /\ b * Chunks \in Nat /\ c * Chunks \in Nat
  BY <1>1
<1>. QED BY ONLY <1>2, <1>3, <1>4

LEMMA CallsAreFinite ==
  /\ IsFiniteSet(Senders) /\ IsFiniteSet(Writers)
  /\ Cardinality(Downloads) \in Nat /\ Cardinality(Downloads) >= 1
<1>1. Senders \subseteq Downloads /\ Writers \subseteq Downloads /\ IsFiniteSet(Downloads)
  BY DEF Senders, Writers
<1>2. IsFiniteSet(Senders) /\ IsFiniteSet(Writers)
  BY <1>1, FS_Subset
<1>3. Cardinality(Downloads) \in Nat /\ Cardinality(Downloads) # 0
  BY <1>1, FS_CardinalityType, FS_EmptySet
<1>. QED BY <1>2, <1>3

(* Each file that is open has a writer of its own.                         *)
LEMMA WriterOfEach ==
  IsFiniteSet(OpenFiles) /\ Cardinality(OpenFiles) <= Cardinality(Writers)
<1>. DEFINE writer == [i \in OpenFiles |-> CHOOSE d \in Downloads : stage[d] = "stream" /\ file[d] = i]
<1>1. ASSUME NEW i \in OpenFiles
      PROVE  writer[i] \in Writers /\ file[writer[i]] = i
  <2>1. \E d \in Downloads : stage[d] = "stream" /\ file[d] = i
    BY DEF OpenFiles, Opened
  <2>. QED BY <2>1 DEF Writers
<1>2. writer \in [OpenFiles -> Writers]
  BY <1>1
<1>3. \A i, j \in OpenFiles : writer[i] = writer[j] => i = j
  BY <1>1
<1>. HIDE DEF writer
<1>4. writer \in Injection(OpenFiles, Writers)
  BY <1>2, <1>3 DEF Injection, IsInjective
<1>. QED BY <1>4, CallsAreFinite, FS_Injection

(* Whoever is not about to ask is a sender or a writer, not both.          *)
LEMMA OthersAtWork ==
  ASSUME NEW d \in Downloads, stage[d] = "idle"
  PROVE  /\ Cardinality(Senders) \in Nat /\ Cardinality(Writers) \in Nat
         /\ Cardinality(Senders) + Cardinality(Writers) <= Cardinality(Downloads) - 1
<1>. DEFINE others == Downloads \ {d}
<1>1. IsFiniteSet(others) /\ Cardinality(others) = Cardinality(Downloads) - 1
  BY MediaAssumption, FS_RemoveElement
<1>2. Senders \cup Writers \subseteq others /\ Senders \cap Writers = {}
  BY DEF Senders, Writers
<1>3. /\ IsFiniteSet(Senders \cup Writers)
      /\ Cardinality(Senders \cup Writers)
           = Cardinality(Senders) + Cardinality(Writers) - Cardinality(Senders \cap Writers)
  BY CallsAreFinite, FS_Union
<1>4. Cardinality(Senders \cup Writers) <= Cardinality(others)
  BY <1>1, <1>2, FS_Subset
<1>5. Cardinality(Senders \cap Writers) = 0
  BY <1>2, FS_EmptySet
<1>6. Cardinality(Senders) \in Nat /\ Cardinality(Writers) \in Nat
  BY CallsAreFinite, FS_CardinalityType
<1>. QED BY ONLY <1>1, <1>3, <1>4, <1>5, <1>6, CallsAreFinite

(* The call that is admitted: the directory may grow by its body, and by   *)
(* one for each of the others.                                             *)
LEMMA AskQuota ==
  ASSUME QuotaInv, NEW d \in Downloads, NEW p \in Paths, Ask(d, p), MediaTypeOK
  PROVE  QuotaInv'
<1>1. /\ stage[d] = "idle" /\ DirSize + Chunks <= Cap
      /\ stage' = [stage EXCEPT ![d] = "send"] /\ stage \in [Downloads -> Stage]
      /\ UNCHANGED <<part, dest, content, file>>
  BY DEF Ask, MediaTypeOK, dirVars
<1>2. \A i : Linked(i)' = Linked(i) /\ Opened(i)' = Opened(i)
  <2>1. \A e \in Downloads : stage'[e] = "stream" <=> stage[e] = "stream"
    BY <1>1
  <2>. QED BY <1>1, <2>1 DEF Linked, Opened
<1>3. Filled' = Filled
  BY <1>1, <1>2 DEF Filled
<1>4. Senders' = Senders \cup {d} /\ d \notin Senders
  BY <1>1 DEF Senders
<1>5. Cardinality(Senders') = Cardinality(Senders) + 1 /\ IsFiniteSet(Senders')
  BY <1>4, CallsAreFinite, FS_AddElement
<1>6. Filled \subseteq Stored \cup (OpenFiles \X Whole)
  BY DEF Filled, Stored, OpenFiles
<1>7. Stored \subseteq Filled
  BY DEF Filled, Stored
<1>8. IsFiniteSet(Filled) /\ IsFiniteSet(Stored)
  BY <1>7, FS_Subset DEF QuotaInv
<1>9. /\ IsFiniteSet(OpenFiles) /\ Cardinality(OpenFiles) \in Nat
      /\ Cardinality(OpenFiles) <= Cardinality(Writers)
  BY WriterOfEach, FS_CardinalityType
<1>10. Cardinality(Filled) <= Cardinality(Stored) + Cardinality(OpenFiles \X Whole)
  <2>1. IsFiniteSet(OpenFiles \X Whole)
    BY <1>9, Bodies
  <2>. DEFINE both == Stored \cup (OpenFiles \X Whole)
              meet == Stored \cap (OpenFiles \X Whole)
  <2>2. IsFiniteSet(both) /\ Cardinality(both)
          = Cardinality(Stored) + Cardinality(OpenFiles \X Whole) - Cardinality(meet)
    BY <1>8, <2>1, FS_Union
  <2>3. meet \subseteq Stored
    OBVIOUS
  <2>. HIDE DEF both, meet
  <2>4. Cardinality(meet) \in Nat
    BY <1>8, <2>3, FS_Subset, FS_CardinalityType
  <2>5. Cardinality(Filled) <= Cardinality(both)
    BY <1>6, <2>2, FS_Subset DEF both
  <2>6. /\ Cardinality(Stored) \in Nat /\ Cardinality(OpenFiles \X Whole) \in Nat
        /\ Cardinality(Filled) \in Nat
    BY <1>8, <2>1, FS_CardinalityType
  <2>. QED BY ONLY <2>2, <2>4, <2>5, <2>6
<1>11. /\ Cardinality(Senders') \in Nat
       /\ Cardinality(OpenFiles) + Cardinality(Senders') <= Cardinality(Downloads)
  BY <1>1, <1>5, <1>9, OthersAtWork, CallsAreFinite
<1>12. Cardinality(OpenFiles) + Cardinality(Senders) <= Cardinality(Downloads) - 1
  BY <1>1, <1>9, OthersAtWork, CallsAreFinite
<1>13. Cardinality(OpenFiles) * Chunks + Cardinality(Senders) * Chunks
         <= (Cardinality(Downloads) - 1) * Chunks
  <2>1. Cardinality(Senders) \in Nat /\ (Cardinality(Downloads) - 1) \in Nat
    BY CallsAreFinite, FS_CardinalityType
  <2>. QED BY <1>9, <1>12, <2>1, Distribute
<1>14. Cardinality(Senders' \X Whole) = Cardinality(Senders \X Whole) + Chunks
  <2>1. Cardinality(Senders' \X Whole) = Cardinality(Senders') * Chunks
    BY <1>5, Bodies
  <2>2. /\ Cardinality(Senders \X Whole) = Cardinality(Senders) * Chunks
        /\ Cardinality(Senders) \in Nat
    BY CallsAreFinite, Bodies
  <2>3. (Cardinality(Senders) + 1) * Chunks = Cardinality(Senders) * Chunks + Chunks
    BY <2>2
  <2>. QED BY <1>5, <2>1, <2>2, <2>3
<1>15. /\ Cardinality(OpenFiles \X Whole) = Cardinality(OpenFiles) * Chunks
       /\ Cardinality(OpenFiles \X Whole) \in Nat
       /\ Cardinality(Senders \X Whole) = Cardinality(Senders) * Chunks
       /\ Cardinality(Senders \X Whole) \in Nat
  BY <1>9, CallsAreFinite, Bodies
<1>16. /\ Cardinality(Filled) \in Nat /\ Cardinality(Stored) \in Nat
       /\ Cardinality(Stored) + Chunks <= Cap
  BY <1>1, <1>8, FS_CardinalityType DEF DirSize
<1>17. (Cardinality(Downloads) - 1) * Chunks \in Nat
  <2>1. (Cardinality(Downloads) - 1) \in Nat
    BY CallsAreFinite
  <2>. QED BY <2>1
<1>. DEFINE room == (Cardinality(Downloads) - 1) * Chunks
<1>18. Cardinality(Filled) + Cardinality(Senders' \X Whole) <= Cap + room
  <2>. HIDE DEF room
  <2>1. Cardinality(OpenFiles \X Whole) + Cardinality(Senders \X Whole) <= room /\ room \in Nat
    BY <1>13, <1>15, <1>17 DEF room
  <2>2. Cap \in Nat /\ Chunks \in Nat
    OBVIOUS
  <2>. QED BY ONLY <1>10, <1>14, <1>15, <1>16, <2>1, <2>2
<1>. QED BY <1>3, <1>8, <1>18 DEF QuotaInv

(* The file of a sender takes over its reservation.                        *)
LEMMA CreateQuota ==
  ASSUME QuotaInv, NEW d \in Downloads, Create(d), MediaTypeOK
  PROVE  QuotaInv'
<1>1. PICK i : i = IF part[path[d]] = NoFile THEN NewInode ELSE part[path[d]]
  OBVIOUS
<1>2. /\ part' = [part EXCEPT ![path[d]] = i] /\ content' = [content EXCEPT ![i] = {}]
      /\ file' = [file EXCEPT ![d] = i] /\ stage' = [stage EXCEPT ![d] = "stream"]
      /\ dest' = dest /\ stage[d] = "send"
  BY <1>1 DEF Create
<1>3. /\ stage \in [Downloads -> Stage] /\ path[d] \in Paths
      /\ part \in [Paths -> Inodes \cup {NoFile}] /\ content \in [Inodes -> SUBSET Whole]
      /\ file \in [Downloads -> Inodes \cup {NoFile}]
  BY DEF MediaTypeOK
<1>4. i \in Inodes
  BY <1>1, <1>3, NewInodeIsFree DEF Create
<1>5. Senders' = Senders \ {d} /\ d \in Senders
  BY <1>2, <1>3 DEF Senders
<1>6. Filled' \subseteq Filled \cup ({i} \X Whole)
  <2>1. SUFFICES ASSUME NEW c \in Filled', c[1] # i PROVE c \in Filled
    BY DEF Filled
  <2>2. c \in Inodes \X Whole /\ c[1] \in Inodes
    BY DEF Filled
  <2>3. content'[c[1]] = content[c[1]]
    BY <1>2, <1>3, <2>1, <2>2
  <2>4. Linked(c[1])
    <3>1. Linked(c[1])'
      BY DEF Filled
    <3>. QED BY <1>2, <1>3, <2>1, <3>1 DEF Linked
  <2>5. Opened(c[1])' => Opened(c[1])
    BY <1>2, <1>3, <2>1 DEF Opened
  <2>6. Opened(c[1])' \/ \E n \in content'[c[1]] : c[2] <= n
    BY DEF Filled
  <2>. QED BY <2>2, <2>3, <2>4, <2>5, <2>6 DEF Filled
<1>7. IsFiniteSet(Filled') /\ Cardinality(Filled') <= Cardinality(Filled) + Chunks
  <2>. DEFINE body == {i} \X Whole
              meet == Filled \cap body
  <2>1. IsFiniteSet({i}) /\ Cardinality({i}) = 1
    BY FS_Singleton
  <2>2. IsFiniteSet(body) /\ Cardinality(body) = 1 * Chunks
    BY <2>1, Bodies
  <2>3. IsFiniteSet(Filled)
    BY DEF QuotaInv
  <2>4. meet \subseteq Filled
    OBVIOUS
  <2>. HIDE DEF body
  <2>5. IsFiniteSet(Filled \cup body)
        /\ Cardinality(Filled \cup body) = Cardinality(Filled) + Cardinality(body) - Cardinality(meet)
    BY <2>2, <2>3, FS_Union
  <2>. HIDE DEF meet
  <2>6. Cardinality(meet) \in Nat /\ Cardinality(Filled) \in Nat
    BY <2>3, <2>4, FS_Subset, FS_CardinalityType
  <2>7. IsFiniteSet(Filled') /\ Cardinality(Filled') <= Cardinality(Filled \cup body)
    BY <1>6, <2>5, FS_Subset DEF body
  <2>8. Chunks \in Nat /\ Cardinality(Filled') \in Nat
    BY <2>7, FS_CardinalityType
  <2>. QED BY ONLY <2>2, <2>5, <2>6, <2>7, <2>8
<1>8. Cardinality(Senders' \X Whole) + Chunks = Cardinality(Senders \X Whole)
  <2>1. IsFiniteSet(Senders') /\ Cardinality(Senders') + 1 = Cardinality(Senders)
    <3>1. IsFiniteSet(Senders \ {d}) /\ Cardinality(Senders \ {d}) = Cardinality(Senders) - 1
      BY <1>5, CallsAreFinite, FS_RemoveElement
    <3>2. Cardinality(Senders) \in Nat
      BY CallsAreFinite, FS_CardinalityType
    <3>. QED BY ONLY <1>5, <3>1, <3>2
  <2>2. /\ Cardinality(Senders' \X Whole) = Cardinality(Senders') * Chunks
        /\ Cardinality(Senders') \in Nat
    BY <2>1, Bodies
  <2>3. Cardinality(Senders \X Whole) = Cardinality(Senders) * Chunks
    BY CallsAreFinite, Bodies
  <2>4. (Cardinality(Senders') + 1) * Chunks = Cardinality(Senders') * Chunks + Chunks
    BY <2>2
  <2>. QED BY <2>1, <2>2, <2>3, <2>4
<1>9. Cardinality(Filled') \in Nat /\ Cardinality(Filled) \in Nat
  BY <1>7, FS_CardinalityType DEF QuotaInv
<1>10. Cardinality(Senders' \X Whole) \in Nat /\ Chunks \in Nat
  <2>1. IsFiniteSet(Senders')
    BY <1>5, CallsAreFinite, FS_Subset
  <2>. QED BY <2>1, Bodies
<1>. DEFINE room == (Cardinality(Downloads) - 1) * Chunks
<1>11. Cardinality(Filled) + Cardinality(Senders \X Whole) <= Cap + room /\ room \in Int
  <2>1. (Cardinality(Downloads) - 1) \in Int
    BY CallsAreFinite
  <2>. QED BY <2>1 DEF QuotaInv
<1>. HIDE DEF room
<1>12. Cap \in Nat
  OBVIOUS
<1>13. Cardinality(Filled') + Cardinality(Senders' \X Whole) <= Cap + room
  BY ONLY <1>7, <1>8, <1>9, <1>10, <1>11, <1>12
<1>. QED BY <1>7, <1>13 DEF QuotaInv, room

(* No other step makes room for more than it uses up.                      *)
LEMMA LessQuota ==
  ASSUME QuotaInv, Senders' \subseteq Senders, Filled' \subseteq Filled
  PROVE  QuotaInv'
<1>1. IsFiniteSet(Filled') /\ Cardinality(Filled') <= Cardinality(Filled)
  BY FS_Subset DEF QuotaInv
<1>2. IsFiniteSet(Senders \X Whole) /\ Senders' \X Whole \subseteq Senders \X Whole
  BY CallsAreFinite, Bodies
<1>3. IsFiniteSet(Senders' \X Whole) /\ Cardinality(Senders' \X Whole) <= Cardinality(Senders \X Whole)
  BY <1>2, FS_Subset
<1>4. /\ Cardinality(Filled) \in Nat /\ Cardinality(Filled') \in Nat
      /\ Cardinality(Senders \X Whole) \in Nat /\ Cardinality(Senders' \X Whole) \in Nat
  BY <1>1, <1>2, <1>3, FS_CardinalityType DEF QuotaInv
<1>. DEFINE room == (Cardinality(Downloads) - 1) * Chunks
<1>5. Cardinality(Filled) + Cardinality(Senders \X Whole) <= Cap + room /\ room \in Int
  <2>1. (Cardinality(Downloads) - 1) \in Int
    BY CallsAreFinite
  <2>. QED BY <2>1 DEF QuotaInv
<1>. HIDE DEF room
<1>6. Cap \in Nat
  OBVIOUS
<1>7. Cardinality(Filled') + Cardinality(Senders' \X Whole) <= Cap + room
  BY ONLY <1>1, <1>3, <1>4, <1>5, <1>6
<1>. QED BY <1>1, <1>7 DEF QuotaInv, room

LEMMA FewerNames ==
  ASSUME MediaTypeOK, Reclaim, \A i \in Inodes : Linked(i)' => Linked(i),
         \A d \in Downloads : stage'[d] = "stream" => stage[d] = "stream" /\ file'[d] = file[d]
  PROVE  Filled' \subseteq Filled
<1>1. SUFFICES ASSUME NEW c \in Filled' PROVE c \in Filled
  OBVIOUS
<1>2. c \in Inodes \X Whole /\ c[1] \in Inodes /\ Linked(c[1])'
  BY DEF Filled
<1>3. content'[c[1]] = content[c[1]]
  BY <1>2 DEF Reclaim
<1>4. Opened(c[1])' => Opened(c[1])
  BY DEF Opened
<1>5. Opened(c[1])' \/ \E n \in content'[c[1]] : c[2] <= n
  BY DEF Filled
<1>. QED BY <1>2, <1>3, <1>4, <1>5 DEF Filled

LEMMA QuotaStep ==
  MediaTypeOK /\ MediaTypeOK' /\ QuotaInv /\ [MediaNext]_mediaVars => QuotaInv'
<1>. SUFFICES ASSUME MediaTypeOK, MediaTypeOK', QuotaInv, [MediaNext]_mediaVars PROVE QuotaInv'
  OBVIOUS
<1>a. /\ stage \in [Downloads -> Stage] /\ path \in [Downloads -> Paths]
      /\ part \in [Paths -> Inodes \cup {NoFile}] /\ dest \in [Paths -> Inodes \cup {NoFile}]
      /\ file \in [Downloads -> Inodes \cup {NoFile}] /\ content \in [Inodes -> SUBSET Whole]
  BY DEF MediaTypeOK
<1>b. ASSUME NEW d \in Downloads, NEW to \in {"idle", "rename", "remove"}, Close(d, to)
      PROVE  /\ Senders' \subseteq Senders
             /\ \A e \in Downloads : stage'[e] = "stream" => stage[e] = "stream" /\ file'[e] = file[e]
  <2>1. /\ stage'[d] = to
        /\ \A e \in Downloads : e # d => stage'[e] = stage[e] /\ file'[e] = file[e]
    BY <1>a, <1>b DEF Close
  <2>. QED BY <2>1 DEF Senders
<1>1. ASSUME NEW d \in Downloads, Chunk(d) PROVE QuotaInv'
  <2>1. /\ stage[d] = "stream" /\ UNCHANGED <<part, dest, stage, file>>
        /\ content' = [content EXCEPT ![file[d]] = @ \cup {written[d] + 1}]
    BY <1>1 DEF Chunk
  <2>2. Senders' = Senders
    BY <2>1 DEF Senders
  <2>3. Filled' \subseteq Filled
    <3>1. SUFFICES ASSUME NEW c \in Filled' PROVE c \in Filled
      OBVIOUS
    <3>2. c \in Inodes \X Whole /\ c[1] \in Inodes /\ Linked(c[1])
      BY <2>1 DEF Filled, Linked
    <3>3. CASE c[1] = file[d]
      <4>1. Opened(c[1])
        BY <2>1, <3>3 DEF Opened
      <4>. QED BY <3>2, <4>1 DEF Filled
    <3>4. CASE c[1] # file[d]
      <4>1. content'[c[1]] = content[c[1]]
        BY <1>a, <2>1, <3>2, <3>4
      <4>2. Opened(c[1]) \/ \E n \in content'[c[1]] : c[2] <= n
        BY <2>1 DEF Filled, Opened
      <4>. QED BY <3>2, <4>1, <4>2 DEF Filled
    <3>. QED BY <3>3, <3>4
  <2>. QED BY <2>2, <2>3, LessQuota
<1>2. ASSUME NEW d \in Downloads, NEW to \in {"idle", "rename", "remove"}, Close(d, to),
             UNCHANGED <<part, dest>>, Reclaim
      PROVE  QuotaInv'
  <2>1. \A i \in Inodes : Linked(i)' => Linked(i)
    BY <1>2 DEF Linked
  <2>2. Filled' \subseteq Filled
    BY <1>2, <1>b, <2>1, FewerNames
  <2>. QED BY <1>2, <1>b, <2>2, LessQuota
<1>3. ASSUME NEW d \in Downloads, Rename(d) PROVE QuotaInv'
  <2>1. Close(d, "idle") /\ Reclaim /\ path[d] \in Paths
    BY <1>3, <1>a DEF Rename
  <2>2. \A i \in Inodes : Linked(i)' => Linked(i)
    <3>1. CASE part[path[d]] = NoFile
      BY <1>3, <3>1 DEF Rename, Linked
    <3>2. CASE part[path[d]] # NoFile
      <4>1. \A q \in Paths : /\ part'[q] \in {NoFile, part[q]}
                             /\ dest'[q] \in {dest[q], part[path[d]]}
        BY <1>3, <1>a, <2>1, <3>2 DEF Rename
      <4>. QED BY <2>1, <4>1 DEF Linked
    <3>. QED BY <3>1, <3>2
  <2>3. Filled' \subseteq Filled
    BY <1>b, <2>1, <2>2, FewerNames
  <2>. QED BY <1>b, <2>1, <2>3, LessQuota
<1>4. ASSUME NEW d \in Downloads, RemovePart(d) PROVE QuotaInv'
  <2>1. Close(d, "idle") /\ Reclaim /\ path[d] \in Paths
    BY <1>4, <1>a DEF RemovePart
  <2>2. \A q \in Paths : part'[q] \in {NoFile, part[q]} /\ dest'[q] = dest[q]
    BY <1>4, <1>a, <2>1 DEF RemovePart
  <2>3. \A i \in Inodes : Linked(i)' => Linked(i)
    BY <2>2 DEF Linked
  <2>4. Filled' \subseteq Filled
    BY <1>b, <2>1, <2>3, FewerNames
  <2>. QED BY <1>b, <2>1, <2>4, LessQuota
<1>5. CASE CleanUp
  <2>1. Reclaim /\ stage' = stage /\ file' = file
    BY <1>5 DEF CleanUp, callVars
  <2>2. \A q \in Paths : part'[q] \in {NoFile, part[q]} /\ dest'[q] \in {NoFile, dest[q]}
    BY <1>5, <1>a DEF CleanUp
  <2>3. \A i \in Inodes : Linked(i)' => Linked(i)
    BY <2>2 DEF Linked
  <2>4. Filled' \subseteq Filled /\ Senders' = Senders
    BY <2>1, <2>3, FewerNames DEF Senders
  <2>. QED BY <2>4, LessQuota
<1>6. ASSUME NEW d \in Downloads, Refused(d) PROVE QuotaInv'
  <2>1. Close(d, "idle") /\ UNCHANGED <<part, dest, content>>
    BY <1>6 DEF Refused, dirVars
  <2>2. Filled' \subseteq Filled
    <3>1. \A e \in Downloads : stage'[e] = "stream" => stage[e] = "stream" /\ file'[e] = file[e]
      BY <1>b, <2>1
    <3>. QED BY <2>1, <3>1 DEF Filled, Linked, Opened
  <2>. QED BY <1>b, <2>1, <2>2, LessQuota
<1>7. CASE UNCHANGED mediaVars
  <2>1. Filled' = Filled /\ Senders' = Senders
    BY <1>7 DEF mediaVars, dirVars, callVars, Filled, Senders, Linked, Opened
  <2>. QED BY <2>1, LessQuota
<1>8. ASSUME NEW d \in Downloads, Stream(d) \/ Dropped(d) PROVE QuotaInv'
  BY <1>1, <1>2, <1>8 DEF Stream, Finish, Fail, Dropped
<1>. QED BY <1>3, <1>4, <1>5, <1>6, <1>7, <1>8, AskQuota, CreateQuota DEF MediaNext

(* However many downloads run at once, and whatever happens to them: the   *)
(* directory exceeds the quota by less than a body for each of them.       *)
THEOREM QuotaKept == MediaSpec => []QuotaOvershoot
<1>1. MediaInit => QuotaInv
  <2>1. SUFFICES ASSUME MediaInit PROVE QuotaInv
    OBVIOUS
  <2>2. Filled = {}
    BY <2>1 DEF MediaInit, Filled, Opened
  <2>3. Senders \X Whole = {}
    BY <2>1 DEF MediaInit, Senders
  <2>4. (Cardinality(Downloads) - 1) \in Nat
    BY CallsAreFinite
  <2>5. (Cardinality(Downloads) - 1) * Chunks \in Nat
    BY <2>4
  <2>6. IsFiniteSet({}) /\ Cardinality({}) = 0
    BY FS_EmptySet
  <2>. DEFINE room == (Cardinality(Downloads) - 1) * Chunks
  <2>7. room \in Nat /\ Cap \in Nat
    BY <2>5
  <2>. HIDE DEF room
  <2>8. Cardinality(Filled) + Cardinality(Senders \X Whole) <= Cap + room
    <3>1. Cardinality(Filled) = 0 /\ Cardinality(Senders \X Whole) = 0
      BY <2>2, <2>3, <2>6
    <3>. QED BY ONLY <2>7, <3>1
  <2>. QED BY <2>2, <2>6, <2>8 DEF QuotaInv, room
<1>2. MediaInv => MediaTypeOK
  BY DEF MediaInv
<1>3. QuotaInv => QuotaOvershoot
  <2>. SUFFICES ASSUME QuotaInv PROVE QuotaOvershoot
    OBVIOUS
  <2>2. Stored \subseteq Filled /\ IsFiniteSet(Filled)
    BY DEF Stored, Filled, QuotaInv
  <2>3. Cardinality(Stored) <= Cardinality(Filled) /\ IsFiniteSet(Stored)
    BY <2>2, FS_Subset
  <2>4. Cardinality(Stored) \in Nat /\ Cardinality(Filled) \in Nat
    BY <2>2, <2>3, FS_CardinalityType
  <2>5. Cardinality(Senders \X Whole) \in Nat
    BY CallsAreFinite, Bodies
  <2>. DEFINE room == (Cardinality(Downloads) - 1) * Chunks
  <2>6. Cardinality(Filled) + Cardinality(Senders \X Whole) <= Cap + room /\ room \in Int
    <3>1. (Cardinality(Downloads) - 1) \in Int
      BY CallsAreFinite
    <3>. QED BY <3>1 DEF QuotaInv
  <2>. HIDE DEF room
  <2>7. Cap \in Nat
    OBVIOUS
  <2>8. Cardinality(Stored) <= Cap + room
    BY ONLY <2>3, <2>4, <2>5, <2>6, <2>7
  <2>. QED BY <2>8 DEF QuotaOvershoot, DirSize, room
<1>4. MediaTypeOK /\ MediaTypeOK' /\ QuotaInv /\ [MediaNext]_mediaVars => QuotaInv'
  BY QuotaStep
<1>. QED BY <1>1, <1>2, <1>3, <1>4, MediaAlways, PTL DEF MediaSpec
=============================================================================
