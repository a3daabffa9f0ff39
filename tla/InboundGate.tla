---------------------------- MODULE InboundGate -----------------------------
(***************************************************************************)
(* The record the inbound gate keeps of callers without a valid credential *)
(* (crates/js/src/inbound_auth.rs): each is logged the first time it is    *)
(* seen, in a table with three limits, so that a rollout in soft mode can  *)
(* find every caller before credentials are enforced.                      *)
(*                                                                         *)
(* A credential is absent, empty, wrong or right; the table's lock makes   *)
(* each request one action.  A row of the table is a prefix (result and    *)
(* route class), an address and a user agent; to be in it is to have been  *)
(* logged.                                                                 *)
(***************************************************************************)
EXTENDS Naturals, FiniteSets

CONSTANTS
  Ips, UserAgents, RouteClasses,
  GateConfigs,    \* configurations of the gate, records GateConfig
  MaxSightings, MaxUasPerIp, MaxEntriesPerIp

Credential == {"absent", "empty", "wrong", "right"}
GateConfig == [secret : BOOLEAN, token : BOOLEAN, soft : BOOLEAN, insecure : BOOLEAN]
OtherUa == "<other-ua>"

ASSUME SightingAssumption ==
  /\ GateConfigs \subseteq GateConfig /\ OtherUa \notin UserAgents
  /\ MaxSightings \in Nat /\ MaxUasPerIp \in Nat \ {0} /\ MaxEntriesPerIp \in Nat

VARIABLES
  config,
  seenRows,       \* Sightings::seen
  uasOf,          \* uas_per_ip
  capped,         \* addresses whose cap has been announced
  met             \* history: the caller of the last request that was not ok

gateRecordVars == <<config, seenRows, uasOf, capped, met>>

(* Gate::decide; without a counterpart in the configuration no credential  *)
(* is right.                                                               *)
Decide(secret, bearer) ==
  LET presented == {secret, bearer} \ {"absent"}
      checked(c, counterpart) == counterpart /\ c # "absent"
  IN  IF ~config.secret /\ ~config.token
      THEN IF config.insecure THEN "insecure" ELSE "unconfigured"
      ELSE IF config.secret /\ secret = "right" THEN "ok_secret"
      ELSE IF config.token /\ bearer = "right" THEN "ok_bearer"
      ELSE IF "empty" \in presented \/ checked(secret, config.secret) \/ checked(bearer, config.token)
      THEN "invalid"
      ELSE IF presented = {} THEN "missing" ELSE "unverifiable"

Allowed(result) ==
  \/ result \in {"ok_secret", "ok_bearer", "insecure"}
  \/ result \in {"missing", "unverifiable"} /\ config.soft

(* Mutant: the result is not part of the row. *)
RowOfCaller(result, class, ip, ua) == [result |-> "any", class |-> class, ip |-> ip, ua |-> ua]

Row(result, class, ip, ua) == [result |-> result, class |-> class, ip |-> ip, ua |-> ua]
Entries(ip) == Cardinality({row \in seenRows : row.ip = ip})

(* The user agent as recorded: one too many for its address is another. *)
Recorded(ip, ua) ==
  IF ua \notin uasOf[ip] /\ Cardinality(uasOf[ip]) >= MaxUasPerIp THEN OtherUa ELSE ua

-----------------------------------------------------------------------------
InboundInit ==
  /\ config \in GateConfigs
  /\ seenRows = {} /\ uasOf = [ip \in Ips |-> {}] /\ capped = {} /\ met = {}

(* Sightings::first. *)
First(result, class, ip, ua) ==
  LET name == Recorded(ip, ua)
      row == Row(result, class, ip, name)
      silent == Cardinality(seenRows) >= MaxSightings \/ row \in seenRows
      full == Entries(ip) >= MaxEntriesPerIp
  IN  /\ capped' = IF ~silent /\ full THEN capped \cup {ip} ELSE capped
      /\ seenRows' = IF silent \/ full THEN seenRows ELSE seenRows \cup {row}
      /\ uasOf' = IF silent \/ full \/ name = OtherUa THEN uasOf
                  ELSE [uasOf EXCEPT ![ip] = @ \cup {ua}]

(* The middleware, for every path but /health: note_sighting comes before  *)
(* the answer, whether the request is let through or not.                  *)
Inbound(class, ip, ua, secret, bearer) ==
  LET result == Decide(secret, bearer) IN
  /\ IF result \in {"ok_secret", "ok_bearer"}
     THEN met' = {} /\ UNCHANGED <<seenRows, uasOf, capped>>
     ELSE /\ met' = {[result |-> result, class |-> class, ip |-> ip, ua |-> ua,
                      allowed |-> Allowed(result)]}
          /\ First(result, class, ip, ua)
  /\ UNCHANGED config

InboundNext ==
  \E class \in RouteClasses, ip \in Ips, ua \in UserAgents,
     secret \in Credential, bearer \in Credential : Inbound(class, ip, ua, secret, bearer)

InboundSpec == InboundInit /\ [][InboundNext]_gateRecordVars

-----------------------------------------------------------------------------
(* No caller goes unnoticed: whoever came without a valid credential has   *)
(* been logged with this result and route class, under its own name or     *)
(* (only if it never had a row of its own) as another of its address;      *)
(* failing that, its address was announced as capped, or the table is full.*)
NoSilentCaller ==
  \A caller \in met :
    LET logged(ua) == \E row \in seenRows : /\ row.result = caller.result /\ row.class = caller.class
                                             /\ row.ip = caller.ip /\ row.ua = ua
    IN
    \/ logged(caller.ua)
    \/ logged(OtherUa) /\ caller.ua \notin uasOf[caller.ip]
    \/ caller.ip \in capped
    \/ Cardinality(seenRows) >= MaxSightings
=============================================================================
