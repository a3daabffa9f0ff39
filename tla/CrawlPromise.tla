---------------------------- MODULE CrawlPromise ----------------------------
(***************************************************************************)
(* What a crawl promises its caller, without frontier, tasks or channel:   *)
(* every URL it accepts is owed a result until it is settled or dropped,   *)
(* the crawl may call the site exhausted only when it owes nothing, it     *)
(* counts at most PageCeiling pages, and after it ended nothing happens.   *)
(***************************************************************************)
EXTENDS Naturals

CONSTANTS Urls, PageCeiling

VARIABLES
  owed,      \* accepted URLs that have no result yet
  settled,   \* URLs that got a result, or were skipped for an absent caller
  dropped,   \* URLs dropped for lack of room
  counted,   \* pages counted as crawled
  verdict,   \* why the crawl stops: "none" while it runs
  ended

vars == <<owed, settled, dropped, counted, verdict, ended>>

Init ==
  /\ owed = {} /\ settled = {} /\ dropped = {}
  /\ counted = 0 /\ verdict = "none" /\ ended = FALSE

Running == ~ended /\ verdict # "exhausted"

Accept(u) ==
  /\ Running
  /\ owed' = owed \cup {u}
  /\ UNCHANGED <<settled, dropped, counted, verdict, ended>>

Drop(u) ==
  /\ Running
  /\ dropped' = dropped \cup {u}
  /\ owed' = owed \ {u}
  /\ UNCHANGED <<settled, counted, verdict, ended>>

Settle(u) ==
  /\ Running
  /\ u \in owed \cup dropped
  /\ settled' = settled \cup {u}
  /\ owed' = owed \ {u}
  /\ UNCHANGED <<dropped, counted, verdict, ended>>

Count ==
  /\ Running
  /\ counted < PageCeiling
  /\ counted' = counted + 1
  /\ UNCHANGED <<owed, settled, dropped, verdict, ended>>

Stop ==
  /\ verdict = "none"
  /\ \/ verdict' \in {"closed", "limit"}
     \/ owed = {} /\ verdict' = "exhausted"
  /\ UNCHANGED <<owed, settled, dropped, counted, ended>>

End ==
  /\ verdict # "none" /\ ended' = TRUE
  /\ UNCHANGED <<owed, settled, dropped, counted, verdict>>

Next ==
  \/ \E u \in Urls : Accept(u) \/ Drop(u) \/ Settle(u)
  \/ Count \/ Stop \/ End

Spec == Init /\ [][Next]_vars
=============================================================================
