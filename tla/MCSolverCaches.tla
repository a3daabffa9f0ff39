--------------------------- MODULE MCSolverCaches ---------------------------
(* Two instances in one run: either both cohorts ask for one domain, or    *)
(* each of two domains is asked for by one cohort and a cache of MaxSize   *)
(* solutions has to evict.                                                 *)
EXTENDS SolverCaches
CONSTANTS t1, t2
MCTasks == {t1, t2}
CohortKeys == {<<"a", TRUE>>, <<"a", FALSE>>}
CapacityKeys == {<<"a", TRUE>>, <<"b", TRUE>>}
MCKeys == CohortKeys \cup CapacityKeys

VARIABLE asked      \* the keys the requests of this instance come for
MCInit == Init /\ asked \in {CohortKeys, CapacityKeys}
MCNext ==
  /\ Next
  /\ UNCHANGED asked
  /\ \A t \in Tasks : pc'[t] # "idle" => key'[t] \in asked
MCSpec ==
  /\ MCInit /\ [][MCNext]_<<vars, asked>>
  /\ WF_vars(Tick) /\ \A t \in Tasks : WF_vars(Step(t))
=============================================================================
