-------------------------- MODULE MCManualScheduler --------------------------
(* Instances of ManualScheduler in which one tenant owns every service.     *)
EXTENDS ManualScheduler, TLC

OneOwner == [s \in Services |-> CHOOSE t \in Tenants : TRUE]
Symmetry == Permutations(Services)

\* A behaviour has one service and every failure, or it has more that compete
\* for the connections, without failures, in one run, while one is deleted.
First == CHOOSE s \in Services : TRUE
Alone == \A s \in Services \ {First} : row[s] = "absent"
Competing ==
  /\ runs <= 1 /\ faults = 0 /\ gone = {}
  /\ \A s \in Services : fails[s] = 0
  /\ Cardinality({s \in Services : row[s] = "deleted"}) <= 1

\* What is left out are steps of no fairness: administrators, elections,
\* faults and failing checks.
ChecksSpec == Init /\ [][Next /\ (Alone \/ Competing)']_vars /\ Fairness
=============================================================================
