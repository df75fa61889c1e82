----------------------------- MODULE MCPollCycle -----------------------------
\* Finite instances of PollCycle.
EXTENDS PollCycle, TLC

\* Services, incidents and texts are interchangeable.
Symmetry == Permutations(Services) \cup Permutations(Incidents) \cup Permutations(Texts)

\* Every service may be up or in outage.
UpOrOutage == [s \in Services |-> {"operational", "outage"}]

\* One service is degraded from its first measurement on, the others are up
\* or in outage.
DegradedOrOutage ==
  [s \in Services |->
     IF s = CHOOSE r \in Services : TRUE THEN {"degraded"} ELSE {"operational", "outage"}]
=============================================================================
