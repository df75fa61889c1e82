-------------------------- MODULE MCClassifiedCycle --------------------------
(***************************************************************************)
(* Poll cycles and the classification of what they measure, for TLC.       *)
(* PollCycle takes every status a measurement may yield as its input, so a *)
(* behaviour is one of the cycles or one of the classification.  One of    *)
(* the cycles has pollers that overlap and fail, or an operator.           *)
(***************************************************************************)
EXTENDS MCPollCycle, BurnRate

ClassifiedInit == Init /\ BurnInit

\* One poller and no faults.
Undisturbed == faults = 0 /\ \E p \in Pollers : \A q \in Pollers \ {p} : run[q] = "new"

ClassifiedNext ==
  \/ evidence = NoTime /\ Next /\ (ops > 0 => Undisturbed)' /\ UNCHANGED burnVars
  \/ (\A p \in Pollers : run[p] = "new") /\ BurnNext /\ UNCHANGED vars

ClassifiedSpec == ClassifiedInit /\ [][ClassifiedNext]_<<vars, burnVars>>

\* No requests, and windows below, at and above each threshold; twelve errors
\* in ten requests are a skewed sample.
Windows ==
  {[requests |-> 0, errors |-> 0]}
    \cup [requests : {10}, errors : {0, 2, 3, 9, 12}]
    \cup [requests : {25}, errors : {0, 3, 9}]

\* 95%, the usual 99.5%, and an SLO without a budget.
Targets == {950, 995, 1000}
=============================================================================
