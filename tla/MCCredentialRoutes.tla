------------------------- MODULE MCCredentialRoutes -------------------------
(***************************************************************************)
(* The routes that take credentials, for TLC: the requests on one account, *)
(* and the limiter that decides whether a request gets that far.  Accounts *)
(* takes every order of requests as its input, so a behaviour is one of    *)
(* the accounts or one of the limiter.                                     *)
(***************************************************************************)
EXTENDS Accounts, RateLimiter, TLC

VARIABLE followed

\* An account that starts enrolled, one that starts without a second factor,
\* or the limiter, beside which the account does nothing.
RoutesInit ==
  /\ followed \in {"enrolled", "enrolling", "limiter"} /\ Init /\ LimiterInit
  /\ secret = IF followed = "enrolled" THEN "enabled" ELSE "none"

\* Bound: password resets are for the account that starts enrolled.
Account ==
  /\ followed # "limiter" /\ Next /\ UNCHANGED <<followed, limiterVars>>
  /\ followed = "enrolling" => UNCHANGED token
Limiter == followed = "limiter" /\ LimiterNext /\ UNCHANGED <<followed, vars>>

RoutesSpec ==
  RoutesInit /\ [][Account \/ Limiter]_<<followed, vars, limiterVars>>

AccountSymmetry == Permutations(Clients) \cup Permutations(Sessions) \cup Permutations(Challenges)
=============================================================================
