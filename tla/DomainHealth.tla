---------------------------- MODULE DomainHealth ----------------------------
(***************************************************************************)
(* The nightly check of one domain: what the registry says of its          *)
(* expiration, what DNS says of its nameservers, what is stored, and the   *)
(* alerts.  Every replica wakes up at midnight and the one that gets the   *)
(* advisory lock runs the cycle; another may get it afterwards and run it  *)
(* again.                                                                  *)
(*                                                                         *)
(* Time is counted in units, Day of them a day, so that the clock moves    *)
(* on while a check is running.                                            *)
(***************************************************************************)
EXTENDS Mail, FiniteSetsExt

CONSTANTS Checkers,    \* replicas
          Day, Thresholds,
          Dates,       \* expiration instants
          NSets,       \* nameserver sets
          LastUnit, MaxChanges, MaxMishaps  \* bounds: time, renewals and moves, faults

ASSUME HealthAssumption ==
  /\ {Day, LastUnit, MaxChanges, MaxMishaps} \subseteq Nat /\ Day > 0
  /\ Thresholds \subseteq Nat \ {0} /\ IsFiniteSet(Thresholds) /\ Dates \subseteq Nat
  /\ Null \notin Checkers \cup Dates \cup NSets \cup Nat

VARIABLES unit,
          regExp, ns,  \* what the registry and DNS would answer
          row,         \* the domain's row
          hlock, check, awake,
          told,        \* alerts sent, by expiration and threshold (at most 2 are counted)
          warned,      \* thresholds alerted since the domain was last outside them
          inBand,      \* the threshold found by the last stored successful check
          spoiled,     \* an alert was lost, in one of the ways the code accepts
          changes, mishaps

healthVars == <<unit, regExp, ns, row, hlock, check, awake, told, warned, inBand, spoiled,
                changes, mishaps>>

Bands == Thresholds \cup {0}
Row == [exp : Dates \cup {Null}, ok : 0..LastUnit \cup {Null},
        base : NSets \cup {Null}, cur : NSets \cup {Null}, drift : BOOLEAN]
\* at: the cycle's clock; got: the row as listed; exp, err, cur: the answers;
\* alert: the threshold to alert about; drift: whether there is drift.
Check == [pc : {"idle", "list", "look", "persist", "notify"}, at : 0..LastUnit, got : Row,
          exp : Dates \cup {Null}, err : BOOLEAN, cur : NSets \cup {Null},
          alert : Bands, drift : BOOLEAN]

NoRow == [exp |-> Null, ok |-> Null, base |-> Null, cur |-> Null, drift |-> FALSE]
NoCheck == [pc |-> "idle", at |-> 0, got |-> NoRow, exp |-> Null, err |-> FALSE, cur |-> Null,
            alert |-> 0, drift |-> FALSE]

HealthTypeOK ==
  /\ unit \in 0..LastUnit /\ regExp \in Dates /\ ns \in NSets
  /\ row \in Row /\ hlock \in Checkers \cup {Null} /\ check \in [Checkers -> Check]
  /\ awake \subseteq Checkers
  /\ told \in [Dates -> [Thresholds -> 0..2]] /\ warned \subseteq Thresholds
  /\ inBand \in Bands /\ spoiled \in BOOLEAN
  /\ changes \in 0..MaxChanges /\ mishaps \in 0..MaxMishaps

HealthInit ==
  /\ unit = 0 /\ regExp \in Dates /\ ns \in NSets
  /\ row = NoRow /\ hlock = Null /\ check = [r \in Checkers |-> NoCheck] /\ awake = {}
  /\ told = [d \in Dates |-> [k \in Thresholds |-> 0]] /\ warned = {}
  /\ inBand = 0 /\ spoiled = FALSE /\ changes = 0 /\ mishaps = 0

-----------------------------------------------------------------------------
\* Whole days, truncated towards zero.
daysUntil(from, to) == IF to >= from THEN (to - from) \div Day ELSE -((from - to) \div Day)

\* The smallest threshold the days fall within, 0 when beyond all.
expirationThreshold(days) ==
  LET within == {k \in Thresholds : days <= k} IN IF within = {} THEN 0 ELSE Min(within)

\* Mutant: inside a band it alerts every day.
expirationAlertDaily(at, prevExp, prevOk, exp) == expirationThreshold(daysUntil(at, exp))

\* Mutant: compared with the band as it is now.
expirationAlertNow(at, prevExp, prevOk, exp) ==
  LET threshold == expirationThreshold(daysUntil(at, exp))
      previous == IF prevExp # Null /\ prevOk # Null
                  THEN expirationThreshold(daysUntil(at, prevExp)) ELSE 0 IN
  IF threshold = 0 \/ (previous # 0 /\ threshold >= previous) THEN 0 ELSE threshold

\* The threshold newly crossed since the last successful check, or 0.
expirationAlert(at, prevExp, prevOk, exp) ==
  LET threshold == expirationThreshold(daysUntil(at, exp))
      previous == IF prevExp # Null /\ prevOk # Null
                  THEN expirationThreshold(daysUntil(prevOk, prevExp)) ELSE 0 IN
  IF threshold = 0 \/ (previous # 0 /\ threshold >= previous) THEN 0 ELSE threshold

nsDrift(expected, current) == expected # Null /\ expected # current

-----------------------------------------------------------------------------
Mishap == mishaps < MaxMishaps /\ mishaps' = mishaps + 1

ReleaseLock(r) == hlock' = IF hlock = r THEN Null ELSE hlock
EndCheck(r) == check' = [check EXCEPT ![r] = NoCheck] /\ ReleaseLock(r)

\* Time passes; nobody sleeps through midnight or works past the next one.
UnitPasses ==
  /\ unit < LastUnit /\ awake = Checkers
  /\ (unit + 1) % Day = 0 => \A r \in Checkers : check[r].pc = "idle"
  /\ unit' = unit + 1
  /\ awake' = IF unit' % Day = 0 THEN {} ELSE awake
  /\ UNCHANGED <<regExp, ns, row, hlock, check, told, warned, inBand, spoiled, changes, mishaps, mailVars>>

\* The clock of the whole cycle is read once it has the lock.
HealthCycle(r) ==
  /\ r \notin awake /\ awake' = awake \cup {r}
  /\ IF hlock = Null
     THEN hlock' = r /\ check' = [check EXCEPT ![r] = [NoCheck EXCEPT !.pc = "list", !.at = unit]]
     ELSE UNCHANGED <<hlock, check>>
  /\ UNCHANGED <<unit, regExp, ns, row, told, warned, inBand, spoiled, changes, mishaps, mailVars>>

listDomains(r) ==
  /\ check[r].pc = "list"
  /\ check' = [check EXCEPT ![r].pc = "look", ![r].got = row]
  /\ UNCHANGED <<unit, regExp, ns, row, hlock, awake, told, warned, inBand, spoiled, changes, mishaps, mailVars>>

\* RDAP answers with a date, without one, or not at all.
RDAPAnswers == {[err |-> FALSE, exp |-> regExp], [err |-> FALSE, exp |-> Null], [err |-> TRUE, exp |-> Null]}

\* The last known expiration stands in for one that did not come.
checkAndPersist(r) ==
  LET got == check[r].got IN
  /\ check[r].pc = "look"
  /\ \E rdap \in RDAPAnswers, cur \in {ns, Null} :
       LET exp == IF rdap.exp = Null THEN got.exp ELSE rdap.exp IN
       check' = [check EXCEPT ![r] =
         [@ EXCEPT !.pc = "persist", !.exp = exp, !.err = rdap.err, !.cur = cur,
                   !.alert = IF rdap.err \/ exp = Null THEN 0
                             ELSE expirationAlert(check[r].at, got.exp, got.ok, exp),
                   !.drift = cur # Null /\ nsDrift(got.base, cur)]]
  /\ UNCHANGED <<unit, regExp, ns, row, hlock, awake, told, warned, inBand, spoiled, changes, mishaps, mailVars>>

setHealthCheckResult(c) ==
  [row EXCEPT !.exp = c.exp, !.ok = IF c.err THEN @ ELSE unit,
              !.cur = IF c.cur = Null THEN @ ELSE c.cur,
              !.base = IF @ = Null THEN c.cur ELSE @,
              !.drift = IF c.cur = Null THEN @ ELSE c.drift]

\* Stored on its own, before any alert.  When the stored instant puts the
\* expiration into another band than the cycle's clock did, a later check
\* compares with the wrong one.
persist(r) ==
  LET c == check[r]
      fresh == ~c.err /\ c.exp # Null
      band == expirationThreshold(daysUntil(c.at, c.exp)) IN
  /\ c.pc = "persist"
  /\ row' = setHealthCheckResult(c)
  /\ inBand' = IF fresh THEN band ELSE inBand
  /\ warned' = IF fresh /\ band = 0 THEN {} ELSE warned
  /\ spoiled' = (spoiled \/ (fresh /\ expirationThreshold(daysUntil(unit, c.exp)) # band))
  /\ check' = [check EXCEPT ![r].pc = "notify"]
  /\ UNCHANGED <<unit, regExp, ns, hlock, awake, told, changes, mishaps, mailVars>>

\* A failed write: no alert, and the next night tries again.
persistFails(r) ==
  /\ check[r].pc \in {"list", "persist"} /\ Mishap
  /\ EndCheck(r)
  /\ UNCHANGED <<unit, regExp, ns, row, awake, told, warned, inBand, spoiled, changes, mailVars>>

\* To every member who wants it, under the tenant's setting.
Notified(k) == CanSend(TRUE) /\ ResolveEnabledForUsers(k) # {}

\* The alert about the expiration; the one about the nameservers, repeated
\* every night while they differ, leaves nothing behind.
notify(r) ==
  LET c == check[r] IN
  /\ c.pc = "notify"
  /\ IF c.alert # 0 /\ Notified("domain_expiring")
     THEN /\ told' = [told EXCEPT ![c.exp][c.alert] = IF @ < 2 THEN @ + 1 ELSE @]
          /\ warned' = warned \cup {c.alert}
          /\ UNCHANGED spoiled
     ELSE spoiled' = (spoiled \/ c.alert # 0) /\ UNCHANGED <<told, warned>>
  /\ EndCheck(r)
  /\ UNCHANGED <<unit, regExp, ns, row, awake, inBand, changes, mishaps, mailVars>>

\* The replica dies; after "persist" the alert dies with it.
HealthCrash(r) ==
  /\ check[r].pc # "idle" /\ Mishap
  /\ spoiled' = (spoiled \/ (check[r].pc = "notify" /\ check[r].alert # 0))
  /\ EndCheck(r)
  /\ UNCHANGED <<unit, regExp, ns, row, awake, told, warned, inBand, changes, mailVars>>

\* The domain is renewed, or moved to other nameservers.
Renew ==
  /\ changes < MaxChanges /\ changes' = changes + 1
  /\ \E d \in Dates : d > regExp /\ regExp' = d
  /\ UNCHANGED <<unit, ns, row, hlock, check, awake, told, warned, inBand, spoiled, mishaps, mailVars>>

MoveNS ==
  /\ changes < MaxChanges /\ changes' = changes + 1
  /\ \E n \in NSets \ {ns} : ns' = n
  /\ UNCHANGED <<unit, regExp, row, hlock, check, awake, told, warned, inBand, spoiled, mishaps, mailVars>>

HealthNext ==
  \/ UnitPasses \/ Renew \/ MoveNS
  \/ \E r \in Checkers : \/ HealthCycle(r) \/ listDomains(r) \/ checkAndPersist(r) \/ persist(r)
                         \/ persistFails(r) \/ notify(r) \/ HealthCrash(r)

-----------------------------------------------------------------------------
\* DHM-02, once per crossing: no expiration date is alerted about twice for
\* one threshold, over failed lookups, answers without a date, crashes and a
\* second replica that runs the same night's cycle again.
AlertedOnce == \A d \in Dates, k \in Thresholds : told[d][k] <= 1

\* No crossing goes by in silence: while the last successful check found the
\* domain inside a threshold, an alert for it or a narrower one has gone out
\* since the domain came in, unless one was lost in a way that is accounted
\* for: a crash or no way to send after the result was stored, or an
\* expiration between the cycle's clock and the stored instant.
CrossingAlerted ==
  (inBand # 0 /\ ~spoiled /\ \A r \in Checkers : check[r].pc # "notify")
  => \E k \in warned : k <= inBand

=============================================================================
