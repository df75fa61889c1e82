------------------------------ MODULE PollCycle ------------------------------
(***************************************************************************)
(* One tenant's poll cycles (internal/poller/poller.go), the SLOAnalyzer   *)
(* they call on a transition (analyzer.go), the incidents it opens         *)
(* (internal/db/incident_repository.go) and the operators who close them   *)
(* (internal/api/incidents_handler.go).                                    *)
(*                                                                         *)
(* A cycle runs in one tenant transaction: statuses and new incidents are  *)
(* invisible to others until it commits, at the end of the cycle, while    *)
(* OpenOrExtend commits each service's interval at once (StatusIntervals), *)
(* and mails and enrichments leave the process immediately.  Enrichments   *)
(* are goroutines with a transaction of their own; they outlive the cycle  *)
(* and the poller.  Pollers are the instances PollerManager starts one     *)
(* after the other, each with an SLOAnalyzer of its own; Overlap says that *)
(* a deposed leader may still be running (PollerManager's OnePoller).      *)
(* Services are the SLO-monitored ones.  The classification is an input    *)
(* (BurnRate), clocks are abstracted: a Restart can start a cycle at any   *)
(* moment, and a cooldown may be over at any moment its goroutine is gone. *)
(***************************************************************************)
EXTENDS Integers, FiniteSets

CONSTANTS Services, Incidents, Pollers, Texts, Null,
          Observable,      \* the statuses the measurements of a service may yield
          Overlap,         \* may two instances run at once
          MaxConcurrent,   \* maxConcurrentEnrichments
          MaxOps,          \* bound on what operators do
          MaxFaults        \* bound on failures of transactions

Statuses == {"not_configured", "operational", "degraded", "outage"}

ASSUME ObservableAssumption == Observable \in [Services -> SUBSET Statuses]
ASSUME OverlapAssumption == Overlap \in BOOLEAN
ASSUME BoundsAssumption == MaxConcurrent \in Nat /\ MaxOps \in Nat /\ MaxFaults \in Nat
ASSUME NullAssumption ==
  Null \notin Services /\ Null \notin Incidents /\ Null \notin Texts /\ Null \notin Statuses

VARIABLES
  svc,       \* committed services rows: current_status, status_analysis IS NOT NULL
  interval,  \* the status of each service's open interval
  integ,     \* the Datadog integration's status
  inc,       \* the incidents
  mails,     \* resolved mails since the incident was last open
  shown,     \* the proposal on the operator's screen
  run,       \* the poller instances
  txn,       \* the tenant transaction of each instance's cycle
  todo,      \* services the cycle has still to poll
  snap,      \* current_status as services.List read it
  wrote,     \* current_status written by the open transaction
  created,   \* incident inserted by the open transaction
  outcome,   \* anySuccess and lastErr of the cycle
  enr,       \* enrichment goroutines
  cooling,   \* lastDispatch: keys dispatched less than enrichmentCooldown ago
  ops, faults

pollVars == <<run, txn, todo, snap, wrote, created, outcome>>
vars == <<svc, interval, integ, inc, mails, shown, pollVars, enr, cooling, ops, faults>>

\* "uncommitted" while the inserting transaction is open, "lost" if it rolls
\* back; "open" stands for investigating, identified and monitoring.
Incident == [state : {"none", "uncommitted", "open", "resolved", "lost"},
             auto : BOOLEAN, links : SUBSET Services,
             refined : BOOLEAN,                \* the description is the LLM's
             pending : Texts \cup {Null},      \* pending_close_comment
             reopened : BOOLEAN]

Kinds == {"degraded", "outage", "close"}
Enrichment == [by : Pollers, kind : Kinds, target : Services \cup Incidents,
               phase : {"generating", "writing"}]

NoIncident == [state |-> "none", auto |-> FALSE, links |-> {}, refined |-> FALSE,
               pending |-> Null, reopened |-> FALSE]

Init ==
  /\ svc = [s \in Services |-> [status |-> "not_configured", analysis |-> FALSE]]
  /\ interval = [s \in Services |-> Null]
  /\ integ = "active"
  /\ inc = [i \in Incidents |-> NoIncident]
  /\ mails = [i \in Incidents |-> 0]
  /\ shown = [i \in Incidents |-> Null]
  /\ run = [p \in Pollers |-> "new"]
  /\ txn = [p \in Pollers |-> "none"]
  /\ todo = [p \in Pollers |-> {}]
  /\ snap = [p \in Pollers |-> [s \in Services |-> "not_configured"]]
  /\ wrote = [p \in Pollers |-> [s \in Services |-> Null]]
  /\ created = [p \in Pollers |-> [s \in Services |-> Null]]
  /\ outcome = [p \in Pollers |-> [ok |-> FALSE, err |-> FALSE]]
  /\ enr = {}
  /\ cooling = [p \in Pollers |-> {}]
  /\ ops = 0
  /\ faults = 0

TypeOK ==
  /\ svc \in [Services -> [status : Statuses, analysis : BOOLEAN]]
  /\ interval \in [Services -> Statuses \cup {Null}]
  /\ integ \in {"active", "invalid"}
  /\ inc \in [Incidents -> Incident]
  /\ mails \in [Incidents -> 0..2]
  /\ shown \in [Incidents -> Texts \cup {Null}]
  /\ run \in [Pollers -> {"new", "running", "stopped"}]
  /\ txn \in [Pollers -> {"none", "open", "aborted"}]
  /\ todo \in [Pollers -> SUBSET Services]
  /\ snap \in [Pollers -> [Services -> Statuses]]
  /\ wrote \in [Pollers -> [Services -> Statuses \cup {Null}]]
  /\ created \in [Pollers -> [Services -> Incidents \cup {Null}]]
  /\ outcome \in [Pollers -> [ok : BOOLEAN, err : BOOLEAN]]
  /\ enr \in SUBSET Enrichment
  /\ cooling \in [Pollers -> SUBSET (Kinds \X (Services \cup Incidents))]
  /\ ops \in 0..MaxOps
  /\ faults \in 0..MaxFaults

\* An incident's columns after an UPDATE of all that can change.
Put(i, state, refined, pending, reopened) ==
  inc' = [inc EXCEPT ![i] = [state |-> state, auto |-> inc[i].auto, links |-> inc[i].links,
                             refined |-> refined, pending |-> pending, reopened |-> reopened]]

-----------------------------------------------------------------------------
(* The analyzer.                                                            *)

SlotsOf(p) == {e \in enr : e.by = p}

tryAcquire(p, key) == key \notin cooling[p] /\ Cardinality(SlotsOf(p)) < MaxConcurrent

Dispatch(p, key) ==
  IF tryAcquire(p, key)
  THEN /\ enr' = enr \cup {[by |-> p, kind |-> key[1], target |-> key[2], phase |-> "generating"]}
       /\ cooling' = [cooling EXCEPT ![p] = @ \cup {key}]
  ELSE UNCHANGED <<enr, cooling>>

\* An open auto-created incident of s that is visible to a poll transaction.
HasOpenIncidentForService(i, s) == inc[i].state = "open" /\ inc[i].auto /\ s \in inc[i].links

\* The INSERT of a detected incident and its service link.
CreateDetected(p, s) ==
  \E i \in Incidents :
    /\ inc[i].state = "none"
    /\ inc' = [inc EXCEPT ![i] = [state |-> "uncommitted", auto |-> TRUE, links |-> {s},
                                  refined |-> FALSE, pending |-> Null, reopened |-> FALSE]]
    /\ created' = [created EXCEPT ![p] = [@ EXCEPT ![s] = i]]
    /\ Dispatch(p, <<"outage", i>>)

\* Mutant: every outage opens an incident.
handleOutageUnchecked(p, s) == CreateDetected(p, s)

\* Mutant: only an outage of a healthy service opens an incident.
handleOutageFromHealthy(p, s) ==
  \/ /\ snap[p][s] # "operational"
     /\ UNCHANGED <<inc, created, enr, cooling>>
  \/ snap[p][s] = "operational" /\ CreateDetected(p, s)

handleOutageTransition(p, s) ==
  \/ /\ \E i \in Incidents : HasOpenIncidentForService(i, s)
     /\ UNCHANGED <<inc, created, enr, cooling>>
  \/ /\ \A i \in Incidents : ~HasOpenIncidentForService(i, s)
     /\ CreateDetected(p, s)

\* What the poll transaction reads once it has written s as operational.
AllLinkedServicesOperational(p, s, i) ==
  \A r \in inc[i].links \ {s} :
    (IF wrote[p][r] = Null THEN svc[r].status ELSE wrote[p][r]) = "operational"

\* LIMIT 1 without an order: the query picks any of them.
handleRecoveryTransition(p, s) ==
  /\ \/ \E i \in Incidents :
          /\ HasOpenIncidentForService(i, s)
          /\ IF AllLinkedServicesOperational(p, s, i) THEN Dispatch(p, <<"close", i>>)
                                                      ELSE UNCHANGED <<enr, cooling>>
     \/ (\A i \in Incidents : ~HasOpenIncidentForService(i, s)) /\ UNCHANGED <<enr, cooling>>
  /\ UNCHANGED <<inc, created>>

\* The synchronous part.  The clearing of status_analysis is part of what the
\* transaction commits (Clears); the incident-opened mail goes out here.
HandleTransition(p, s, previous, new) ==
  \/ new = previous /\ UNCHANGED <<inc, created, enr, cooling>>
  \/ /\ new = "degraded" /\ new # previous
     /\ Dispatch(p, <<"degraded", s>>)
     /\ UNCHANGED <<inc, created>>
  \/ new = "outage" /\ new # previous /\ handleOutageTransition(p, s)
  \/ new = "operational" /\ new # previous /\ handleRecoveryTransition(p, s)

Handled(p, s) == wrote[p][s] # Null /\ wrote[p][s] # snap[p][s]
Clears(p, s) == Handled(p, s) /\ "degraded" \in {wrote[p][s], snap[p][s]}

-----------------------------------------------------------------------------
(* The poll cycle.                                                          *)

\* PollerManager starts an instance; unless leadership overlaps, the previous
\* one has ended.
Start(p) ==
  /\ run[p] = "new"
  /\ Overlap \/ \A q \in Pollers : run[q] # "running"
  /\ run' = [run EXCEPT ![p] = "running"]
  /\ UNCHANGED <<svc, interval, integ, inc, mails, shown, txn, todo, snap, wrote, created,
                 outcome, enr, cooling, ops, faults>>

\* The tenant transaction and services.List.
pollCycle(p) ==
  /\ run[p] = "running" /\ txn[p] = "none"
  /\ txn' = [txn EXCEPT ![p] = "open"]
  /\ todo' = [todo EXCEPT ![p] = Services]
  /\ snap' = [snap EXCEPT ![p] = [s \in Services |-> svc[s].status]]
  /\ UNCHANGED <<svc, interval, integ, inc, mails, shown, run, wrote, created, outcome, enr, cooling,
                 ops, faults>>

\* The row lock of an UPDATE of s, held to the end of its transaction.
RowFree(s) == \A q \in Pollers : wrote[q][s] = Null

Polled(p, s, ok) ==
  /\ todo' = [todo EXCEPT ![p] = @ \ {s}]
  /\ outcome' = [outcome EXCEPT ![p] = [ok |-> @.ok \/ ok, err |-> @.err \/ ~ok]]

\* pollService measures st: the interval is committed, the status written and
\* a transition handled.
pollService(p, s, st) ==
  /\ txn[p] = "open" /\ s \in todo[p] /\ RowFree(s)
  /\ interval' = [interval EXCEPT ![s] = st]
  /\ wrote' = [wrote EXCEPT ![p] = [@ EXCEPT ![s] = st]]
  /\ HandleTransition(p, s, snap[p][s], st)
  /\ Polled(p, s, TRUE)
  /\ UNCHANGED <<svc, integ, mails, shown, run, txn, snap, ops, faults>>

\* Mutant: a failed fetch is published as an outage.
pollServiceFailsAsOutage(p, s) ==
  /\ txn[p] = "open" /\ s \in todo[p] /\ RowFree(s)
  /\ wrote' = [wrote EXCEPT ![p] = [@ EXCEPT ![s] = "outage"]]
  /\ Polled(p, s, FALSE)
  /\ UNCHANGED <<svc, interval, integ, inc, mails, shown, run, txn, snap, created,
                 enr, cooling, ops, faults>>

\* The fetch, its retries or OpenOrExtend fail: nothing is written for s.
pollServiceFails(p, s) ==
  /\ txn[p] # "none" /\ s \in todo[p]
  /\ Polled(p, s, FALSE)
  /\ UNCHANGED <<svc, interval, integ, inc, mails, shown, run, txn, snap, wrote, created,
                 enr, cooling, ops, faults>>

\* In an aborted transaction the interval is still committed on its own.
pollServiceAborted(p, s, st) ==
  /\ txn[p] = "aborted" /\ s \in todo[p]
  /\ interval' = [interval EXCEPT ![s] = st]
  /\ Polled(p, s, FALSE)
  /\ UNCHANGED <<svc, integ, inc, mails, shown, run, txn, snap, wrote, created, enr, cooling, ops, faults>>

CreatedBy(p, i) == \E s \in Services : created[p][s] = i

\* The transaction's incidents once its writes are visible or gone.
Settle(p, state) ==
  /\ inc' = [i \in Incidents |->
               IF CreatedBy(p, i)
               THEN [state |-> state, auto |-> TRUE, links |-> inc[i].links, refined |-> FALSE,
                     pending |-> Null, reopened |-> FALSE]
               ELSE inc[i]]
  /\ wrote' = [wrote EXCEPT ![p] = [s \in Services |-> Null]]
  /\ created' = [created EXCEPT ![p] = [s \in Services |-> Null]]

\* A statement of the tenant transaction fails: its writes and locks are gone
\* and Postgres refuses the statements that follow, also when the error itself
\* was logged and swallowed.
Abort(p) ==
  /\ txn[p] = "open" /\ faults < MaxFaults
  /\ txn' = [txn EXCEPT ![p] = "aborted"]
  /\ faults' = faults + 1
  /\ Settle(p, "lost")
  /\ UNCHANGED <<svc, interval, integ, mails, shown, run, todo, snap, outcome, enr, cooling, ops>>

EndTx(p) ==
  /\ txn' = [txn EXCEPT ![p] = "none"]
  /\ todo' = [todo EXCEPT ![p] = {}]
  /\ snap' = [snap EXCEPT ![p] = [s \in Services |-> "not_configured"]]
  /\ outcome' = [outcome EXCEPT ![p] = [ok |-> FALSE, err |-> FALSE]]

\* pollOnce's last call, MarkDatadogChecked or MarkDatadogInvalid.
Mark(p) ==
  IF outcome[p].ok THEN "active" ELSE IF outcome[p].err THEN "invalid" ELSE integ

\* What the transaction leaves in the services rows.
Published(p) ==
  [s \in Services |->
     [status |-> IF wrote[p][s] = Null THEN svc[s].status ELSE wrote[p][s],
      analysis |-> svc[s].analysis /\ ~Clears(p, s)]]

\* Mutant: one failed service keeps the tenant's cycle from committing.
CommitAllOrNothing(p) ==
  /\ txn[p] = "open" /\ todo[p] = {}
  /\ svc' = IF outcome[p].err THEN svc ELSE Published(p)
  /\ integ' = Mark(p)
  /\ Settle(p, IF outcome[p].err THEN "lost" ELSE "open")
  /\ EndTx(p)
  /\ UNCHANGED <<interval, mails, shown, run, enr, cooling, ops, faults>>

Commit(p) ==
  /\ txn[p] = "open" /\ todo[p] = {}
  /\ svc' = Published(p)
  /\ integ' = Mark(p)
  /\ Settle(p, "open")
  /\ EndTx(p)
  /\ UNCHANGED <<interval, mails, shown, run, enr, cooling, ops, faults>>

\* The commit is refused or fails and the transaction is rolled back.
Rollback(p) ==
  /\ todo[p] = {}
  /\ \/ txn[p] = "aborted" /\ UNCHANGED faults
     \/ txn[p] = "open" /\ faults < MaxFaults /\ faults' = faults + 1
  /\ Settle(p, "lost")
  /\ EndTx(p)
  /\ UNCHANGED <<svc, interval, integ, mails, shown, run, enr, cooling, ops>>

\* Restart, lost leadership or shutdown cancel the instance's context: the
\* transaction is rolled back, the enrichments go on, the analyzer is not
\* called again (its lastDispatch is forgotten).
Stop(p) ==
  /\ run[p] = "running"
  /\ run' = [run EXCEPT ![p] = "stopped"]
  /\ Settle(p, "lost")
  /\ EndTx(p)
  /\ cooling' = [cooling EXCEPT ![p] = {}]
  /\ UNCHANGED <<svc, interval, integ, mails, shown, enr, ops, faults>>

-----------------------------------------------------------------------------
(* The enrichments.                                                         *)

\* The LLM answers.
Generate(e) ==
  /\ e \in enr /\ e.phase = "generating"
  /\ enr' = (enr \ {e}) \cup {[by |-> e.by, kind |-> e.kind, target |-> e.target, phase |-> "writing"]}
  /\ UNCHANGED <<svc, interval, integ, inc, mails, shown, pollVars, cooling, ops, faults>>

\* An error, an empty text or the timeout; or the write fails.
EnrichmentFails(e) ==
  /\ e \in enr
  /\ \/ e.phase = "generating" /\ UNCHANGED faults
     \/ e.phase = "writing" /\ faults < MaxFaults /\ faults' = faults + 1
  /\ enr' = enr \ {e}
  /\ UNCHANGED <<svc, interval, integ, inc, mails, shown, pollVars, cooling, ops>>

\* The write of a degraded enrichment waits for the row lock of a poll
\* transaction and then sets the column, whatever the status has become.
UpdateStatusAnalysis(e) ==
  /\ e \in enr /\ e.phase = "writing" /\ e.kind = "degraded"
  /\ RowFree(e.target)
  /\ svc' = [svc EXCEPT ![e.target] = [status |-> @.status, analysis |-> TRUE]]
  /\ enr' = enr \ {e}
  /\ UNCHANGED <<interval, integ, inc, mails, shown, pollVars, cooling, ops, faults>>

\* mustExist and the guarded UPDATE: nothing for an incident that is not
\* visible or is resolved.
SetDescription(e) ==
  /\ e \in enr /\ e.phase = "writing" /\ e.kind = "outage"
  /\ \/ /\ inc[e.target].state = "open"
        /\ Put(e.target, "open", TRUE, inc[e.target].pending, inc[e.target].reopened)
     \/ inc[e.target].state # "open" /\ UNCHANGED inc
  /\ enr' = enr \ {e}
  /\ UNCHANGED <<svc, interval, integ, mails, shown, pollVars, cooling, ops, faults>>

\* Mutant: the UPDATE does not look at the status.
SetPendingCloseCommentBlind(e, text) ==
  /\ e \in enr /\ e.phase = "writing" /\ e.kind = "close"
  /\ Put(e.target, inc[e.target].state, inc[e.target].refined, text, inc[e.target].reopened)
  /\ enr' = enr \ {e}
  /\ UNCHANGED <<svc, interval, integ, mails, shown, pollVars, cooling, ops, faults>>

SetPendingCloseComment(e, text) ==
  /\ e \in enr /\ e.phase = "writing" /\ e.kind = "close"
  /\ \/ /\ inc[e.target].state = "open"
        /\ Put(e.target, "open", inc[e.target].refined, text, inc[e.target].reopened)
     \/ inc[e.target].state # "open" /\ UNCHANGED inc
  /\ enr' = enr \ {e}
  /\ UNCHANGED <<svc, interval, integ, mails, shown, pollVars, cooling, ops, faults>>

\* enrichmentCooldown (2 min) outlasts the goroutine (AnalysisTimeout, 30 s).
CooldownOver(p, key) ==
  /\ key \in cooling[p]
  /\ \A e \in SlotsOf(p) : <<e.kind, e.target>> # key
  /\ cooling' = [cooling EXCEPT ![p] = @ \ {key}]
  /\ UNCHANGED <<svc, interval, integ, inc, mails, shown, pollVars, enr, ops, faults>>

-----------------------------------------------------------------------------
(* The operators, one HTTP request (and tenant transaction) per action.     *)

Operate ==
  /\ ops < MaxOps
  /\ ops' = ops + 1
  /\ UNCHANGED <<svc, interval, integ, pollVars, enr, cooling, faults>>

Create(i, S) ==
  /\ Operate
  /\ inc[i].state = "none" /\ S # {}
  /\ inc' = [inc EXCEPT ![i] = [state |-> "open", auto |-> FALSE, links |-> S, refined |-> FALSE,
                                pending |-> Null, reopened |-> FALSE]]
  /\ UNCHANGED <<mails, shown>>

\* The mail of a resolution; the count is capped, two are too many already.
MailResolved(i) == mails' = [mails EXCEPT ![i] = IF @ = 2 THEN 2 ELSE @ + 1]

\* Transition: the same status again changes nothing.
Resolve(i) ==
  /\ Operate
  /\ inc[i].state = "open"
  /\ Put(i, "resolved", inc[i].refined, inc[i].pending, inc[i].reopened)
  /\ MailResolved(i)
  /\ UNCHANGED shown

\* Not counted: it follows a resolution, which is.
Reopen(i) ==
  /\ inc[i].state = "resolved"
  /\ Put(i, "open", inc[i].refined, inc[i].pending, TRUE)
  /\ mails' = [mails EXCEPT ![i] = 0]
  /\ UNCHANGED <<svc, interval, integ, shown, pollVars, enr, cooling, ops, faults>>

\* The incident list is loaded.
ListPaginated ==
  /\ shown # [i \in Incidents |-> inc[i].pending]
  /\ shown' = [i \in Incidents |-> inc[i].pending]
  /\ UNCHANGED <<svc, interval, integ, inc, mails, pollVars, enr, cooling, ops, faults>>

\* Mutant: whatever proposal is stored is accepted.
ConfirmPendingCloseAny(i) ==
  /\ Operate
  /\ inc[i].pending # Null
  /\ Put(i, "resolved", inc[i].refined, Null, inc[i].reopened)
  /\ MailResolved(i)
  /\ UNCHANGED shown

\* The request carries the text that was displayed; the row lock makes
\* comparing and writing one step.
ConfirmPendingClose(i) ==
  /\ Operate
  /\ shown[i] # Null /\ inc[i].pending = shown[i]
  /\ Put(i, "resolved", inc[i].refined, Null, inc[i].reopened)
  /\ MailResolved(i)
  /\ UNCHANGED shown

DiscardCloseProposal(i) ==
  /\ Operate
  /\ inc[i].pending # Null
  /\ Put(i, inc[i].state, inc[i].refined, Null, inc[i].reopened)
  /\ UNCHANGED <<mails, shown>>

-----------------------------------------------------------------------------
Cycle(p) ==
  \/ pollCycle(p)
  \/ \E s \in Services : \/ \E st \in Observable[s] : pollService(p, s, st) \/ pollServiceAborted(p, s, st)
                         \/ pollServiceFails(p, s)
  \/ Commit(p) \/ Rollback(p)

Enrich(e) ==
  \/ Generate(e) \/ EnrichmentFails(e) \/ UpdateStatusAnalysis(e) \/ SetDescription(e)
  \/ \E text \in Texts : SetPendingCloseComment(e, text)

Operator ==
  \/ ListPaginated
  \/ \E i \in Incidents :
       \/ \E S \in SUBSET Services : Create(i, S)
       \/ Resolve(i) \/ Reopen(i) \/ ConfirmPendingClose(i) \/ DiscardCloseProposal(i)

Next ==
  \/ \E p \in Pollers : \/ Start(p) \/ Stop(p) \/ Abort(p) \/ Cycle(p)
                        \/ \E key \in cooling[p] : CooldownOver(p, key)
  \/ \E e \in enr : Enrich(e)
  \/ Operator

Spec == Init /\ [][Next]_vars

\* A cycle in progress goes on (every call in it is bounded by the tenant
\* context's deadline), and so does an enrichment (AnalysisTimeout).
FairSpec ==
  /\ Spec
  /\ \A p \in Pollers : WF_vars(Cycle(p))
  /\ WF_vars(\E e \in enr : Enrich(e))

-----------------------------------------------------------------------------
(* Correctness.                                                             *)

\* maxConcurrentEnrichments: an analyzer never has more goroutines in flight
\* than its semaphore has slots.
EnrichmentSlots == \A p \in Pollers : Cardinality(SlotsOf(p)) <= MaxConcurrent

Detected(i) == inc[i].auto /\ ~inc[i].reopened /\ inc[i].state \in {"uncommitted", "open"}

\* handleOutageTransition: "a single outage must not spawn a duplicate incident
\* every cycle it stays breached".  Whatever is rolled back, retried or
\* restarted, a service has at most one incident that was detected and never
\* closed.
OneDetectedIncident ==
  \A i, j \in Incidents :
    (Detected(i) /\ Detected(j) /\ inc[i].links \cap inc[j].links # {}) => i = j

\* A service published as in outage has an auto-created incident that is open,
\* unless an operator closed it: status and incident become visible together.
OutageHasIncident ==
  \A s \in Services : svc[s].status = "outage" =>
    \E i \in Incidents :
      \/ HasOpenIncidentForService(i, s)
      \/ ops > 0 /\ inc[i].state = "resolved" /\ inc[i].auto /\ s \in inc[i].links

\* HasOpenIncidentForService: a manually created incident "must never receive
\* an LLM-drafted closing-comment proposal".
ProposalOnlyForDetected == \A i \in Incidents : inc[i].pending # Null => inc[i].auto

\* A late enrichment never writes to an incident an operator has resolved.
ResolvedKeepsItsText ==
  [][\A i \in Incidents : inc[i].state = "resolved" =>
       /\ inc'[i].refined = inc[i].refined
       /\ inc'[i].pending \in {inc[i].pending, Null}]_vars

\* confirmCloseRequest: no incident is "resolved with text nobody actually
\* reviewed", even if the proposal was regenerated after the page was loaded.
ReviewedClose ==
  [][\A i \in Incidents :
       (inc[i].pending # Null /\ inc'[i].pending = Null /\ mails'[i] # mails[i]) =>
         inc[i].pending = shown[i]]_vars

\* A status is only published once the history records it: when a cycle
\* commits, what changes is the status of the service's open interval.
PublishedIsRecorded ==
  [][\A s \in Services : svc'[s].status # svc[s].status => svc'[s].status = interval[s]]_vars

\* A service that is measured again and again is published again and again as
\* it is recorded, after every rollback and although other services of the
\* tenant may never be reached.
PublishedCatchesUp ==
  \A s \in Services :
    ([]<>(\E p \in Pollers : wrote[p][s] # Null)) => []<>(svc[s].status = interval[s])

\* What is visible outside the transaction that wrote it.
PublicStatus == [s \in Services |-> svc[s].status]
PublicIncidents ==
  [i \in Incidents |->
     [state    |-> IF inc[i].state \in {"open", "resolved"} THEN inc[i].state ELSE "hidden",
      auto     |-> inc[i].state \in {"open", "resolved"} /\ inc[i].auto,
      links    |-> IF inc[i].state \in {"open", "resolved"} THEN inc[i].links ELSE {},
      reopened |-> inc[i].state \in {"open", "resolved"} /\ inc[i].reopened]]

Board == INSTANCE TenantBoard WITH status <- PublicStatus, board <- PublicIncidents

\* pollCycle, with its failures, retries, overlapping instances and late
\* enrichments, is atomic: what is seen of a tenant is a TenantBoard.
ImplementsBoard == Board!BoardSpec
=============================================================================
