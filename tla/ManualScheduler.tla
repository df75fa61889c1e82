--------------------------- MODULE ManualScheduler ---------------------------
(***************************************************************************)
(* The checks of polling-manual services                                   *)
(* (internal/poller/manual_scheduler.go) and the connections they take     *)
(* from the process' pool (internal/db/pool.go).                           *)
(*                                                                         *)
(* One goroutine per service, started and cancelled by reconcile.  A check *)
(* opens a tenant transaction (one connection) and inside it calls         *)
(* OpenOrExtend, whose transaction takes a second connection and commits   *)
(* on its own (StatusIntervals); the status is published by the commit of  *)
(* the first.  Runs follow each other in one process (PollerManager); a    *)
(* commit that reports an error is taken not to have committed.  The       *)
(* result of the network check is an input.                                *)
(***************************************************************************)
EXTENDS Integers, FiniteSets

CONSTANTS Services, Tenants, Null,
          Owner,       \* the tenant of each service
          MaxConns,    \* maxConns
          Threshold,   \* manualFailureThreshold
          MaxRuns,     \* bound on the times this process leads
          MaxFaults    \* bound on database failures

ASSUME ServicesAssumption == IsFiniteSet(Services)
ASSUME OwnerAssumption == Owner \in [Services -> Tenants]
ASSUME BoundsAssumption ==
  MaxConns \in Nat /\ Threshold \in Nat \ {0} /\ MaxRuns \in Nat /\ MaxFaults \in Nat

Statuses == {"not_configured", "operational", "outage"}
ASSUME NullAssumption == Null \notin Statuses

VARIABLES
  row,       \* the services rows
  gone,      \* deleted tenants
  status,    \* current_status
  interval,  \* the status of the open interval
  fails,     \* checks failed since the last that succeeded, up to Threshold
  run,       \* ManualScheduler.Run
  tracked,   \* the map of reconcile
  rec,       \* a reconcile in progress
  loop,      \* the goroutines: runServiceLoop and runCheck
  runs, faults

dbVars == <<row, gone, status, interval>>
vars == <<dbVars, fails, run, tracked, rec, loop, runs, faults>>

\* "result": a check is done; "tx": the tenant transaction is open; "interval":
\* OpenOrExtend has its connection; "recorded": it has committed.
Loop == [pc : {"none", "idle", "result", "tx", "interval", "recorded"},
         streak : 0..Threshold, carried : Statuses, new : Statuses, cancelled : BOOLEAN]

NoLoop == [pc |-> "none", streak |-> 0, carried |-> "not_configured",
           new |-> "not_configured", cancelled |-> FALSE]

NoRec == [pc |-> "idle", todo |-> {}, live |-> {}, failed |-> {}]

Init ==
  /\ row = [s \in Services |-> "absent"]
  /\ gone = {}
  /\ status = [s \in Services |-> "not_configured"]
  /\ interval = [s \in Services |-> Null]
  /\ fails = [s \in Services |-> 0]
  /\ run = "off"
  /\ tracked = {}
  /\ rec = NoRec
  /\ loop = [s \in Services |-> NoLoop]
  /\ runs = 0
  /\ faults = 0

-----------------------------------------------------------------------------
(* The pool.                                                                *)

Holding(pcs) == {s \in Services : loop[s].pc \in pcs}

\* Mutant: the leader's session lock lives on a pooled connection.
FreeLocked == MaxConns - 1 - Cardinality(Holding({"tx", "recorded", "interval"}))
                           - Cardinality(Holding({"interval"}))

\* pgxpool hands out maxConns connections and then makes callers wait.
Free == MaxConns - Cardinality(Holding({"tx", "recorded", "interval"}))
                 - Cardinality(Holding({"interval"}))

TypeOK ==
  /\ row \in [Services -> {"absent", "live", "deleted"}]
  /\ gone \subseteq Tenants
  /\ status \in [Services -> Statuses]
  /\ interval \in [Services -> Statuses \cup {Null}]
  /\ fails \in [Services -> 0..Threshold]
  /\ run \in {"off", "on", "stopping"}
  /\ tracked \subseteq Services
  /\ rec \in [pc : {"idle", "listing"}, todo : SUBSET Tenants, live : SUBSET Services,
              failed : SUBSET Tenants]
  /\ loop \in [Services -> Loop]
  /\ runs \in 0..MaxRuns
  /\ faults \in 0..MaxFaults
  /\ Free >= 0

-----------------------------------------------------------------------------
(* Administrators.                                                          *)

Create(s) ==
  /\ row[s] = "absent" /\ Owner[s] \notin gone
  /\ row' = [row EXCEPT ![s] = "live"]
  /\ UNCHANGED <<gone, status, interval, fails, run, tracked, rec, loop, runs, faults>>

\* Refused while a status page shows the service: that only delays it.
SoftDelete(s) ==
  /\ row[s] = "live"
  /\ row' = [row EXCEPT ![s] = "deleted"]
  /\ UNCHANGED <<gone, status, interval, fails, run, tracked, rec, loop, runs, faults>>

DeleteTenant(t) ==
  /\ t \notin gone
  /\ gone' = gone \cup {t}
  /\ UNCHANGED <<row, status, interval, fails, run, tracked, rec, loop, runs, faults>>

-----------------------------------------------------------------------------
(* Run and reconcile.                                                       *)

\* startManualScheduler: Run begins with an empty map.
StartRun ==
  /\ run = "off" /\ runs < MaxRuns
  /\ run' = "on" /\ runs' = runs + 1
  /\ tracked' = {}
  /\ UNCHANGED <<dbVars, fails, rec, loop, faults>>

\* A fault, or the context of the run or of the goroutine is cancelled.
Fault(cancelled) ==
  \/ cancelled /\ UNCHANGED faults
  \/ ~cancelled /\ faults < MaxFaults /\ faults' = faults + 1

Cancelled(s) ==
  [pc |-> loop[s].pc, streak |-> loop[s].streak, carried |-> loop[s].carried,
   new |-> loop[s].new, cancelled |-> loop[s].pc # "none"]

\* Leadership is lost or the process stops: every goroutine's context is a
\* child of the run's.
CancelRun ==
  /\ run = "on"
  /\ run' = "stopping"
  /\ loop' = [s \in Services |-> Cancelled(s)]
  /\ UNCHANGED <<dbVars, fails, tracked, rec, runs, faults>>

\* Mutant: Run returns without waiting for its goroutines.
EndRunNow ==
  /\ run = "stopping" /\ rec.pc = "idle"
  /\ run' = "off"
  /\ UNCHANGED <<dbVars, fails, tracked, rec, loop, runs, faults>>

\* wg.Wait: Run returns when its goroutines have.
EndRun ==
  /\ run = "stopping" /\ rec.pc = "idle"
  /\ \A s \in Services : loop[s].pc = "none"
  /\ run' = "off"
  /\ UNCHANGED <<dbVars, fails, tracked, rec, loop, runs, faults>>

\* A pass begins: tenants.List, on a connection it gives back.
reconcile ==
  /\ run = "on" /\ rec.pc = "idle" /\ Free > 0
  /\ rec' = [pc |-> "listing", todo |-> Tenants \ gone, live |-> {}, failed |-> {}]
  /\ UNCHANGED <<dbVars, fails, run, tracked, loop, runs, faults>>

ListPollingManual(t) == {s \in Services : Owner[s] = t /\ row[s] = "live"}

\* A goroutine starts with the status its row had in the list.
Spawned(s) ==
  [pc |-> "idle", streak |-> 0, carried |-> status[s], new |-> status[s],
   cancelled |-> run = "stopping"]

\* One tenant is listed in a short transaction; new services get a goroutine.
reconcileTenant(t) ==
  /\ rec.pc = "listing" /\ t \in rec.todo /\ Free > 0
  /\ rec' = [pc |-> "listing", todo |-> rec.todo \ {t},
             live |-> rec.live \cup ListPollingManual(t), failed |-> rec.failed]
  /\ tracked' = tracked \cup ListPollingManual(t)
  /\ loop' = [s \in Services |->
                IF s \in ListPollingManual(t) \ tracked THEN Spawned(s) ELSE loop[s]]
  /\ UNCHANGED <<dbVars, fails, run, runs, faults>>

reconcileTenantFails(t) ==
  /\ rec.pc = "listing" /\ t \in rec.todo
  /\ Fault(run = "stopping")
  /\ rec' = [pc |-> "listing", todo |-> rec.todo \ {t}, live |-> rec.live,
             failed |-> rec.failed \cup {t}]
  /\ UNCHANGED <<dbVars, fails, run, tracked, loop, runs>>

\* Tracked services that are no longer listed, of tenants that were readable.
Stale == {s \in tracked : s \notin rec.live /\ Owner[s] \notin rec.failed}

\* Mutant: the map entry goes, the goroutine stays.
reconcileEndForgets ==
  /\ rec.pc = "listing" /\ rec.todo = {}
  /\ tracked' = tracked \ Stale
  /\ rec' = NoRec
  /\ UNCHANGED <<dbVars, fails, run, loop, runs, faults>>

reconcileEnd ==
  /\ rec.pc = "listing" /\ rec.todo = {}
  /\ tracked' = tracked \ Stale
  /\ loop' = [s \in Services |-> IF s \in Stale THEN Cancelled(s) ELSE loop[s]]
  /\ rec' = NoRec
  /\ UNCHANGED <<dbVars, fails, run, runs, faults>>

-----------------------------------------------------------------------------
(* One service's goroutine.                                                 *)

\* Mutant: one failure too few.
StatusAfterEager(streak, carried) == IF streak + 1 >= Threshold THEN "outage" ELSE carried

StatusAfter(streak, carried) == IF streak >= Threshold THEN "outage" ELSE carried

Capped(n) == IF n > Threshold THEN Threshold ELSE n

\* Mutant: a result that only repeats what is carried is not written.
RunCheckOnChange(s, ok) ==
  /\ loop[s].pc = "idle" /\ ~loop[s].cancelled
  /\ LET streak == IF ok THEN 0 ELSE Capped(loop[s].streak + 1)
         new == IF ok THEN "operational" ELSE StatusAfter(streak, loop[s].carried)
     IN  loop' = [loop EXCEPT ![s] =
                    [pc |-> IF new = loop[s].carried THEN "idle" ELSE "result", streak |-> streak,
                     carried |-> loop[s].carried, new |-> new, cancelled |-> FALSE]]
  /\ fails' = [fails EXCEPT ![s] = IF ok THEN 0 ELSE Capped(fails[s] + 1)]
  /\ UNCHANGED <<dbVars, run, tracked, rec, runs, faults>>

\* The network check and what it does to the streak.
RunCheck(s, ok) ==
  /\ loop[s].pc = "idle" /\ ~loop[s].cancelled
  /\ LET streak == IF ok THEN 0 ELSE Capped(loop[s].streak + 1)
     IN  loop' = [loop EXCEPT ![s] =
                    [pc |-> "result", streak |-> streak, carried |-> loop[s].carried,
                     new |-> IF ok THEN "operational" ELSE StatusAfter(streak, loop[s].carried),
                     cancelled |-> FALSE]]
  /\ fails' = [fails EXCEPT ![s] = IF ok THEN 0 ELSE Capped(fails[s] + 1)]
  /\ UNCHANGED <<dbVars, run, tracked, rec, runs, faults>>

Goto(s, pc, carried) ==
  loop' = [loop EXCEPT ![s] = [pc |-> pc, streak |-> loop[s].streak, carried |-> carried,
                               new |-> loop[s].new, cancelled |-> loop[s].cancelled]]

tenantTx(s) ==
  /\ loop[s].pc = "result" /\ Free > 0
  /\ Goto(s, "tx", loop[s].carried)
  /\ UNCHANGED <<dbVars, fails, run, tracked, rec, runs, faults>>

\* OpenOrExtend begins its own transaction ...
OpenOrExtendBegin(s) ==
  /\ loop[s].pc = "tx" /\ Free > 0
  /\ Goto(s, "interval", loop[s].carried)
  /\ UNCHANGED <<dbVars, fails, run, tracked, rec, runs, faults>>

\* ... and commits it.
OpenOrExtendCommit(s) ==
  /\ loop[s].pc = "interval"
  /\ interval' = [interval EXCEPT ![s] = loop[s].new]
  /\ Goto(s, "recorded", loop[s].carried)
  /\ UNCHANGED <<row, gone, status, fails, run, tracked, rec, runs, faults>>

\* UpdateStatus and the commit of the tenant transaction.
Commit(s) ==
  /\ loop[s].pc = "recorded"
  /\ status' = [status EXCEPT ![s] = loop[s].new]
  /\ Goto(s, "idle", loop[s].new)
  /\ UNCHANGED <<row, gone, interval, fails, run, tracked, rec, runs, faults>>

\* Any call of runCheck after the network check fails: what it holds is given
\* back, the carried status stays, the streak stays counted.
runCheckFails(s) ==
  /\ loop[s].pc \in {"result", "tx", "interval", "recorded"}
  /\ Fault(loop[s].cancelled)
  /\ Goto(s, "idle", loop[s].carried)
  /\ UNCHANGED <<dbVars, fails, run, tracked, rec, runs>>

\* The goroutine sees its context done.
Exit(s) ==
  /\ loop[s].pc = "idle" /\ loop[s].cancelled
  /\ loop' = [loop EXCEPT ![s] = NoLoop]
  /\ UNCHANGED <<dbVars, fails, run, tracked, rec, runs, faults>>

-----------------------------------------------------------------------------
runServiceLoop(s) ==
  \/ \E ok \in BOOLEAN : RunCheck(s, ok)
  \/ tenantTx(s) \/ OpenOrExtendBegin(s) \/ OpenOrExtendCommit(s) \/ Commit(s)
  \/ runCheckFails(s) \/ Exit(s)

Reconcile ==
  \/ reconcile \/ reconcileEnd
  \/ \E t \in Tenants : reconcileTenant(t) \/ reconcileTenantFails(t)

Next ==
  \/ \E s \in Services : Create(s) \/ SoftDelete(s) \/ runServiceLoop(s)
  \/ \E t \in Tenants : DeleteTenant(t)
  \/ StartRun \/ CancelRun \/ EndRun \/ Reconcile

Spec == Init /\ [][Next]_vars

\* Goroutines are scheduled, tickers fire, pgxpool serves waiting callers in
\* turn (so a caller for whom a connection becomes free again and again gets
\* one); nothing has to fail; administrators and elections do what they like.
Fairness ==
  /\ \A s \in Services :
       /\ SF_vars(tenantTx(s)) /\ SF_vars(OpenOrExtendBegin(s))
       /\ WF_vars(UNCHANGED faults /\ runServiceLoop(s))
  /\ SF_vars(reconcile) /\ \A t \in Tenants : SF_vars(reconcileTenant(t))
  /\ WF_vars(UNCHANGED faults /\ Reconcile) /\ WF_vars(EndRun)

FairSpec == Spec /\ Fairness

-----------------------------------------------------------------------------
(* Correctness.                                                             *)

\* maxConns "is safe": a check that holds the connection of its tenant
\* transaction and waits for OpenOrExtend's can always count on another check
\* to give one back.
NoPoolDeadlock ==
  Holding({"tx"}) # {} => Free > 0 \/ Holding({"interval", "recorded"}) # {}

\* manualFailureThreshold: the public status only flips to outage when that
\* many checks in a row have failed, across database failures, lost results
\* and changes of leadership.
OutageNeedsStreak ==
  [][\A s \in Services :
       (status'[s] = "outage" /\ status[s] # "outage") => fails[s] = Threshold]_vars

\* reconcile: a service whose tenant could not be read is not "mistaken for
\* deleted"; while the scheduler runs only a deleted service, or one of a
\* deleted tenant, loses its goroutine.
CancelsOnlyGone ==
  [][\A s \in Services :
       (loop[s].pc # "none" /\ ~loop[s].cancelled /\ loop'[s].cancelled /\ run' = "on") =>
         row[s] = "deleted" \/ Owner[s] \in gone]_vars

\* No service is ever checked by two goroutines: one is spawned only when the
\* previous one has returned.
SpawnsOnce == [][\A s \in tracked' \ tracked : loop[s].pc = "none"]_vars

\* A check that waits for a connection, its first or its second, gets one as
\* long as the pool has more than there are polling-manual services: others
\* that wait while they hold one do not keep it from being stored or given up.
CheckFinishes ==
  Cardinality(Services) < MaxConns =>
    \A s \in Services : loop[s].pc = "result" ~> loop[s].pc \in {"idle", "none"}

\* SVCDEL-06: the goroutine of a deleted service ends.
DeletedStops == \A s \in Services : row[s] = "deleted" ~> loop[s].pc = "none"

\* A live service is checked as long as the scheduler runs, and what a failed
\* transaction left apart, the history and the published status, comes together
\* again: the goroutine carries the status that was published.
LiveIsRecorded ==
  \A s \in Services :
    row[s] = "live" ~>
      \/ loop[s].pc # "none" /\ interval[s] = status[s]
      \/ row[s] # "live" \/ Owner[s] \in gone \/ run # "on"

=============================================================================
