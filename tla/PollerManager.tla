--------------------------- MODULE PollerManager ---------------------------
(***************************************************************************)
(* Leader election and poller lifecycle of a set of vane replicas          *)
(* (internal/cli/poller_manager.go, internal/pglock/pglock.go and the      *)
(* start and shutdown paths of internal/cli/serve.go).                     *)
(*                                                                         *)
(* Every replica runs one RunLeaderLoop goroutine.  It competes for one    *)
(* Postgres session-level advisory lock; the winner starts a Datadog       *)
(* poller and a manual scheduler, and stops both when it finds its lock    *)
(* session dead or when the process shuts down.  Restart is also called by *)
(* the admin API on any replica, and Stop by the shutdown path, so three   *)
(* goroutines of a replica meet on PollerManager.mu.                       *)
(***************************************************************************)
EXTENDS Integers

CONSTANTS Replicas,        \* the server processes sharing one database
          NoOne,           \* value of lock while no session holds it
          MaxDisruptions   \* bound on crashes, lost sessions, failed attempts
                           \* and shutdowns, all replicas together

ASSUME NoOneAssumption == NoOne \notin Replicas
ASSUME MaxDisruptionsAssumption == MaxDisruptions \in Nat

VARIABLES
  lock,        \* replica whose database session holds the advisory lock
  conn,        \* pglock.Handle of each replica: "none", "up" or "down"
  pc,          \* control point of RunLeaderLoop
  api,         \* the admin API's call of Restart: "idle" or "restarting"
  serve,       \* the serve command: "up", then its shutdown steps, "down"
  mu,          \* holder of PollerManager.mu: "free", "loop", "api", "serve"
  leading,     \* PollerManager.leading
  poller,      \* the Datadog poller goroutines and m.cancel/m.done
  manual,      \* the ManualScheduler goroutines and m.manualCancel/Done
  disruptions  \* disruptions so far

vars == <<lock, conn, pc, api, serve, mu, leading, poller, manual, disruptions>>

-----------------------------------------------------------------------------
(* A goroutine family with its cancel/done pair: tracked says the pair is  *)
(* non-nil, live counts goroutines whose context is not cancelled by the   *)
(* pair, draining those cancelled through it that have not returned yet.   *)

Job == [tracked : BOOLEAN, live : Nat, draining : Nat]

NoJob == [tracked |-> FALSE, live |-> 0, draining |-> 0]

Spawn(j) == [tracked |-> TRUE, live |-> j.live + 1, draining |-> j.draining]

\* m.cancel(): a pair that is nil, or whose goroutine already returned
\* because the parent context is done, has nothing to cancel.
Cancel(j) ==
  IF j.tracked /\ j.live > 0
  THEN [tracked |-> TRUE, live |-> j.live - 1, draining |-> j.draining + 1]
  ELSE j

\* <-m.done returns, then the pair is set to nil.
Drained(j) == j.draining = 0
Untrack(j) == [j EXCEPT !.tracked = FALSE]

\* A cancelled goroutine returns; one whose parent context is done returns.
CancelledReturns(j) == [j EXCEPT !.draining = @ - 1]
LiveReturns(j) == [j EXCEPT !.live = @ - 1]

Goroutines(j) == j.live + j.draining

LoopPC == {"check", "try", "manual", "restart", "restarting", "heartbeat",
           "lost", "drainPoller", "drainManual", "release", "returned"}
ServePC == {"up", "shutdown", "stopPoller", "stopManual", "stopped", "down"}

TypeOK ==
  /\ lock \in Replicas \cup {NoOne}
  /\ conn \in [Replicas -> {"none", "up", "down"}]
  /\ pc \in [Replicas -> LoopPC]
  /\ api \in [Replicas -> {"idle", "restarting"}]
  /\ serve \in [Replicas -> ServePC]
  /\ mu \in [Replicas -> {"free", "loop", "api", "serve"}]
  /\ leading \in [Replicas -> BOOLEAN]
  /\ poller \in [Replicas -> Job]
  /\ manual \in [Replicas -> Job]
  /\ disruptions \in Nat

\* signal.NotifyContext's context, parent of every goroutine of the replica.
CtxDone(r) == serve[r] # "up"

\* Any of the replicas have been started already.
Init ==
  /\ lock = NoOne
  /\ conn = [r \in Replicas |-> "none"]
  /\ serve \in [Replicas -> {"up", "down"}]
  /\ pc = [r \in Replicas |-> IF serve[r] = "up" THEN "check" ELSE "returned"]
  /\ api = [r \in Replicas |-> "idle"]
  /\ mu = [r \in Replicas |-> "free"]
  /\ leading = [r \in Replicas |-> FALSE]
  /\ poller = [r \in Replicas |-> NoJob]
  /\ manual = [r \in Replicas |-> NoJob]
  /\ disruptions = 0

Disrupt == disruptions < MaxDisruptions /\ disruptions' = disruptions + 1

-----------------------------------------------------------------------------
(* RunLeaderLoop.                                                           *)

\* if ctx.Err() != nil { return }; the retry sleep before it is not timed.
LoopCheck(r) ==
  /\ pc[r] = "check"
  /\ pc' = [pc EXCEPT ![r] = IF CtxDone(r) THEN "returned" ELSE "try"]
  /\ UNCHANGED <<lock, conn, api, serve, mu, leading, poller, manual, disruptions>>

\* TryAcquire returns ok and leading is set; the context may be cancelled
\* between the check and the answer.
TryAcquireOk(r) ==
  /\ pc[r] = "try"
  /\ lock = NoOne
  /\ lock' = r
  /\ conn' = [conn EXCEPT ![r] = "up"]
  /\ leading' = [leading EXCEPT ![r] = TRUE]
  /\ pc' = [pc EXCEPT ![r] = "manual"]
  /\ UNCHANGED <<api, serve, mu, poller, manual, disruptions>>

\* The lock is held by another session (possibly a stale one of this very
\* replica): the connection is closed and the loop sleeps and retries.
TryAcquireHeld(r) ==
  /\ pc[r] = "try"
  /\ lock # NoOne
  /\ pc' = [pc EXCEPT ![r] = "check"]
  /\ UNCHANGED <<lock, conn, api, serve, mu, leading, poller, manual, disruptions>>

\* TryAcquire fails.  The statement may have taken the lock before its
\* answer was lost; that session is then stale until the server drops it.
TryAcquireError(r) ==
  /\ pc[r] = "try"
  /\ Disrupt
  /\ lock' \in {lock, IF lock = NoOne THEN r ELSE lock}
  /\ pc' = [pc EXCEPT ![r] = "check"]
  /\ UNCHANGED <<conn, api, serve, mu, leading, poller, manual>>

startManualScheduler(r) ==
  /\ pc[r] = "manual"
  /\ mu[r] = "free"
  /\ manual' = [manual EXCEPT ![r] = IF @.tracked THEN @ ELSE Spawn(@)]
  /\ pc' = [pc EXCEPT ![r] = "restart"]
  /\ UNCHANGED <<lock, conn, api, serve, mu, leading, poller, disruptions>>

\* Mutant: Restart does not consult leading.
RestartEnterUnchecked(r, who) ==
  /\ mu[r] = "free"
  /\ mu' = [mu EXCEPT ![r] = who]
  /\ poller' = [poller EXCEPT ![r] = Cancel(@)]

\* Restart locks mu and checks leading (not leading: it returns, nothing
\* changes), then stopLocked cancels the tracked poller and waits.
RestartEnter(r, who) ==
  /\ mu[r] = "free"
  /\ leading[r]
  /\ mu' = [mu EXCEPT ![r] = who]
  /\ poller' = [poller EXCEPT ![r] = Cancel(@)]

\* Restart on the loop goroutine, after acquisition or from a heartbeat; only
\* this goroutine clears leading, so the check succeeds here.
LoopRestart(r) ==
  /\ pc[r] = "restart"
  /\ RestartEnter(r, "loop")
  /\ pc' = [pc EXCEPT ![r] = "restarting"]
  /\ UNCHANGED <<lock, conn, api, serve, leading, manual, disruptions>>

\* Mutant: stopLocked cancels without waiting for done.
RestartOutcomeNoWait(r) ==
  /\ \/ poller' = [poller EXCEPT ![r] = Spawn(Untrack(@))]
     \/ poller' = [poller EXCEPT ![r] = Untrack(@)]
  /\ mu' = [mu EXCEPT ![r] = "free"]

\* stopLocked is done; newPollerFromStoredIntegration either builds a poller,
\* which is spawned, or fails, which leaves the replica leading without one.
RestartOutcome(r) ==
  /\ Drained(poller[r])
  /\ \/ poller' = [poller EXCEPT ![r] = Spawn(Untrack(@))]
     \/ poller' = [poller EXCEPT ![r] = Untrack(@)]
  /\ mu' = [mu EXCEPT ![r] = "free"]

LoopRestarted(r) ==
  /\ pc[r] = "restarting"
  /\ RestartOutcome(r)
  /\ pc' = [pc EXCEPT ![r] = "heartbeat"]
  /\ UNCHANGED <<lock, conn, api, serve, leading, manual, disruptions>>

\* Mutant: the probe's answer is ignored.
HeartbeatNoProbe(r) ==
  /\ pc[r] = "heartbeat"
  /\ \/ CtxDone(r) /\ pc' = [pc EXCEPT ![r] = "lost"]
     \/ /\ mu[r] = "free" /\ ~poller[r].tracked
        /\ pc' = [pc EXCEPT ![r] = "restart"]
  /\ UNCHANGED <<lock, conn, api, serve, mu, leading, poller, manual, disruptions>>

\* Mutant: a poller that could not be started is not retried (before AD-034).
HeartbeatNoRetry(r) ==
  /\ pc[r] = "heartbeat"
  /\ conn[r] = "down" \/ CtxDone(r)
  /\ pc' = [pc EXCEPT ![r] = "lost"]
  /\ UNCHANGED <<lock, conn, api, serve, mu, leading, poller, manual, disruptions>>

\* One tick of heartbeatUntilLost: a dead session, or a cancelled context,
\* ends the term; a leader without a poller goes through Restart again.
Heartbeat(r) ==
  /\ pc[r] = "heartbeat"
  /\ \/ /\ conn[r] = "down" \/ CtxDone(r)
        /\ pc' = [pc EXCEPT ![r] = "lost"]
     \/ /\ conn[r] = "up"
        /\ mu[r] = "free"
        /\ ~poller[r].tracked
        /\ pc' = [pc EXCEPT ![r] = "restart"]
  /\ UNCHANGED <<lock, conn, api, serve, mu, leading, poller, manual, disruptions>>

\* mu.Lock(); leading.Store(false); stopLocked cancels the poller.
LoseLeadership(r) ==
  /\ pc[r] = "lost"
  /\ mu[r] = "free"
  /\ mu' = [mu EXCEPT ![r] = "loop"]
  /\ leading' = [leading EXCEPT ![r] = FALSE]
  /\ poller' = [poller EXCEPT ![r] = Cancel(@)]
  /\ pc' = [pc EXCEPT ![r] = "drainPoller"]
  /\ UNCHANGED <<lock, conn, api, serve, manual, disruptions>>

\* The poller returned; stopManualLocked cancels the manual scheduler.
LoopPollerStopped(r) ==
  /\ pc[r] = "drainPoller"
  /\ Drained(poller[r])
  /\ poller' = [poller EXCEPT ![r] = Untrack(@)]
  /\ manual' = [manual EXCEPT ![r] = Cancel(@)]
  /\ pc' = [pc EXCEPT ![r] = "drainManual"]
  /\ UNCHANGED <<lock, conn, api, serve, mu, leading, disruptions>>

\* Mutant: stopManualLocked does not wait for the scheduler.
LoopManualStoppedNoWait(r) ==
  /\ pc[r] = "drainManual"
  /\ manual' = [manual EXCEPT ![r] = Untrack(@)]
  /\ mu' = [mu EXCEPT ![r] = "free"]
  /\ pc' = [pc EXCEPT ![r] = "release"]
  /\ UNCHANGED <<lock, conn, api, serve, leading, poller, disruptions>>

LoopManualStopped(r) ==
  /\ pc[r] = "drainManual"
  /\ Drained(manual[r])
  /\ manual' = [manual EXCEPT ![r] = Untrack(@)]
  /\ mu' = [mu EXCEPT ![r] = "free"]
  /\ pc' = [pc EXCEPT ![r] = "release"]
  /\ UNCHANGED <<lock, conn, api, serve, leading, poller, disruptions>>

\* handle.Release: unlocks and closes a live session, nothing on a dead one.
Release(r) ==
  /\ pc[r] = "release"
  /\ lock' = IF conn[r] = "up" THEN NoOne ELSE lock
  /\ conn' = [conn EXCEPT ![r] = "none"]
  /\ pc' = [pc EXCEPT ![r] = "check"]
  /\ UNCHANGED <<api, serve, mu, leading, poller, manual, disruptions>>

-----------------------------------------------------------------------------
(* Restart called by IntegrationsHandler.ConnectDatadog on any replica; an *)
(* HTTP handler may outlive srv.Shutdown's deadline.                        *)

ApiRestart(r) ==
  /\ api[r] = "idle"
  /\ serve[r] # "down"
  /\ RestartEnter(r, "api")
  /\ api' = [api EXCEPT ![r] = "restarting"]
  /\ UNCHANGED <<lock, conn, pc, serve, leading, manual, disruptions>>

ApiRestarted(r) ==
  /\ api[r] = "restarting"
  /\ RestartOutcome(r)
  /\ api' = [api EXCEPT ![r] = "idle"]
  /\ UNCHANGED <<lock, conn, pc, serve, leading, manual, disruptions>>

-----------------------------------------------------------------------------
(* The serve command: shutdown, Stop, process exit, crash and boot.         *)

\* SIGTERM or a server error: the context is cancelled, srv.Shutdown runs.
Shutdown(r) ==
  /\ serve[r] = "up"
  /\ Disrupt
  /\ serve' = [serve EXCEPT ![r] = "shutdown"]
  /\ UNCHANGED <<lock, conn, pc, api, mu, leading, poller, manual>>

Stop(r) ==
  /\ serve[r] = "shutdown"
  /\ mu[r] = "free"
  /\ mu' = [mu EXCEPT ![r] = "serve"]
  /\ poller' = [poller EXCEPT ![r] = Cancel(@)]
  /\ serve' = [serve EXCEPT ![r] = "stopPoller"]
  /\ UNCHANGED <<lock, conn, pc, api, leading, manual, disruptions>>

StopPollerStopped(r) ==
  /\ serve[r] = "stopPoller"
  /\ Drained(poller[r])
  /\ poller' = [poller EXCEPT ![r] = Untrack(@)]
  /\ manual' = [manual EXCEPT ![r] = Cancel(@)]
  /\ serve' = [serve EXCEPT ![r] = "stopManual"]
  /\ UNCHANGED <<lock, conn, pc, api, mu, leading, disruptions>>

StopManualStopped(r) ==
  /\ serve[r] = "stopManual"
  /\ Drained(manual[r])
  /\ manual' = [manual EXCEPT ![r] = Untrack(@)]
  /\ mu' = [mu EXCEPT ![r] = "free"]
  /\ serve' = [serve EXCEPT ![r] = "stopped"]
  /\ UNCHANGED <<lock, conn, pc, api, leading, poller, disruptions>>

\* The process is gone and its goroutines with it; the server still has to
\* notice that the lock session is dead (ServerDropsSession).
Gone(r) ==
  /\ serve' = [serve EXCEPT ![r] = "down"]
  /\ conn' = [conn EXCEPT ![r] = "none"]
  /\ pc' = [pc EXCEPT ![r] = "returned"]
  /\ api' = [api EXCEPT ![r] = "idle"]
  /\ mu' = [mu EXCEPT ![r] = "free"]
  /\ leading' = [leading EXCEPT ![r] = FALSE]
  /\ poller' = [poller EXCEPT ![r] = NoJob]
  /\ manual' = [manual EXCEPT ![r] = NoJob]
  /\ UNCHANGED lock

Exit(r) == serve[r] = "stopped" /\ Gone(r) /\ UNCHANGED disruptions

Crash(r) == serve[r] # "down" /\ Disrupt /\ Gone(r)

Boot(r) ==
  /\ serve[r] = "down"
  /\ serve' = [serve EXCEPT ![r] = "up"]
  /\ pc' = [pc EXCEPT ![r] = "check"]
  /\ UNCHANGED <<lock, conn, api, mu, leading, poller, manual, disruptions>>

-----------------------------------------------------------------------------
(* Goroutines returning, and the database session.                          *)

PollerReturns(r) ==
  /\ \/ /\ poller[r].draining > 0
        /\ poller' = [poller EXCEPT ![r] = CancelledReturns(@)]
     \/ /\ CtxDone(r) /\ poller[r].live > 0
        /\ poller' = [poller EXCEPT ![r] = LiveReturns(@)]
  /\ UNCHANGED <<lock, conn, pc, api, serve, mu, leading, manual, disruptions>>

ManualReturns(r) ==
  /\ \/ /\ manual[r].draining > 0
        /\ manual' = [manual EXCEPT ![r] = CancelledReturns(@)]
     \/ /\ CtxDone(r) /\ manual[r].live > 0
        /\ manual' = [manual EXCEPT ![r] = LiveReturns(@)]
  /\ UNCHANGED <<lock, conn, pc, api, serve, mu, leading, poller, disruptions>>

\* The dedicated connection breaks under the leader.
SessionLost(r) ==
  /\ conn[r] = "up"
  /\ Disrupt
  /\ conn' = [conn EXCEPT ![r] = "down"]
  /\ UNCHANGED <<lock, pc, api, serve, mu, leading, poller, manual>>

\* Postgres ends a session whose client is gone and frees its locks.
ServerDropsSession(r) ==
  /\ lock = r
  /\ conn[r] # "up"
  /\ lock' = NoOne
  /\ UNCHANGED <<conn, pc, api, serve, mu, leading, poller, manual, disruptions>>

-----------------------------------------------------------------------------
LoopStep(r) ==
  \/ LoopCheck(r) \/ TryAcquireOk(r) \/ TryAcquireHeld(r)
  \/ startManualScheduler(r) \/ LoopRestart(r) \/ LoopRestarted(r)
  \/ Heartbeat(r) \/ LoseLeadership(r) \/ LoopPollerStopped(r)
  \/ LoopManualStopped(r) \/ Release(r)

ServeStep(r) ==
  Stop(r) \/ StopPollerStopped(r) \/ StopManualStopped(r) \/ Exit(r)

Disruption(r) ==
  TryAcquireError(r) \/ Shutdown(r) \/ Crash(r) \/ SessionLost(r)

Next ==
  \E r \in Replicas :
    \/ LoopStep(r) \/ ServeStep(r) \/ Disruption(r) \/ Boot(r)
    \/ ApiRestart(r) \/ ApiRestarted(r)
    \/ PollerReturns(r) \/ ManualReturns(r) \/ ServerDropsSession(r)

Spec == Init /\ [][Next]_vars

\* newPollerFromStoredIntegration eventually succeeds if tried forever.
BuildSucceeds(r) ==
  (LoopRestarted(r) \/ ApiRestarted(r)) /\ poller'[r].live > 0

\* Goroutines keep running, and a sync.Mutex does not starve a waiter: hence
\* strong fairness of the goroutines that take mu.  Nothing obliges an admin
\* to call the API, an operator to boot or stop a replica, or a fault to happen.
Fairness ==
  \A r \in Replicas :
    /\ SF_vars(LoopStep(r)) /\ SF_vars(ServeStep(r)) /\ SF_vars(BuildSucceeds(r))
    /\ WF_vars(ApiRestarted(r))
    /\ WF_vars(PollerReturns(r)) /\ WF_vars(ManualReturns(r))
    /\ WF_vars(ServerDropsSession(r))

FairSpec == Spec /\ Fairness

-----------------------------------------------------------------------------
(* Correctness.                                                             *)

Polling(r) == poller[r].live > 0 /\ ~CtxDone(r)

\* However Restart from the API, the leader loop and Stop interleave, a
\* replica never has two poller goroutines, nor two manual schedulers, not
\* even while one of them is still returning (stopLocked waits for done
\* before Restart spawns the next).
OneGoroutinePerJob ==
  \A r \in Replicas : Goroutines(poller[r]) <= 1 /\ Goroutines(manual[r]) <= 1

\* A poller whose context is alive runs only on a replica that believes it
\* leads: a Restart that races the loss of leadership cannot leave a poller
\* behind (leading is re-checked under mu).  The manual scheduler outlives
\* leading only while the same critical section waits for the poller.
WorkersOnlyWhileLeading ==
  \A r \in Replicas :
    /\ Polling(r) => leading[r]
    /\ (~CtxDone(r) /\ manual[r].live > 0) =>
         (leading[r] \/ (mu[r] = "loop" /\ poller[r].live = 0))

\* Two replicas poll at the same time only while one of them has lost its
\* lock session and has not noticed yet.
OnePollerPerHealthySession ==
  \A r, s \in Replicas :
    (Polling(r) /\ Polling(s) /\ r # s) => (conn[r] = "down" \/ conn[s] = "down")

\* A leader hands the lock over (its healthy session releases it) only after
\* every worker goroutine of its term has returned, unless the process dies.
HandoverAfterDrain ==
  [][\A r \in Replicas :
       (conn[r] = "up" /\ conn'[r] = "none" /\ serve'[r] # "down") =>
         Goroutines(poller[r]) = 0 /\ Goroutines(manual[r]) = 0]_vars

\* Reconnecting Datadog restarts the poller only: within a term the manual
\* scheduler, and the failure streaks it keeps in memory, survive.
ManualSurvivesRestart ==
  [][\A r \in Replicas :
       (manual[r].live > 0 /\ leading[r] /\ leading'[r] /\ serve'[r] = "up")
         => manual'[r] = manual[r]]_vars

\* A leader whose lock session died eventually stops its poller: nothing
\* (an API Restart included) keeps it polling without the lock.
LostSessionStopsPolling ==
  \A r \in Replicas : (conn[r] = "down") ~> (poller[r].live = 0)

\* Once disruptions cease, polling never stays stopped: while some replica is
\* up, again and again some replica polls, even if the poller could not be
\* built when leadership was acquired (the heartbeat retries Restart).
PollingResumes ==
  []<>((\E r \in Replicas : serve[r] = "up") => (\E r \in Replicas : Polling(r)))

=============================================================================
