------------------------ MODULE PollerManagerProofs ------------------------
(***************************************************************************)
(* Safety of PollerManager for every set of replicas and every number of   *)
(* disruptions.  Inv is the inductive invariant: it ties each control      *)
(* point to the holder of mu, to leading and to the lock session, and says *)
(* in which critical sections a job may be draining.                       *)
(***************************************************************************)
EXTENDS PollerManager, TLAPS

\* The control points of a leadership term, before leading is cleared.
TermPC == {"manual", "restart", "restarting", "heartbeat", "lost"}

\* mu is held exactly by the goroutine whose control point is inside one of
\* its critical sections.
MutexInv(r) ==
  /\ mu[r] = "loop" <=> pc[r] \in {"restarting", "drainPoller", "drainManual"}
  /\ mu[r] = "api" <=> api[r] = "restarting"
  /\ mu[r] = "serve" <=> serve[r] \in {"stopPoller", "stopManual"}
  /\ serve[r] = "down" => pc[r] = "returned"

\* leading is TRUE exactly during a term, and a handle exists exactly from
\* acquisition to release; a healthy handle owns the lock.
TermInv(r) ==
  /\ leading[r] <=> pc[r] \in TermPC
  /\ conn[r] # "none" <=>
       pc[r] \in TermPC \cup {"drainPoller", "drainManual", "release"}
  /\ conn[r] = "up" => lock = r
  /\ api[r] = "restarting" => leading[r]

\* A poller goroutine is always the tracked one, tracking ends with the term,
\* and while some critical section waits for it none is live.
PollerInv(r) ==
  /\ Goroutines(poller[r]) <= 1
  /\ Goroutines(poller[r]) = 1 => poller[r].tracked
  /\ poller[r].tracked => (leading[r] \/ pc[r] = "drainPoller")
  /\ pc[r] \in {"restarting", "drainPoller"} => poller[r].live = 0
  /\ api[r] = "restarting" => poller[r].live = 0
  /\ serve[r] \in {"stopPoller", "stopManual"} => poller[r].live = 0

ManualInv(r) ==
  /\ Goroutines(manual[r]) <= 1
  /\ Goroutines(manual[r]) = 1 => manual[r].tracked
  /\ manual[r].tracked => (leading[r] \/ pc[r] \in {"drainPoller", "drainManual"})
  /\ pc[r] = "drainManual" => manual[r].live = 0
  /\ serve[r] = "stopManual" => manual[r].live = 0

Inv ==
  /\ TypeOK
  /\ \A r \in Replicas : MutexInv(r) /\ TermInv(r) /\ PollerInv(r) /\ ManualInv(r)

-----------------------------------------------------------------------------
\* What the operations on a goroutine family do to its three fields.
LEMMA JobOps ==
  ASSUME NEW j \in Job
  PROVE  /\ j.tracked \in BOOLEAN /\ j.live \in Nat /\ j.draining \in Nat
         /\ Spawn(j) \in Job /\ Spawn(j).tracked
         /\ Spawn(j).live = j.live + 1 /\ Spawn(j).draining = j.draining
         /\ Untrack(j) \in Job /\ ~Untrack(j).tracked
         /\ Untrack(j).live = j.live /\ Untrack(j).draining = j.draining
         /\ Cancel(j) \in Job /\ (Cancel(j).tracked <=> j.tracked)
         /\ (j.tracked /\ j.live > 0) =>
              Cancel(j).live = j.live - 1 /\ Cancel(j).draining = j.draining + 1
         /\ ~(j.tracked /\ j.live > 0) => Cancel(j) = j
         /\ j.draining > 0 =>
              /\ CancelledReturns(j) \in Job /\ CancelledReturns(j).live = j.live
              /\ CancelledReturns(j).draining = j.draining - 1
              /\ CancelledReturns(j).tracked <=> j.tracked
         /\ j.live > 0 =>
              /\ LiveReturns(j) \in Job /\ LiveReturns(j).live = j.live - 1
              /\ LiveReturns(j).draining = j.draining
              /\ LiveReturns(j).tracked <=> j.tracked
<1>1. j.tracked \in BOOLEAN /\ j.live \in Nat /\ j.draining \in Nat
  BY DEF Job
<1>2. /\ Spawn(j) \in Job /\ Spawn(j).tracked
      /\ Spawn(j).live = j.live + 1 /\ Spawn(j).draining = j.draining
  BY <1>1 DEF Job, Spawn
<1>3. /\ Untrack(j) \in Job /\ ~Untrack(j).tracked
      /\ Untrack(j).live = j.live /\ Untrack(j).draining = j.draining
  BY <1>1 DEF Job, Untrack
<1>ret. /\ j.draining > 0 =>
              /\ CancelledReturns(j) \in Job /\ CancelledReturns(j).live = j.live
              /\ CancelledReturns(j).draining = j.draining - 1
              /\ CancelledReturns(j).tracked = j.tracked
        /\ j.live > 0 =>
              /\ LiveReturns(j) \in Job /\ LiveReturns(j).live = j.live - 1
              /\ LiveReturns(j).draining = j.draining
              /\ LiveReturns(j).tracked = j.tracked
  BY <1>1 DEF Job, CancelledReturns, LiveReturns
<1>4. CASE j.tracked /\ j.live > 0
  <2>1. Cancel(j) = [tracked |-> TRUE, live |-> j.live - 1, draining |-> j.draining + 1]
    BY <1>4 DEF Cancel
  <2>2. /\ Cancel(j) \in Job /\ Cancel(j).tracked
        /\ Cancel(j).live = j.live - 1 /\ Cancel(j).draining = j.draining + 1
    BY <1>1, <1>4, <2>1 DEF Job
  <2> QED BY <1>1, <1>2, <1>3, <1>ret, <1>4, <2>2
<1>5. CASE ~(j.tracked /\ j.live > 0)
  BY <1>1, <1>2, <1>3, <1>ret, <1>5 DEF Cancel
<1> QED BY <1>4, <1>5

\* Cancelling the only goroutine, which is tracked, leaves none live.
LEMMA CancelLeavesNoneLive ==
  ASSUME NEW j \in Job, j.live + j.draining <= 1,
         (j.live + j.draining = 1) => j.tracked
  PROVE  /\ Cancel(j).live = 0
         /\ Cancel(j).live + Cancel(j).draining = j.live + j.draining
  BY JobOps

\* The initial states satisfy the inductive invariant.
LEMMA InvInit == Init => Inv
<1> SUFFICES ASSUME Init PROVE Inv
  OBVIOUS
<1>1. NoJob \in Job /\ ~NoJob.tracked /\ NoJob.live = 0 /\ NoJob.draining = 0
  BY DEF Job, NoJob
<1>2. TypeOK
  BY <1>1 DEF Init, TypeOK, LoopPC, ServePC
<1>3. ASSUME NEW r \in Replicas
      PROVE  MutexInv(r) /\ TermInv(r) /\ PollerInv(r) /\ ManualInv(r)
  BY <1>1 DEF Init, MutexInv, TermInv, PollerInv, ManualInv, TermPC, Goroutines
<1> QED BY <1>2, <1>3 DEF Inv

\* Every step of every replica preserves the inductive invariant: one case
\* per action; JobOps supplies what the action does to the job it touches.
LEMMA InvNext == Inv /\ [Next]_vars => Inv'
<1> SUFFICES ASSUME Inv, [Next]_vars PROVE Inv'
  OBVIOUS
<1>type. TypeOK
  BY DEF Inv
<1>inv. \A r \in Replicas : MutexInv(r) /\ TermInv(r) /\ PollerInv(r) /\ ManualInv(r)
  BY DEF Inv
<1>nojob. NoJob \in Job /\ ~NoJob.tracked /\ NoJob.live = 0 /\ NoJob.draining = 0
  BY DEF Job, NoJob
<1>jobs. ASSUME NEW r \in Replicas
         PROVE  poller[r] \in Job /\ manual[r] \in Job
  BY <1>type DEF TypeOK
<1>stutter. CASE UNCHANGED vars
  BY <1>stutter, <1>type, <1>inv
  DEF vars, Inv, TypeOK, MutexInv, TermInv, PollerInv, ManualInv, Goroutines, TermPC
<1>1. ASSUME NEW r \in Replicas, LoopCheck(r) PROVE Inv'
  <2>1. TypeOK'
    BY <1>1, <1>type, <1>jobs DEF TypeOK, LoopPC, ServePC, LoopCheck
  <2>2. ASSUME NEW s \in Replicas PROVE MutexInv(s)' /\ TermInv(s)'
    BY <1>1, <1>type, <1>inv DEF TypeOK, MutexInv, TermInv, TermPC, LoopCheck
  <2>3. ASSUME NEW s \in Replicas PROVE PollerInv(s)' /\ ManualInv(s)'
    <3>1. CASE s = r
      BY <1>1, <1>type, <1>inv, <3>1, <1>jobs, JobOps
      DEF TypeOK, MutexInv, TermInv, TermPC, PollerInv, ManualInv, Goroutines, LoopCheck
    <3>2. CASE s # r
      BY <1>1, <1>type, <1>inv, <3>2
      DEF TypeOK, PollerInv, ManualInv, Goroutines, LoopCheck
    <3> QED BY <3>1, <3>2
  <2> QED BY <2>1, <2>2, <2>3 DEF Inv
<1>2. ASSUME NEW r \in Replicas, TryAcquireOk(r) PROVE Inv'
  <2>1. TypeOK'
    BY <1>2, <1>type, <1>jobs DEF TypeOK, LoopPC, ServePC, TryAcquireOk
  <2>2. ASSUME NEW s \in Replicas PROVE MutexInv(s)' /\ TermInv(s)'
    BY <1>2, <1>type, <1>inv, NoOneAssumption DEF TypeOK, MutexInv, TermInv, TermPC, TryAcquireOk
  <2>3. ASSUME NEW s \in Replicas PROVE PollerInv(s)' /\ ManualInv(s)'
    <3>1. CASE s = r
      BY <1>2, <1>type, <1>inv, <3>1, <1>jobs, JobOps
      DEF TypeOK, MutexInv, TermInv, TermPC, PollerInv, ManualInv, Goroutines, TryAcquireOk
    <3>2. CASE s # r
      BY <1>2, <1>type, <1>inv, <3>2
      DEF TypeOK, PollerInv, ManualInv, Goroutines, TryAcquireOk
    <3> QED BY <3>1, <3>2
  <2> QED BY <2>1, <2>2, <2>3 DEF Inv
<1>3. ASSUME NEW r \in Replicas, TryAcquireHeld(r) PROVE Inv'
  <2>1. TypeOK'
    BY <1>3, <1>type, <1>jobs DEF TypeOK, LoopPC, ServePC, TryAcquireHeld
  <2>2. ASSUME NEW s \in Replicas PROVE MutexInv(s)' /\ TermInv(s)'
    BY <1>3, <1>type, <1>inv, NoOneAssumption DEF TypeOK, MutexInv, TermInv, TermPC, TryAcquireHeld
  <2>3. ASSUME NEW s \in Replicas PROVE PollerInv(s)' /\ ManualInv(s)'
    <3>1. CASE s = r
      BY <1>3, <1>type, <1>inv, <3>1, <1>jobs, JobOps
      DEF TypeOK, MutexInv, TermInv, TermPC, PollerInv, ManualInv, Goroutines, TryAcquireHeld
    <3>2. CASE s # r
      BY <1>3, <1>type, <1>inv, <3>2
      DEF TypeOK, PollerInv, ManualInv, Goroutines, TryAcquireHeld
    <3> QED BY <3>1, <3>2
  <2> QED BY <2>1, <2>2, <2>3 DEF Inv
<1>4. ASSUME NEW r \in Replicas, TryAcquireError(r) PROVE Inv'
  <2>1. TypeOK'
    BY <1>4, <1>type, <1>jobs DEF TypeOK, LoopPC, ServePC, TryAcquireError, Disrupt
  <2>2. ASSUME NEW s \in Replicas PROVE MutexInv(s)' /\ TermInv(s)'
    BY <1>4, <1>type, <1>inv, NoOneAssumption DEF TypeOK, MutexInv, TermInv, TermPC, TryAcquireError, Disrupt
  <2>3. ASSUME NEW s \in Replicas PROVE PollerInv(s)' /\ ManualInv(s)'
    <3>1. CASE s = r
      BY <1>4, <1>type, <1>inv, <3>1, <1>jobs, JobOps
      DEF TypeOK, MutexInv, TermInv, TermPC, PollerInv, ManualInv, Goroutines, TryAcquireError, Disrupt
    <3>2. CASE s # r
      BY <1>4, <1>type, <1>inv, <3>2
      DEF TypeOK, PollerInv, ManualInv, Goroutines, TryAcquireError, Disrupt
    <3> QED BY <3>1, <3>2
  <2> QED BY <2>1, <2>2, <2>3 DEF Inv
<1>5. ASSUME NEW r \in Replicas, startManualScheduler(r) PROVE Inv'
  <2>1. TypeOK'
    BY <1>5, <1>type, <1>jobs, JobOps DEF TypeOK, LoopPC, ServePC, startManualScheduler
  <2>2. ASSUME NEW s \in Replicas PROVE MutexInv(s)' /\ TermInv(s)'
    BY <1>5, <1>type, <1>inv DEF TypeOK, MutexInv, TermInv, TermPC, startManualScheduler
  <2>3. ASSUME NEW s \in Replicas PROVE PollerInv(s)' /\ ManualInv(s)'
    <3>1. CASE s = r
      BY <1>5, <1>type, <1>inv, <3>1, <1>jobs, JobOps
      DEF TypeOK, MutexInv, TermInv, TermPC, PollerInv, ManualInv, Goroutines, startManualScheduler
    <3>2. CASE s # r
      BY <1>5, <1>type, <1>inv, <3>2
      DEF TypeOK, PollerInv, ManualInv, Goroutines, startManualScheduler
    <3> QED BY <3>1, <3>2
  <2> QED BY <2>1, <2>2, <2>3 DEF Inv
<1>6. ASSUME NEW r \in Replicas, LoopRestart(r) PROVE Inv'
  <2>1. TypeOK'
    BY <1>6, <1>type, <1>jobs, JobOps DEF TypeOK, LoopPC, ServePC, LoopRestart, RestartEnter
  <2>2. ASSUME NEW s \in Replicas PROVE MutexInv(s)' /\ TermInv(s)'
    BY <1>6, <1>type, <1>inv DEF TypeOK, MutexInv, TermInv, TermPC, LoopRestart, RestartEnter
  <2>3. ASSUME NEW s \in Replicas PROVE PollerInv(s)' /\ ManualInv(s)'
    <3>1. CASE s = r
      BY <1>6, <1>type, <1>inv, <3>1, <1>jobs, JobOps, CancelLeavesNoneLive
      DEF TypeOK, MutexInv, TermInv, TermPC, PollerInv, ManualInv, Goroutines, LoopRestart, RestartEnter
    <3>2. CASE s # r
      BY <1>6, <1>type, <1>inv, <3>2
      DEF TypeOK, PollerInv, ManualInv, Goroutines, LoopRestart, RestartEnter
    <3> QED BY <3>1, <3>2
  <2> QED BY <2>1, <2>2, <2>3 DEF Inv
<1>7. ASSUME NEW r \in Replicas, LoopRestarted(r) PROVE Inv'
  <2>1. TypeOK'
    BY <1>7, <1>type, <1>jobs, JobOps DEF TypeOK, LoopPC, ServePC, LoopRestarted, RestartOutcome, Drained
  <2>2. ASSUME NEW s \in Replicas PROVE MutexInv(s)' /\ TermInv(s)'
    BY <1>7, <1>type, <1>inv DEF TypeOK, MutexInv, TermInv, TermPC, LoopRestarted, RestartOutcome, Drained
  <2>3. ASSUME NEW s \in Replicas PROVE PollerInv(s)' /\ ManualInv(s)'
    <3>1. CASE s = r
      BY <1>7, <1>type, <1>inv, <3>1, <1>jobs, JobOps
      DEF TypeOK, MutexInv, TermInv, TermPC, PollerInv, ManualInv, Goroutines, LoopRestarted, RestartOutcome, Drained
    <3>2. CASE s # r
      BY <1>7, <1>type, <1>inv, <3>2
      DEF TypeOK, PollerInv, ManualInv, Goroutines, LoopRestarted, RestartOutcome, Drained
    <3> QED BY <3>1, <3>2
  <2> QED BY <2>1, <2>2, <2>3 DEF Inv
<1>8. ASSUME NEW r \in Replicas, Heartbeat(r) PROVE Inv'
  <2>1. TypeOK'
    BY <1>8, <1>type, <1>jobs DEF TypeOK, LoopPC, ServePC, Heartbeat
  <2>2. ASSUME NEW s \in Replicas PROVE MutexInv(s)' /\ TermInv(s)'
    BY <1>8, <1>type, <1>inv DEF TypeOK, MutexInv, TermInv, TermPC, Heartbeat
  <2>3. ASSUME NEW s \in Replicas PROVE PollerInv(s)' /\ ManualInv(s)'
    <3>1. CASE s = r
      BY <1>8, <1>type, <1>inv, <3>1, <1>jobs, JobOps
      DEF TypeOK, MutexInv, TermInv, TermPC, PollerInv, ManualInv, Goroutines, Heartbeat
    <3>2. CASE s # r
      BY <1>8, <1>type, <1>inv, <3>2
      DEF TypeOK, PollerInv, ManualInv, Goroutines, Heartbeat
    <3> QED BY <3>1, <3>2
  <2> QED BY <2>1, <2>2, <2>3 DEF Inv
<1>9. ASSUME NEW r \in Replicas, LoseLeadership(r) PROVE Inv'
  <2>1. TypeOK'
    BY <1>9, <1>type, <1>jobs, JobOps DEF TypeOK, LoopPC, ServePC, LoseLeadership
  <2>2. ASSUME NEW s \in Replicas PROVE MutexInv(s)' /\ TermInv(s)'
    BY <1>9, <1>type, <1>inv DEF TypeOK, MutexInv, TermInv, TermPC, LoseLeadership
  <2>3. ASSUME NEW s \in Replicas PROVE PollerInv(s)' /\ ManualInv(s)'
    <3>1. CASE s = r
      BY <1>9, <1>type, <1>inv, <3>1, <1>jobs, JobOps, CancelLeavesNoneLive
      DEF TypeOK, MutexInv, TermInv, TermPC, PollerInv, ManualInv, Goroutines, LoseLeadership
    <3>2. CASE s # r
      BY <1>9, <1>type, <1>inv, <3>2
      DEF TypeOK, PollerInv, ManualInv, Goroutines, LoseLeadership
    <3> QED BY <3>1, <3>2
  <2> QED BY <2>1, <2>2, <2>3 DEF Inv
<1>10. ASSUME NEW r \in Replicas, LoopPollerStopped(r) PROVE Inv'
  <2>1. TypeOK'
    BY <1>10, <1>type, <1>jobs, JobOps DEF TypeOK, LoopPC, ServePC, LoopPollerStopped, Drained
  <2>2. ASSUME NEW s \in Replicas PROVE MutexInv(s)' /\ TermInv(s)'
    BY <1>10, <1>type, <1>inv DEF TypeOK, MutexInv, TermInv, TermPC, LoopPollerStopped, Drained
  <2>3. ASSUME NEW s \in Replicas PROVE PollerInv(s)' /\ ManualInv(s)'
    <3>1. CASE s = r
      <4>1. /\ poller'[r] = Untrack(poller[r]) /\ manual'[r] = Cancel(manual[r])
            /\ poller[r] \in Job /\ manual[r] \in Job
        BY <1>10, <1>type, <1>jobs DEF TypeOK, LoopPollerStopped, Drained
      <4>2. PollerInv(s)'
        BY <1>10, <1>type, <1>inv, <3>1, <4>1, JobOps
        DEF TypeOK, MutexInv, TermInv, TermPC, PollerInv, Goroutines, LoopPollerStopped, Drained
      <4>3. ManualInv(s)'
        BY <1>10, <1>type, <1>inv, <3>1, <4>1, JobOps, CancelLeavesNoneLive
        DEF TypeOK, MutexInv, TermInv, TermPC, ManualInv, Goroutines, LoopPollerStopped, Drained
      <4> QED BY <4>2, <4>3
    <3>2. CASE s # r
      BY <1>10, <1>type, <1>inv, <3>2
      DEF TypeOK, PollerInv, ManualInv, Goroutines, LoopPollerStopped, Drained
    <3> QED BY <3>1, <3>2
  <2> QED BY <2>1, <2>2, <2>3 DEF Inv
<1>11. ASSUME NEW r \in Replicas, LoopManualStopped(r) PROVE Inv'
  <2>1. TypeOK'
    BY <1>11, <1>type, <1>jobs, JobOps DEF TypeOK, LoopPC, ServePC, LoopManualStopped, Drained
  <2>2. ASSUME NEW s \in Replicas PROVE MutexInv(s)' /\ TermInv(s)'
    BY <1>11, <1>type, <1>inv DEF TypeOK, MutexInv, TermInv, TermPC, LoopManualStopped, Drained
  <2>3. ASSUME NEW s \in Replicas PROVE PollerInv(s)' /\ ManualInv(s)'
    <3>1. CASE s = r
      BY <1>11, <1>type, <1>inv, <3>1, <1>jobs, JobOps
      DEF TypeOK, MutexInv, TermInv, TermPC, PollerInv, ManualInv, Goroutines, LoopManualStopped, Drained
    <3>2. CASE s # r
      BY <1>11, <1>type, <1>inv, <3>2
      DEF TypeOK, PollerInv, ManualInv, Goroutines, LoopManualStopped, Drained
    <3> QED BY <3>1, <3>2
  <2> QED BY <2>1, <2>2, <2>3 DEF Inv
<1>12. ASSUME NEW r \in Replicas, Release(r) PROVE Inv'
  <2>1. TypeOK'
    BY <1>12, <1>type, <1>jobs DEF TypeOK, LoopPC, ServePC, Release
  <2>2. ASSUME NEW s \in Replicas PROVE MutexInv(s)' /\ TermInv(s)'
    BY <1>12, <1>type, <1>inv DEF TypeOK, MutexInv, TermInv, TermPC, Release
  <2>3. ASSUME NEW s \in Replicas PROVE PollerInv(s)' /\ ManualInv(s)'
    <3>1. CASE s = r
      BY <1>12, <1>type, <1>inv, <3>1, <1>jobs, JobOps
      DEF TypeOK, MutexInv, TermInv, TermPC, PollerInv, ManualInv, Goroutines, Release
    <3>2. CASE s # r
      BY <1>12, <1>type, <1>inv, <3>2
      DEF TypeOK, PollerInv, ManualInv, Goroutines, Release
    <3> QED BY <3>1, <3>2
  <2> QED BY <2>1, <2>2, <2>3 DEF Inv
<1>13. ASSUME NEW r \in Replicas, ApiRestart(r) PROVE Inv'
  <2>1. TypeOK'
    BY <1>13, <1>type, <1>jobs, JobOps DEF TypeOK, LoopPC, ServePC, ApiRestart, RestartEnter
  <2>2. ASSUME NEW s \in Replicas PROVE MutexInv(s)' /\ TermInv(s)'
    BY <1>13, <1>type, <1>inv DEF TypeOK, MutexInv, TermInv, TermPC, ApiRestart, RestartEnter
  <2>3. ASSUME NEW s \in Replicas PROVE PollerInv(s)' /\ ManualInv(s)'
    <3>1. CASE s = r
      BY <1>13, <1>type, <1>inv, <3>1, <1>jobs, JobOps, CancelLeavesNoneLive
      DEF TypeOK, MutexInv, TermInv, TermPC, PollerInv, ManualInv, Goroutines, ApiRestart, RestartEnter
    <3>2. CASE s # r
      BY <1>13, <1>type, <1>inv, <3>2
      DEF TypeOK, PollerInv, ManualInv, Goroutines, ApiRestart, RestartEnter
    <3> QED BY <3>1, <3>2
  <2> QED BY <2>1, <2>2, <2>3 DEF Inv
<1>14. ASSUME NEW r \in Replicas, ApiRestarted(r) PROVE Inv'
  <2>1. TypeOK'
    BY <1>14, <1>type, <1>jobs, JobOps DEF TypeOK, LoopPC, ServePC, ApiRestarted, RestartOutcome, Drained
  <2>2. ASSUME NEW s \in Replicas PROVE MutexInv(s)' /\ TermInv(s)'
    BY <1>14, <1>type, <1>inv DEF TypeOK, MutexInv, TermInv, TermPC, ApiRestarted, RestartOutcome, Drained
  <2>3. ASSUME NEW s \in Replicas PROVE PollerInv(s)' /\ ManualInv(s)'
    <3>1. CASE s = r
      BY <1>14, <1>type, <1>inv, <3>1, <1>jobs, JobOps
      DEF TypeOK, MutexInv, TermInv, TermPC, PollerInv, ManualInv, Goroutines, ApiRestarted, RestartOutcome, Drained
    <3>2. CASE s # r
      BY <1>14, <1>type, <1>inv, <3>2
      DEF TypeOK, PollerInv, ManualInv, Goroutines, ApiRestarted, RestartOutcome, Drained
    <3> QED BY <3>1, <3>2
  <2> QED BY <2>1, <2>2, <2>3 DEF Inv
<1>15. ASSUME NEW r \in Replicas, Shutdown(r) PROVE Inv'
  <2>1. TypeOK'
    BY <1>15, <1>type, <1>jobs DEF TypeOK, LoopPC, ServePC, Shutdown, Disrupt
  <2>2. ASSUME NEW s \in Replicas PROVE MutexInv(s)' /\ TermInv(s)'
    BY <1>15, <1>type, <1>inv DEF TypeOK, MutexInv, TermInv, TermPC, Shutdown, Disrupt
  <2>3. ASSUME NEW s \in Replicas PROVE PollerInv(s)' /\ ManualInv(s)'
    <3>1. CASE s = r
      BY <1>15, <1>type, <1>inv, <3>1, <1>jobs, JobOps
      DEF TypeOK, MutexInv, TermInv, TermPC, PollerInv, ManualInv, Goroutines, Shutdown, Disrupt
    <3>2. CASE s # r
      BY <1>15, <1>type, <1>inv, <3>2
      DEF TypeOK, PollerInv, ManualInv, Goroutines, Shutdown, Disrupt
    <3> QED BY <3>1, <3>2
  <2> QED BY <2>1, <2>2, <2>3 DEF Inv
<1>16. ASSUME NEW r \in Replicas, Stop(r) PROVE Inv'
  <2>1. TypeOK'
    BY <1>16, <1>type, <1>jobs, JobOps DEF TypeOK, LoopPC, ServePC, Stop
  <2>2. ASSUME NEW s \in Replicas PROVE MutexInv(s)' /\ TermInv(s)'
    BY <1>16, <1>type, <1>inv DEF TypeOK, MutexInv, TermInv, TermPC, Stop
  <2>3. ASSUME NEW s \in Replicas PROVE PollerInv(s)' /\ ManualInv(s)'
    <3>1. CASE s = r
      BY <1>16, <1>type, <1>inv, <3>1, <1>jobs, JobOps, CancelLeavesNoneLive
      DEF TypeOK, MutexInv, TermInv, TermPC, PollerInv, ManualInv, Goroutines, Stop
    <3>2. CASE s # r
      BY <1>16, <1>type, <1>inv, <3>2
      DEF TypeOK, PollerInv, ManualInv, Goroutines, Stop
    <3> QED BY <3>1, <3>2
  <2> QED BY <2>1, <2>2, <2>3 DEF Inv
<1>17. ASSUME NEW r \in Replicas, StopPollerStopped(r) PROVE Inv'
  <2>1. TypeOK'
    BY <1>17, <1>type, <1>jobs, JobOps DEF TypeOK, LoopPC, ServePC, StopPollerStopped, Drained
  <2>2. ASSUME NEW s \in Replicas PROVE MutexInv(s)' /\ TermInv(s)'
    BY <1>17, <1>type, <1>inv DEF TypeOK, MutexInv, TermInv, TermPC, StopPollerStopped, Drained
  <2>3. ASSUME NEW s \in Replicas PROVE PollerInv(s)' /\ ManualInv(s)'
    <3>1. CASE s = r
      <4>1. /\ poller'[r] = Untrack(poller[r]) /\ manual'[r] = Cancel(manual[r])
            /\ poller[r] \in Job /\ manual[r] \in Job
        BY <1>17, <1>type, <1>jobs DEF TypeOK, StopPollerStopped, Drained
      <4>2. PollerInv(s)'
        BY <1>17, <1>type, <1>inv, <3>1, <4>1, JobOps
        DEF TypeOK, MutexInv, TermInv, TermPC, PollerInv, Goroutines, StopPollerStopped, Drained
      <4>3. ManualInv(s)'
        BY <1>17, <1>type, <1>inv, <3>1, <4>1, JobOps, CancelLeavesNoneLive
        DEF TypeOK, MutexInv, TermInv, TermPC, ManualInv, Goroutines, StopPollerStopped, Drained
      <4> QED BY <4>2, <4>3
    <3>2. CASE s # r
      BY <1>17, <1>type, <1>inv, <3>2
      DEF TypeOK, PollerInv, ManualInv, Goroutines, StopPollerStopped, Drained
    <3> QED BY <3>1, <3>2
  <2> QED BY <2>1, <2>2, <2>3 DEF Inv
<1>18. ASSUME NEW r \in Replicas, StopManualStopped(r) PROVE Inv'
  <2>1. TypeOK'
    BY <1>18, <1>type, <1>jobs, JobOps DEF TypeOK, LoopPC, ServePC, StopManualStopped, Drained
  <2>2. ASSUME NEW s \in Replicas PROVE MutexInv(s)' /\ TermInv(s)'
    BY <1>18, <1>type, <1>inv DEF TypeOK, MutexInv, TermInv, TermPC, StopManualStopped, Drained
  <2>3. ASSUME NEW s \in Replicas PROVE PollerInv(s)' /\ ManualInv(s)'
    <3>1. CASE s = r
      BY <1>18, <1>type, <1>inv, <3>1, <1>jobs, JobOps
      DEF TypeOK, MutexInv, TermInv, TermPC, PollerInv, ManualInv, Goroutines, StopManualStopped, Drained
    <3>2. CASE s # r
      BY <1>18, <1>type, <1>inv, <3>2
      DEF TypeOK, PollerInv, ManualInv, Goroutines, StopManualStopped, Drained
    <3> QED BY <3>1, <3>2
  <2> QED BY <2>1, <2>2, <2>3 DEF Inv
<1>19. ASSUME NEW r \in Replicas, Exit(r) PROVE Inv'
  <2>1. TypeOK'
    BY <1>19, <1>type, <1>jobs, <1>nojob DEF TypeOK, LoopPC, ServePC, Exit, Gone
  <2>2. ASSUME NEW s \in Replicas PROVE MutexInv(s)' /\ TermInv(s)'
    BY <1>19, <1>type, <1>inv DEF TypeOK, MutexInv, TermInv, TermPC, Exit, Gone
  <2>3. ASSUME NEW s \in Replicas PROVE PollerInv(s)' /\ ManualInv(s)'
    <3>1. CASE s = r
      BY <1>19, <1>type, <1>inv, <3>1, <1>jobs, JobOps, <1>nojob
      DEF TypeOK, MutexInv, TermInv, TermPC, PollerInv, ManualInv, Goroutines, Exit, Gone
    <3>2. CASE s # r
      BY <1>19, <1>type, <1>inv, <3>2
      DEF TypeOK, PollerInv, ManualInv, Goroutines, Exit, Gone
    <3> QED BY <3>1, <3>2
  <2> QED BY <2>1, <2>2, <2>3 DEF Inv
<1>20. ASSUME NEW r \in Replicas, Crash(r) PROVE Inv'
  <2>1. TypeOK'
    BY <1>20, <1>type, <1>jobs, <1>nojob DEF TypeOK, LoopPC, ServePC, Crash, Gone, Disrupt
  <2>2. ASSUME NEW s \in Replicas PROVE MutexInv(s)' /\ TermInv(s)'
    BY <1>20, <1>type, <1>inv DEF TypeOK, MutexInv, TermInv, TermPC, Crash, Gone, Disrupt
  <2>3. ASSUME NEW s \in Replicas PROVE PollerInv(s)' /\ ManualInv(s)'
    <3>1. CASE s = r
      BY <1>20, <1>type, <1>inv, <3>1, <1>jobs, JobOps, <1>nojob
      DEF TypeOK, MutexInv, TermInv, TermPC, PollerInv, ManualInv, Goroutines, Crash, Gone, Disrupt
    <3>2. CASE s # r
      BY <1>20, <1>type, <1>inv, <3>2
      DEF TypeOK, PollerInv, ManualInv, Goroutines, Crash, Gone, Disrupt
    <3> QED BY <3>1, <3>2
  <2> QED BY <2>1, <2>2, <2>3 DEF Inv
<1>21. ASSUME NEW r \in Replicas, Boot(r) PROVE Inv'
  <2>1. TypeOK'
    BY <1>21, <1>type, <1>jobs DEF TypeOK, LoopPC, ServePC, Boot
  <2>2. ASSUME NEW s \in Replicas PROVE MutexInv(s)' /\ TermInv(s)'
    BY <1>21, <1>type, <1>inv DEF TypeOK, MutexInv, TermInv, TermPC, Boot
  <2>3. ASSUME NEW s \in Replicas PROVE PollerInv(s)' /\ ManualInv(s)'
    <3>1. CASE s = r
      BY <1>21, <1>type, <1>inv, <3>1, <1>jobs, JobOps
      DEF TypeOK, MutexInv, TermInv, TermPC, PollerInv, ManualInv, Goroutines, Boot
    <3>2. CASE s # r
      BY <1>21, <1>type, <1>inv, <3>2
      DEF TypeOK, PollerInv, ManualInv, Goroutines, Boot
    <3> QED BY <3>1, <3>2
  <2> QED BY <2>1, <2>2, <2>3 DEF Inv
<1>22. ASSUME NEW r \in Replicas, PollerReturns(r) PROVE Inv'
  <2>1. TypeOK'
    BY <1>22, <1>type, <1>jobs, JobOps DEF TypeOK, LoopPC, ServePC, PollerReturns, CtxDone
  <2>2. ASSUME NEW s \in Replicas PROVE MutexInv(s)' /\ TermInv(s)'
    BY <1>22, <1>type, <1>inv DEF TypeOK, MutexInv, TermInv, TermPC, PollerReturns, CtxDone
  <2>3. ASSUME NEW s \in Replicas PROVE PollerInv(s)' /\ ManualInv(s)'
    <3>1. CASE s = r
      BY <1>22, <1>type, <1>inv, <3>1, <1>jobs, JobOps
      DEF TypeOK, MutexInv, TermInv, TermPC, PollerInv, ManualInv, Goroutines, PollerReturns, CtxDone
    <3>2. CASE s # r
      BY <1>22, <1>type, <1>inv, <3>2
      DEF TypeOK, PollerInv, ManualInv, Goroutines, PollerReturns, CtxDone
    <3> QED BY <3>1, <3>2
  <2> QED BY <2>1, <2>2, <2>3 DEF Inv
<1>23. ASSUME NEW r \in Replicas, ManualReturns(r) PROVE Inv'
  <2>1. TypeOK'
    BY <1>23, <1>type, <1>jobs, JobOps DEF TypeOK, LoopPC, ServePC, ManualReturns, CtxDone
  <2>2. ASSUME NEW s \in Replicas PROVE MutexInv(s)' /\ TermInv(s)'
    BY <1>23, <1>type, <1>inv DEF TypeOK, MutexInv, TermInv, TermPC, ManualReturns, CtxDone
  <2>3. ASSUME NEW s \in Replicas PROVE PollerInv(s)' /\ ManualInv(s)'
    <3>1. CASE s = r
      <4>1. PollerInv(s)'
        BY <1>23, <1>inv, <3>1 DEF PollerInv, Goroutines, ManualReturns, CtxDone
      <4>2. manual[r] \in Job /\ manual[r].live + manual[r].draining <= 1
        BY <1>jobs, <1>inv DEF ManualInv, Goroutines
      <4>3. ManualInv(s)'
        BY <1>23, <1>type, <1>inv, <3>1, <4>2, JobOps
        DEF TypeOK, ManualInv, Goroutines, ManualReturns, CtxDone
      <4> QED BY <4>1, <4>3
    <3>2. CASE s # r
      BY <1>23, <1>type, <1>inv, <3>2
      DEF TypeOK, PollerInv, ManualInv, Goroutines, ManualReturns, CtxDone
    <3> QED BY <3>1, <3>2
  <2> QED BY <2>1, <2>2, <2>3 DEF Inv
<1>24. ASSUME NEW r \in Replicas, SessionLost(r) PROVE Inv'
  <2>1. TypeOK'
    BY <1>24, <1>type, <1>jobs DEF TypeOK, LoopPC, ServePC, SessionLost, Disrupt
  <2>2. ASSUME NEW s \in Replicas PROVE MutexInv(s)' /\ TermInv(s)'
    BY <1>24, <1>type, <1>inv DEF TypeOK, MutexInv, TermInv, TermPC, SessionLost, Disrupt
  <2>3. ASSUME NEW s \in Replicas PROVE PollerInv(s)' /\ ManualInv(s)'
    <3>1. CASE s = r
      BY <1>24, <1>type, <1>inv, <3>1, <1>jobs, JobOps
      DEF TypeOK, MutexInv, TermInv, TermPC, PollerInv, ManualInv, Goroutines, SessionLost, Disrupt
    <3>2. CASE s # r
      BY <1>24, <1>type, <1>inv, <3>2
      DEF TypeOK, PollerInv, ManualInv, Goroutines, SessionLost, Disrupt
    <3> QED BY <3>1, <3>2
  <2> QED BY <2>1, <2>2, <2>3 DEF Inv
<1>25. ASSUME NEW r \in Replicas, ServerDropsSession(r) PROVE Inv'
  <2>1. TypeOK'
    BY <1>25, <1>type, <1>jobs DEF TypeOK, LoopPC, ServePC, ServerDropsSession
  <2>2. ASSUME NEW s \in Replicas PROVE MutexInv(s)' /\ TermInv(s)'
    BY <1>25, <1>type, <1>inv DEF TypeOK, MutexInv, TermInv, TermPC, ServerDropsSession
  <2>3. ASSUME NEW s \in Replicas PROVE PollerInv(s)' /\ ManualInv(s)'
    <3>1. CASE s = r
      BY <1>25, <1>type, <1>inv, <3>1, <1>jobs, JobOps
      DEF TypeOK, MutexInv, TermInv, TermPC, PollerInv, ManualInv, Goroutines, ServerDropsSession
    <3>2. CASE s # r
      BY <1>25, <1>type, <1>inv, <3>2
      DEF TypeOK, PollerInv, ManualInv, Goroutines, ServerDropsSession
    <3> QED BY <3>1, <3>2
  <2> QED BY <2>1, <2>2, <2>3 DEF Inv
<1> QED
  BY <1>stutter, <1>1, <1>2, <1>3, <1>4, <1>5, <1>6, <1>7, <1>8, <1>9, <1>10, <1>11, <1>12, <1>13, <1>14, <1>15, <1>16, <1>17, <1>18, <1>19, <1>20, <1>21, <1>22, <1>23, <1>24, <1>25
  DEF Next, LoopStep, ServeStep, Disruption


-----------------------------------------------------------------------------
\* Inv holds in every reachable state.
LEMMA InvAlways == Spec => []Inv
BY InvInit, InvNext, PTL DEF Spec

\* The state of every replica keeps its type.
THEOREM TypeCorrect == Spec => []TypeOK
<1>1. Inv => TypeOK
  BY DEF Inv
<1> QED BY <1>1, InvAlways, PTL

\* However the leader loop, an API Restart and Stop interleave on mu, no
\* replica ever has two goroutines of one job.
THEOREM OneGoroutine == Spec => []OneGoroutinePerJob
<1>1. Inv => OneGoroutinePerJob
  BY DEF Inv, OneGoroutinePerJob, PollerInv, ManualInv
<1> QED BY <1>1, InvAlways, PTL

\* No poller is left behind by a Restart that races the end of a term.
THEOREM WorkersLead == Spec => []WorkersOnlyWhileLeading
<1>1. ASSUME Inv, NEW r \in Replicas
      PROVE  /\ Polling(r) => leading[r]
             /\ (~CtxDone(r) /\ manual[r].live > 0) =>
                  (leading[r] \/ (mu[r] = "loop" /\ poller[r].live = 0))
  <2>1. poller[r] \in Job /\ manual[r] \in Job
    BY <1>1 DEF Inv, TypeOK
  <2>2. MutexInv(r) /\ PollerInv(r) /\ ManualInv(r)
    BY <1>1 DEF Inv
  <2>3. Polling(r) => leading[r]
    BY <2>1, <2>2, JobOps DEF Polling, PollerInv, Goroutines
  <2>4. manual[r].live > 0 => (leading[r] \/ (mu[r] = "loop" /\ poller[r].live = 0))
    BY <2>1, <2>2, JobOps DEF MutexInv, PollerInv, ManualInv, Goroutines
  <2> QED BY <2>3, <2>4
<1>2. Inv => WorkersOnlyWhileLeading
  BY <1>1 DEF WorkersOnlyWhileLeading
<1> QED BY <1>2, InvAlways, PTL

\* Two replicas poll at once only while one has lost its session unnoticed.
THEOREM OneHealthyPoller == Spec => []OnePollerPerHealthySession
<1>1. ASSUME Inv, NEW r \in Replicas, NEW s \in Replicas,
             Polling(r), Polling(s), r # s
      PROVE  conn[r] = "down" \/ conn[s] = "down"
  <2>1. /\ poller[r] \in Job /\ poller[s] \in Job
        /\ conn[r] \in {"none", "up", "down"} /\ conn[s] \in {"none", "up", "down"}
    BY <1>1 DEF Inv, TypeOK
  <2>2. PollerInv(r) /\ PollerInv(s) /\ TermInv(r) /\ TermInv(s)
    BY <1>1 DEF Inv
  <2>3. poller[r].tracked /\ poller[s].tracked
    BY <1>1, <2>1, <2>2, JobOps DEF Polling, PollerInv, Goroutines
  <2>4. conn[r] # "none" /\ conn[s] # "none"
    BY <2>2, <2>3 DEF PollerInv, TermInv, TermPC
  <2> QED BY <1>1, <2>1, <2>2, <2>4 DEF TermInv
<1>2. Inv => OnePollerPerHealthySession
  BY <1>1 DEF OnePollerPerHealthySession
<1> QED BY <1>2, InvAlways, PTL

\* A healthy session releases the lock only when both jobs have returned.
THEOREM HandoverSafe == Spec => HandoverAfterDrain
<1> DEFINE Step == \A r \in Replicas :
       (conn[r] = "up" /\ conn'[r] = "none" /\ serve'[r] # "down") =>
         Goroutines(poller[r]) = 0 /\ Goroutines(manual[r]) = 0
<1>1. ASSUME Inv, [Next]_vars, NEW r \in Replicas,
             conn[r] = "up", conn'[r] = "none", serve'[r] # "down"
      PROVE  Goroutines(poller[r]) = 0 /\ Goroutines(manual[r]) = 0
  <2>1. pc[r] = "release"
    BY <1>1
    DEF Inv, TypeOK, Next, vars, LoopStep, ServeStep, Disruption, LoopCheck, TryAcquireOk,
        TryAcquireHeld, TryAcquireError, startManualScheduler, LoopRestart,
        LoopRestarted, Heartbeat, LoseLeadership, LoopPollerStopped,
        LoopManualStopped, Release, ApiRestart, ApiRestarted, Shutdown, Stop,
        StopPollerStopped, StopManualStopped, Exit, Crash, Gone, Boot,
        PollerReturns, ManualReturns, SessionLost, ServerDropsSession
  <2>2. poller[r] \in Job /\ manual[r] \in Job
    BY <1>1 DEF Inv, TypeOK
  <2>3. TermInv(r) /\ PollerInv(r) /\ ManualInv(r)
    BY <1>1 DEF Inv
  <2>4. ~leading[r]
    BY <2>1, <2>3 DEF TermInv, TermPC
  <2>5. ~poller[r].tracked /\ ~manual[r].tracked
    BY <2>1, <2>3, <2>4 DEF PollerInv, ManualInv
  <2>6. Goroutines(poller[r]) \in Nat /\ Goroutines(manual[r]) \in Nat
    BY <2>2, JobOps DEF Goroutines
  <2> QED BY <2>3, <2>5, <2>6 DEF PollerInv, ManualInv
<1>2. Inv /\ [Next]_vars => [Step]_vars
  BY <1>1
<1>3. Spec => [][Step]_vars
  BY <1>2, InvAlways, PTL DEF Spec
<1> QED BY <1>3 DEF HandoverAfterDrain

\* Within a term only the end of the term touches the manual scheduler.
THEOREM ManualSurvives == Spec => ManualSurvivesRestart
<1> DEFINE Step == \A r \in Replicas :
       (manual[r].live > 0 /\ leading[r] /\ leading'[r] /\ serve'[r] = "up")
         => manual'[r] = manual[r]
<1>1. ASSUME Inv, [Next]_vars, NEW r \in Replicas,
             manual[r].live > 0, leading[r], leading'[r], serve'[r] = "up"
      PROVE  manual'[r] = manual[r]
  <2>1. /\ manual[r] \in Job /\ manual \in [Replicas -> Job]
        /\ leading \in [Replicas -> BOOLEAN] /\ serve \in [Replicas -> ServePC]
    BY <1>1 DEF Inv, TypeOK
  <2>2. TermInv(r) /\ ManualInv(r)
    BY <1>1 DEF Inv
  <2>3. manual[r].draining = 0 /\ manual[r].tracked
    BY <1>1, <2>1, <2>2, JobOps DEF ManualInv, Goroutines
  <2>4. pc[r] \notin {"drainPoller", "drainManual"}
    BY <1>1, <2>2 DEF TermInv, TermPC
  <2> QED
    BY <1>1, <2>1, <2>3, <2>4
    DEF Next, vars, LoopStep, ServeStep, Disruption, LoopCheck, TryAcquireOk,
        TryAcquireHeld, TryAcquireError, startManualScheduler, LoopRestart,
        LoopRestarted, Heartbeat, LoseLeadership, LoopPollerStopped,
        LoopManualStopped, Release, ApiRestart, ApiRestarted, Shutdown, Stop,
        StopPollerStopped, StopManualStopped, Exit, Crash, Gone, Boot, CtxDone,
        PollerReturns, ManualReturns, SessionLost, ServerDropsSession, ServePC
<1>2. Inv /\ [Next]_vars => [Step]_vars
  BY <1>1
<1>3. Spec => [][Step]_vars
  BY <1>2, InvAlways, PTL DEF Spec
<1> QED BY <1>3 DEF ManualSurvivesRestart
=============================================================================
