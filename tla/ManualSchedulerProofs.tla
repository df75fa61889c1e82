------------------------ MODULE ManualSchedulerProofs ------------------------
(***************************************************************************)
(* Theorems about ManualScheduler, for every number of services, tenants   *)
(* and connections and every threshold.                                    *)
(***************************************************************************)
EXTENDS ManualScheduler, FiniteSetTheorems, TLAPS

-----------------------------------------------------------------------------
(* The pool.                                                                *)

Taken == Holding({"tx", "recorded", "interval"})
Second == Holding({"interval"})

\* The holders of connections can be counted.
LEMMA HoldingFinite ==
  ASSUME NEW pcs
  PROVE  /\ IsFiniteSet(Holding(pcs)) /\ Cardinality(Holding(pcs)) \in Nat
         /\ Cardinality(Holding(pcs)) <= Cardinality(Services)
<1>1. Holding(pcs) \in SUBSET Services
  BY DEF Holding
<1> QED BY <1>1, ServicesAssumption, FS_Subset, FS_CardinalityType

\* The same after a step.
LEMMA HoldingFiniteNext ==
  ASSUME NEW pcs
  PROVE  IsFiniteSet(Holding(pcs)') /\ Cardinality(Holding(pcs)') \in Nat
<1>1. Holding(pcs)' \in SUBSET Services
  BY DEF Holding
<1> QED BY <1>1, ServicesAssumption, FS_Subset, FS_CardinalityType

\* Giving connections back never exceeds the limit.
LEMMA FreeGrows ==
  ASSUME Free >= 0, Taken' \subseteq Taken, Second' \subseteq Second
  PROVE  (Free >= 0)'
<1>1. IsFiniteSet(Taken) /\ IsFiniteSet(Second) /\ Cardinality(Taken) \in Nat /\ Cardinality(Second) \in Nat
  BY HoldingFinite DEF Taken, Second
<1>2. Cardinality(Taken') <= Cardinality(Taken) /\ Cardinality(Second') <= Cardinality(Second)
  BY <1>1, FS_Subset
<1>3. Cardinality(Taken') \in Nat /\ Cardinality(Second') \in Nat
  BY HoldingFiniteNext DEF Taken, Second
<1>4. Free = MaxConns - Cardinality(Taken) - Cardinality(Second)
  BY DEF Free, Taken, Second
<1>5. Free' = MaxConns - Cardinality(Taken') - Cardinality(Second')
  BY DEF Free, Taken, Second
<1> QED BY <1>1, <1>2, <1>3, <1>4, <1>5, BoundsAssumption

\* One more member adds at most one to the count.
LEMMA OneMore ==
  ASSUME NEW S, NEW s, IsFiniteSet(S)
  PROVE  /\ IsFiniteSet(S \cup {s}) /\ Cardinality(S \cup {s}) \in Nat
         /\ Cardinality(S \cup {s}) <= Cardinality(S) + 1
<1>1. IsFiniteSet(S \cup {s}) /\ Cardinality(S) \in Nat
  BY FS_AddElement, FS_CardinalityType
<1>2. Cardinality(S \cup {s}) = Cardinality(S) \/ Cardinality(S \cup {s}) = Cardinality(S) + 1
  BY FS_AddElement
<1> QED BY <1>1, <1>2

\* Neither does taking one that is free.
LEMMA FreeTakes ==
  ASSUME Free > 0, NEW s \in Services,
         \/ Taken' \subseteq Taken \cup {s} /\ Second' \subseteq Second
         \/ Taken' \subseteq Taken /\ Second' \subseteq Second \cup {s}
  PROVE  (Free >= 0)'
<1>1. IsFiniteSet(Taken) /\ IsFiniteSet(Second) /\ Cardinality(Taken) \in Nat /\ Cardinality(Second) \in Nat
  BY HoldingFinite DEF Taken, Second
<1>2. /\ IsFiniteSet(Taken \cup {s}) /\ Cardinality(Taken \cup {s}) <= Cardinality(Taken) + 1
      /\ IsFiniteSet(Second \cup {s}) /\ Cardinality(Second \cup {s}) <= Cardinality(Second) + 1
      /\ Cardinality(Taken \cup {s}) \in Nat /\ Cardinality(Second \cup {s}) \in Nat
  BY <1>1, OneMore
<1>3. Cardinality(Taken') \in Nat /\ Cardinality(Second') \in Nat
  BY HoldingFiniteNext DEF Taken, Second
<1>4. Free = MaxConns - Cardinality(Taken) - Cardinality(Second)
  BY DEF Free, Taken, Second
<1>5. Free' = MaxConns - Cardinality(Taken') - Cardinality(Second')
  BY DEF Free, Taken, Second
<1>6. CASE Taken' \subseteq Taken \cup {s} /\ Second' \subseteq Second
  <2>1. Cardinality(Taken') <= Cardinality(Taken \cup {s}) /\ Cardinality(Second') <= Cardinality(Second)
    BY <1>1, <1>2, <1>6, FS_Subset
  <2> QED BY <1>1, <1>2, <1>3, <1>4, <1>5, <2>1, BoundsAssumption
<1>7. CASE Taken' \subseteq Taken /\ Second' \subseteq Second \cup {s}
  <2>1. Cardinality(Taken') <= Cardinality(Taken) /\ Cardinality(Second') <= Cardinality(Second \cup {s})
    BY <1>1, <1>2, <1>7, FS_Subset
  <2> QED BY <1>1, <1>2, <1>3, <1>4, <1>5, <2>1, BoundsAssumption
<1> QED BY <1>6, <1>7

-----------------------------------------------------------------------------
(* Types.                                                                   *)

\* The fields of a goroutine.
LEMMA LoopFields ==
  ASSUME TypeOK, NEW s \in Services
  PROVE  /\ loop[s] \in Loop
         /\ loop[s].pc \in {"none", "idle", "result", "tx", "interval", "recorded"}
         /\ loop[s].streak \in 0..Threshold
         /\ loop[s].carried \in Statuses /\ loop[s].new \in Statuses
         /\ loop[s].cancelled \in BOOLEAN
<1>1. loop[s] \in Loop
  BY DEF TypeOK
<1> QED BY <1>1 DEF Loop

\* A cancelled goroutine is still one.
LEMMA CancelledType ==
  ASSUME TypeOK, NEW s \in Services
  PROVE  Cancelled(s) \in Loop
BY LoopFields DEF Cancelled, Loop

\* A goroutine moves on.
LEMMA GotoType ==
  ASSUME TypeOK, NEW s \in Services, NEW pc \in {"idle", "tx", "interval", "recorded"},
         NEW carried \in Statuses, Goto(s, pc, carried)
  PROVE  /\ loop' \in [Services -> Loop]
         /\ loop'[s].pc = pc
         /\ \A r \in Services : r # s => loop'[r] = loop[r]
<1>1. [pc |-> pc, streak |-> loop[s].streak, carried |-> carried,
       new |-> loop[s].new, cancelled |-> loop[s].cancelled] \in Loop
  BY LoopFields DEF Loop
<1> QED BY <1>1 DEF Goto, TypeOK

\* A step that leaves the places of all goroutines as they are, or moves one
\* to a place without a connection, respects the limit.
LEMMA FreeKept ==
  ASSUME TypeOK,
         \A s \in Services : loop'[s].pc \in {loop[s].pc, "none", "idle", "result"}
  PROVE  (Free >= 0)'
<1>1. Taken' \subseteq Taken /\ Second' \subseteq Second
  BY DEF Taken, Second, Holding
<1> QED BY <1>1, FreeGrows DEF TypeOK

\* Every step keeps the types.
LEMMA TypeStep ==
  ASSUME TypeOK, [Next]_vars
  PROVE  TypeOK'
<1> USE BoundsAssumption
<1>1. ASSUME UNCHANGED loop PROVE (Free >= 0)'
  BY <1>1, FreeKept
<1>2. ASSUME NEW s \in Services, Create(s) \/ SoftDelete(s)
      PROVE  TypeOK'
  BY <1>1, <1>2 DEF Create, SoftDelete, TypeOK
<1>3. ASSUME NEW t \in Tenants, DeleteTenant(t)
      PROVE  TypeOK'
  BY <1>1, <1>3 DEF DeleteTenant, TypeOK
<1>4. CASE StartRun
  <2>1. runs' \in 0..MaxRuns
    BY <1>4 DEF StartRun, TypeOK
  <2> QED BY <1>1, <1>4, <2>1 DEF StartRun, TypeOK, dbVars
<1>5. CASE CancelRun
  <2>1. loop' \in [Services -> Loop] /\ \A s \in Services : loop'[s].pc = loop[s].pc
    BY <1>5, CancelledType DEF CancelRun, Cancelled
  <2> QED BY <1>5, <2>1, FreeKept DEF CancelRun, TypeOK, dbVars
<1>6. CASE EndRun
  BY <1>1, <1>6 DEF EndRun, TypeOK, dbVars
<1>7. CASE reconcile
  BY <1>1, <1>7 DEF reconcile, TypeOK, dbVars
<1>8. CASE reconcileEnd
  <2>1. loop' \in [Services -> Loop] /\ \A s \in Services : loop'[s].pc = loop[s].pc
    BY <1>8, CancelledType, LoopFields DEF reconcileEnd, Cancelled
  <2>2. (Free >= 0)'
    BY <2>1, FreeKept
  <2> QED BY <1>8, <2>1, <2>2 DEF reconcileEnd, TypeOK, dbVars, NoRec
<1>9. ASSUME NEW t \in Tenants, reconcileTenant(t)
      PROVE  TypeOK'
  <2>1. ListPollingManual(t) \in SUBSET Services
    BY DEF ListPollingManual
  <2>2. \A s \in Services : Spawned(s) \in Loop /\ Spawned(s).pc = "idle"
    <3> TAKE s \in Services
    <3>1. status[s] \in Statuses /\ 0 \in 0..Threshold /\ (run = "stopping") \in BOOLEAN
      BY DEF TypeOK
    <3> QED BY <3>1 DEF Spawned, Loop
  <2>3. \A s \in Services : loop'[s] = Spawned(s) \/ loop'[s] = loop[s]
    BY <1>9 DEF reconcileTenant
  <2>4. loop' \in [Services -> Loop]
    BY <1>9, <2>2, LoopFields DEF reconcileTenant
  <2>5. (Free >= 0)'
    BY <2>2, <2>3, FreeKept
  <2>6. rec' \in [pc : {"idle", "listing"}, todo : SUBSET Tenants, live : SUBSET Services,
                  failed : SUBSET Tenants]
    BY <1>9, <2>1 DEF reconcileTenant, TypeOK
  <2> QED BY <1>9, <2>1, <2>4, <2>5, <2>6 DEF reconcileTenant, TypeOK, dbVars
<1>10. ASSUME NEW t \in Tenants, reconcileTenantFails(t)
       PROVE  TypeOK'
  <2>1. faults' \in 0..MaxFaults
    BY <1>10 DEF reconcileTenantFails, Fault, TypeOK
  <2>2. rec' \in [pc : {"idle", "listing"}, todo : SUBSET Tenants, live : SUBSET Services,
                  failed : SUBSET Tenants]
    BY <1>10 DEF reconcileTenantFails, TypeOK
  <2> QED BY <1>1, <1>10, <2>1, <2>2 DEF reconcileTenantFails, TypeOK, dbVars
<1>11. ASSUME NEW s \in Services, NEW ok \in BOOLEAN, RunCheck(s, ok)
       PROVE  TypeOK'
  <2> DEFINE streak == IF ok THEN 0 ELSE Capped(loop[s].streak + 1)
             new == IF ok THEN "operational" ELSE StatusAfter(streak, loop[s].carried)
             l == [pc |-> "result", streak |-> streak, carried |-> loop[s].carried,
                   new |-> new, cancelled |-> FALSE]
  <2>1. streak \in 0..Threshold
    BY LoopFields DEF Capped
  <2>2. new \in Statuses
    BY LoopFields DEF StatusAfter, Statuses
  <2>3. loop' = [loop EXCEPT ![s] = l]
    BY <1>11 DEF RunCheck
  <2>4. l \in Loop
    BY <2>1, <2>2, LoopFields DEF Loop
  <2>5. l.pc = "result"
    OBVIOUS
  <2> HIDE DEF l
  <2>6. loop' \in [Services -> Loop] /\ \A r \in Services : loop'[r].pc \in {loop[r].pc, "result"}
    BY <2>3, <2>4, <2>5 DEF TypeOK
  <2>7. (Free >= 0)'
    BY <2>6, FreeKept
  <2>8. fails' \in [Services -> 0..Threshold]
    <3>1. (IF ok THEN 0 ELSE Capped(fails[s] + 1)) \in 0..Threshold
      BY DEF Capped, TypeOK
    <3> QED BY <1>11, <3>1 DEF RunCheck, TypeOK
  <2> QED BY <1>11, <2>6, <2>7, <2>8 DEF RunCheck, TypeOK, dbVars
<1>12. ASSUME NEW s \in Services, tenantTx(s)
       PROVE  TypeOK'
  <2>1. /\ loop' \in [Services -> Loop] /\ loop'[s].pc = "tx"
        /\ \A r \in Services : r # s => loop'[r] = loop[r]
    BY <1>12, LoopFields, GotoType DEF tenantTx
  <2>2. Taken' \subseteq Taken \cup {s} /\ Second' \subseteq Second
    BY <2>1 DEF Taken, Second, Holding
  <2>3. (Free >= 0)'
    BY <1>12, <2>2, FreeTakes DEF tenantTx
  <2> QED BY <1>12, <2>1, <2>3 DEF tenantTx, TypeOK, dbVars
<1>13. ASSUME NEW s \in Services, OpenOrExtendBegin(s)
       PROVE  TypeOK'
  <2>1. /\ loop' \in [Services -> Loop] /\ loop'[s].pc = "interval" /\ loop[s].pc = "tx"
        /\ \A r \in Services : r # s => loop'[r] = loop[r]
    BY <1>13, LoopFields, GotoType DEF OpenOrExtendBegin
  <2>2. Taken' \subseteq Taken /\ Second' \subseteq Second \cup {s}
    BY <2>1 DEF Taken, Second, Holding
  <2>3. (Free >= 0)'
    BY <1>13, <2>2, FreeTakes DEF OpenOrExtendBegin
  <2> QED BY <1>13, <2>1, <2>3 DEF OpenOrExtendBegin, TypeOK, dbVars
<1>14. ASSUME NEW s \in Services, OpenOrExtendCommit(s)
       PROVE  TypeOK'
  <2>1. /\ loop' \in [Services -> Loop] /\ loop'[s].pc = "recorded" /\ loop[s].pc = "interval"
        /\ \A r \in Services : r # s => loop'[r] = loop[r]
    BY <1>14, LoopFields, GotoType DEF OpenOrExtendCommit
  <2>2. Taken' \subseteq Taken /\ Second' \subseteq Second
    BY <2>1 DEF Taken, Second, Holding
  <2>3. (Free >= 0)'
    BY <2>2, FreeGrows DEF TypeOK
  <2>4. interval' \in [Services -> Statuses \cup {Null}]
    BY <1>14, LoopFields DEF OpenOrExtendCommit, TypeOK
  <2> QED BY <1>14, <2>1, <2>3, <2>4 DEF OpenOrExtendCommit, TypeOK
<1>15. ASSUME NEW s \in Services, Commit(s)
       PROVE  TypeOK'
  <2>1. /\ loop' \in [Services -> Loop] /\ loop'[s].pc = "idle"
        /\ \A r \in Services : r # s => loop'[r] = loop[r]
    BY <1>15, LoopFields, GotoType DEF Commit
  <2>2. (Free >= 0)'
    BY <2>1, FreeKept
  <2>3. status' \in [Services -> Statuses]
    BY <1>15, LoopFields DEF Commit, TypeOK
  <2> QED BY <1>15, <2>1, <2>2, <2>3 DEF Commit, TypeOK
<1>16. ASSUME NEW s \in Services, runCheckFails(s)
       PROVE  TypeOK'
  <2>1. /\ loop' \in [Services -> Loop] /\ loop'[s].pc = "idle"
        /\ \A r \in Services : r # s => loop'[r] = loop[r]
    BY <1>16, LoopFields, GotoType DEF runCheckFails
  <2>2. (Free >= 0)'
    BY <2>1, FreeKept
  <2>3. faults' \in 0..MaxFaults
    BY <1>16 DEF runCheckFails, Fault, TypeOK
  <2> QED BY <1>16, <2>1, <2>2, <2>3 DEF runCheckFails, TypeOK, dbVars
<1>17. ASSUME NEW s \in Services, Exit(s)
       PROVE  TypeOK'
  <2>1. NoLoop \in Loop /\ NoLoop.pc = "none"
    BY DEF NoLoop, Loop, Statuses
  <2>2. loop' \in [Services -> Loop] /\ \A r \in Services : loop'[r].pc \in {loop[r].pc, "none"}
    BY <1>17, <2>1 DEF Exit, TypeOK
  <2>3. (Free >= 0)'
    BY <2>2, FreeKept
  <2> QED BY <1>17, <2>2, <2>3 DEF Exit, TypeOK, dbVars
<1>18. CASE UNCHANGED vars
  BY <1>1, <1>18 DEF vars, dbVars, TypeOK
<1> QED BY <1>2, <1>3, <1>4, <1>5, <1>6, <1>7, <1>8, <1>9, <1>10, <1>11, <1>12, <1>13, <1>14,
           <1>15, <1>16, <1>17, <1>18 DEF Next, Reconcile, runServiceLoop

\* The scheduler's state keeps its types and the pool its limit.
THEOREM TypeCorrect == Spec => []TypeOK
<1>1. Init => TypeOK
  <2> SUFFICES ASSUME Init PROVE TypeOK
    OBVIOUS
  <2>1. Holding({"tx", "recorded", "interval"}) = {} /\ Holding({"interval"}) = {}
    BY DEF Init, Holding, NoLoop
  <2>2. Free >= 0
    BY <2>1, FS_EmptySet, BoundsAssumption DEF Free
  <2>3. NoLoop \in Loop
    BY BoundsAssumption DEF NoLoop, Loop, Statuses
  <2> QED BY <2>2, <2>3, BoundsAssumption DEF Init, TypeOK, Statuses, NoRec
<1>2. TypeOK /\ [Next]_vars => TypeOK'
  BY TypeStep
<1> QED BY <1>1, <1>2, PTL DEF Spec

\* With more connections than polling-manual services the checks cannot
\* exhaust the pool against each other.
THEOREM EnoughConnections ==
  Cardinality(Services) < MaxConns => (Spec => []NoPoolDeadlock)
<1> SUFFICES ASSUME Cardinality(Services) < MaxConns PROVE Spec => []NoPoolDeadlock
  OBVIOUS
<1>1. TypeOK => NoPoolDeadlock
  <2> SUFFICES ASSUME Holding({"interval", "recorded"}) = {} PROVE Free > 0
    BY DEF NoPoolDeadlock
  <2>1. Holding({"interval"}) = {}
    BY DEF Holding
  <2>2. Cardinality(Holding({"interval"})) = 0
    BY <2>1, FS_EmptySet
  <2>3. /\ Cardinality(Holding({"tx", "recorded", "interval"})) \in Nat
        /\ Cardinality(Holding({"tx", "recorded", "interval"})) <= Cardinality(Services)
    BY HoldingFinite
  <2>4. Cardinality(Services) \in Nat
    BY ServicesAssumption, FS_CardinalityType
  <2> QED BY <2>2, <2>3, <2>4, BoundsAssumption DEF Free
<1> QED BY <1>1, TypeCorrect, PTL
-----------------------------------------------------------------------------
(* Who has a goroutine.                                                     *)

\* Between runs nothing is left of the last one.
OffMeansEmpty ==
  run = "off" => rec.pc = "idle" /\ \A s \in Services : loop[s].pc = "none"

\* What a pass lists exists.
TrackedExist == \A s \in tracked : row[s] # "absent"

\* A goroutine that has left the map returns late: until then its service
\* cannot be listed again.
OrphansGone ==
  \A s \in Services \ tracked :
    loop[s].pc # "none" =>
      \/ row[s] = "deleted"
      \/ Owner[s] \in gone /\ (rec.pc = "listing" => Owner[s] \notin rec.todo)

\* What a pass has not found, although it could read the tenant, is deleted.
MissingGone ==
  rec.pc = "listing" =>
    \A s \in tracked \ rec.live :
      Owner[s] \in rec.todo \cup rec.failed \/ row[s] = "deleted" \/ Owner[s] \in gone

TrackingInv == OffMeansEmpty /\ TrackedExist /\ OrphansGone /\ MissingGone

\* A goroutine only moves itself and cannot be cancelled by its own step.
LEMMA GoroutineStep ==
  ASSUME TypeOK, NEW s \in Services, runServiceLoop(s)
  PROVE  /\ loop[s].pc # "none"
         /\ \A r \in Services : r # s => loop'[r] = loop[r]
         /\ loop'[s].cancelled => loop[s].cancelled
         /\ UNCHANGED <<row, gone, run, tracked, rec, runs>>
<1>1. loop \in [Services -> Loop]
  BY DEF TypeOK
<1>2. ASSUME NEW ok \in BOOLEAN, RunCheck(s, ok)
      PROVE  /\ loop[s].pc = "idle" /\ ~loop'[s].cancelled
             /\ \A r \in Services : r # s => loop'[r] = loop[r]
             /\ UNCHANGED <<row, gone, run, tracked, rec, runs>>
  BY <1>1, <1>2 DEF RunCheck, dbVars
<1>3. ASSUME NEW pc, NEW carried, Goto(s, pc, carried)
      PROVE  /\ loop'[s].cancelled = loop[s].cancelled
             /\ \A r \in Services : r # s => loop'[r] = loop[r]
  BY <1>1, <1>3 DEF Goto
<1>4. ASSUME tenantTx(s) \/ OpenOrExtendBegin(s) \/ OpenOrExtendCommit(s)
             \/ Commit(s) \/ runCheckFails(s)
      PROVE  /\ \E pc, carried : Goto(s, pc, carried)
             /\ loop[s].pc # "none"
             /\ UNCHANGED <<row, gone, run, tracked, rec, runs>>
  BY <1>4 DEF tenantTx, OpenOrExtendBegin, OpenOrExtendCommit, Commit, runCheckFails, dbVars
<1>5. CASE Exit(s)
  BY <1>1, <1>5 DEF Exit, NoLoop, dbVars
<1> QED BY <1>2, <1>3, <1>4, <1>5 DEF runServiceLoop

\* Every step keeps the invariant.
LEMMA TrackingStep ==
  ASSUME TypeOK, TrackingInv, [Next]_vars
  PROVE  TrackingInv'
<1> USE OwnerAssumption DEF TrackingInv
<1>1. ASSUME NEW s \in Services, Create(s) \/ SoftDelete(s)
      PROVE  TrackingInv'
  BY <1>1 DEF Create, SoftDelete, TypeOK, OffMeansEmpty, TrackedExist, OrphansGone, MissingGone
<1>2. ASSUME NEW t \in Tenants, DeleteTenant(t)
      PROVE  TrackingInv'
  BY <1>2 DEF DeleteTenant, OffMeansEmpty, TrackedExist, OrphansGone, MissingGone
<1>3. CASE StartRun
  BY <1>3 DEF StartRun, dbVars, OffMeansEmpty, TrackedExist, OrphansGone, MissingGone
<1>4. CASE CancelRun
  <2>1. \A s \in Services : loop'[s].pc = loop[s].pc
    BY <1>4 DEF CancelRun, Cancelled
  <2> QED BY <1>4, <2>1 DEF CancelRun, dbVars, OffMeansEmpty, TrackedExist, OrphansGone, MissingGone
<1>5. CASE EndRun
  BY <1>5 DEF EndRun, dbVars, OffMeansEmpty, TrackedExist, OrphansGone, MissingGone
<1>6. CASE reconcile
  <2>1. /\ rec' = [pc |-> "listing", todo |-> Tenants \ gone, live |-> {}, failed |-> {}]
        /\ run = "on" /\ UNCHANGED <<row, gone, run, tracked, loop>>
    BY <1>6 DEF reconcile, dbVars
  <2>2. OffMeansEmpty' /\ TrackedExist'
    BY <2>1 DEF OffMeansEmpty, TrackedExist
  <2>3. OrphansGone'
    BY <2>1 DEF OrphansGone
  <2>4. MissingGone'
    BY <2>1 DEF MissingGone, TypeOK
  <2> QED BY <2>2, <2>3, <2>4
<1>7. ASSUME NEW t \in Tenants, reconcileTenant(t)
      PROVE  TrackingInv'
  <2>1. /\ rec.pc = "listing" /\ t \in rec.todo
        /\ rec' = [pc |-> "listing", todo |-> rec.todo \ {t},
                   live |-> rec.live \cup ListPollingManual(t), failed |-> rec.failed]
        /\ tracked' = tracked \cup ListPollingManual(t)
        /\ UNCHANGED <<row, gone, run>>
    BY <1>7 DEF reconcileTenant, dbVars
  <2>2. \A s \in Services : s \notin ListPollingManual(t) => loop'[s] = loop[s]
    BY <1>7 DEF reconcileTenant
  <2>3. OffMeansEmpty' /\ TrackedExist'
    BY <2>1 DEF OffMeansEmpty, TrackedExist, ListPollingManual
  <2>4. OrphansGone'
    BY <2>1, <2>2 DEF OrphansGone
  <2>5. MissingGone'
    <3> SUFFICES ASSUME NEW s \in tracked', s \notin rec'.live
                 PROVE  Owner[s] \in rec'.todo \cup rec'.failed \/ row[s] = "deleted" \/ Owner[s] \in gone
      BY <2>1 DEF MissingGone
    <3>1. s \in tracked /\ s \in Services /\ s \notin rec.live /\ s \notin ListPollingManual(t)
      BY <2>1 DEF TypeOK
    <3>2. CASE Owner[s] = t
      BY <3>1, <3>2 DEF ListPollingManual, TypeOK, TrackedExist
    <3>3. CASE Owner[s] # t
      BY <2>1, <3>1, <3>3 DEF MissingGone
    <3> QED BY <3>2, <3>3
  <2> QED BY <2>3, <2>4, <2>5
<1>8. ASSUME NEW t \in Tenants, reconcileTenantFails(t)
      PROVE  TrackingInv'
  BY <1>8 DEF reconcileTenantFails, dbVars, OffMeansEmpty, TrackedExist, OrphansGone, MissingGone
<1>9. CASE reconcileEnd
  <2>1. \A s \in Services : loop'[s].pc = loop[s].pc
    BY <1>9 DEF reconcileEnd, Cancelled
  <2>2. /\ rec.pc = "listing" /\ rec.todo = {} /\ rec'.pc = "idle" /\ tracked' = tracked \ Stale
        /\ UNCHANGED <<row, gone, run>>
    BY <1>9 DEF reconcileEnd, dbVars, NoRec
  <2>3. OrphansGone'
    BY <2>1, <2>2 DEF OrphansGone, MissingGone, Stale
  <2> QED BY <2>1, <2>2, <2>3 DEF OffMeansEmpty, TrackedExist, MissingGone
<1>10. ASSUME NEW s \in Services, runServiceLoop(s)
       PROVE  TrackingInv'
  BY <1>10, GoroutineStep DEF OffMeansEmpty, TrackedExist, OrphansGone, MissingGone
<1>11. CASE UNCHANGED vars
  BY <1>11 DEF vars, dbVars, OffMeansEmpty, TrackedExist, OrphansGone, MissingGone
<1> QED BY <1>1, <1>2, <1>3, <1>4, <1>5, <1>6, <1>7, <1>8, <1>9, <1>10, <1>11
        DEF Next, Reconcile

\* In every behaviour.
LEMMA TrackingAlways == Spec => [](TypeOK /\ TrackingInv)
<1>1. Init => TrackingInv
  BY DEF Init, TrackingInv, OffMeansEmpty, TrackedExist, OrphansGone, MissingGone, NoRec, NoLoop
<1>2. TypeOK /\ TrackingInv /\ [Next]_vars => TrackingInv'
  BY TrackingStep
<1> QED BY <1>1, <1>2, TypeCorrect, PTL DEF Spec

\* reconcile never starts a second goroutine for a service, for any number of
\* runs, passes, deletions and failures in between.
THEOREM SpawnedOnce == Spec => SpawnsOnce
<1>1. ASSUME TypeOK, TrackingInv, [Next]_vars
      PROVE  [\A s \in tracked' \ tracked : loop[s].pc = "none"]_vars
  <2>1. ASSUME NEW t \in Tenants, reconcileTenant(t), NEW s \in tracked' \ tracked
        PROVE  loop[s].pc = "none"
    <3>1. s \in ListPollingManual(t) /\ t \in rec.todo /\ rec.pc = "listing"
      BY <2>1 DEF reconcileTenant
    <3>2. s \in Services /\ Owner[s] = t /\ row[s] = "live"
      BY <3>1 DEF ListPollingManual
    <3> QED BY <1>1, <2>1, <3>1, <3>2 DEF TrackingInv, OrphansGone
  <2>2. ASSUME NEW t \in Tenants, reconcileTenantFails(t) \/ DeleteTenant(t)
        PROVE  tracked' \subseteq tracked
    BY <2>2 DEF reconcileTenantFails, DeleteTenant
  <2>3. ASSUME NEW s \in Services, Create(s) \/ SoftDelete(s) \/ runServiceLoop(s)
        PROVE  tracked' \subseteq tracked
    BY <1>1, <2>3, GoroutineStep DEF Create, SoftDelete
  <2>4. ASSUME StartRun \/ CancelRun \/ EndRun \/ reconcile \/ reconcileEnd \/ UNCHANGED vars
        PROVE  tracked' \subseteq tracked
    BY <2>4 DEF StartRun, CancelRun, EndRun, reconcile, reconcileEnd, vars
  <2> QED BY <1>1, <2>1, <2>2, <2>3, <2>4 DEF Next, Reconcile
<1> QED BY <1>1, TrackingAlways, PTL DEF Spec, SpawnsOnce

\* A goroutine is only cancelled, while the scheduler runs, because its service
\* or its tenant is deleted: tenants that could not be read keep theirs.
THEOREM CancelledOnlyGone == Spec => CancelsOnlyGone
<1> DEFINE Fine(s) ==
      (loop[s].pc # "none" /\ ~loop[s].cancelled /\ loop'[s].cancelled /\ run' = "on") =>
        row[s] = "deleted" \/ Owner[s] \in gone
<1>1. ASSUME TypeOK, TrackingInv, [Next]_vars
      PROVE  [\A s \in Services : Fine(s)]_vars
  <2> SUFFICES ASSUME NEW s \in Services PROVE Fine(s)
    OBVIOUS
  <2>1. CASE reconcileEnd
    <3>1. CASE s \in Stale
      BY <1>1, <2>1, <3>1 DEF reconcileEnd, Stale, TrackingInv, MissingGone
    <3>2. CASE s \notin Stale
      BY <2>1, <3>2 DEF reconcileEnd
    <3> QED BY <3>1, <3>2
  <2>2. ASSUME NEW t \in Tenants, reconcileTenant(t)
        PROVE  Fine(s)
    BY <2>2 DEF reconcileTenant, Spawned
  <2>3. ASSUME NEW t \in Tenants, reconcileTenantFails(t) \/ DeleteTenant(t)
        PROVE  UNCHANGED loop
    BY <2>3 DEF reconcileTenantFails, DeleteTenant
  <2>4. ASSUME NEW r \in Services, runServiceLoop(r)
        PROVE  Fine(s)
    BY <1>1, <2>4, GoroutineStep
  <2>5. ASSUME NEW r \in Services, Create(r) \/ SoftDelete(r)
        PROVE  UNCHANGED loop
    BY <2>5 DEF Create, SoftDelete
  <2>6. CASE CancelRun
    BY <2>6 DEF CancelRun
  <2>7. ASSUME StartRun \/ EndRun \/ reconcile \/ UNCHANGED vars
        PROVE  UNCHANGED loop
    BY <2>7 DEF StartRun, EndRun, reconcile, vars
  <2> QED BY <1>1, <2>1, <2>2, <2>3, <2>4, <2>5, <2>6, <2>7 DEF Next, Reconcile
<1> QED BY <1>1, TrackingAlways, PTL DEF Spec, CancelsOnlyGone

-----------------------------------------------------------------------------
(* The failure streak.                                                      *)

\* A goroutine carries the published status, counts no failure that did not
\* happen, and has an outage to write only after Threshold of them, or because
\* the service is in outage.
StreakInv ==
  \A s \in Services :
    loop[s].pc # "none" =>
      /\ loop[s].streak <= fails[s]
      /\ loop[s].carried = status[s]
      /\ (loop[s].pc # "idle" /\ loop[s].new = "outage") =>
           fails[s] = Threshold \/ status[s] = "outage"

\* Every step keeps it.
LEMMA StreakStep ==
  ASSUME TypeOK, StreakInv, [Next]_vars
  PROVE  StreakInv'
<1> USE BoundsAssumption
<1>1. ASSUME NEW s \in Services, NEW ok \in BOOLEAN, RunCheck(s, ok)
      PROVE  StreakInv'
  <2> DEFINE streak == IF ok THEN 0 ELSE Capped(loop[s].streak + 1)
             new == IF ok THEN "operational" ELSE StatusAfter(streak, loop[s].carried)
             n == IF ok THEN 0 ELSE Capped(fails[s] + 1)
  <2>1. /\ loop[s].pc = "idle" /\ UNCHANGED status
        /\ loop' = [loop EXCEPT ![s] = [pc |-> "result", streak |-> streak,
                      carried |-> loop[s].carried, new |-> new, cancelled |-> FALSE]]
        /\ fails' = [fails EXCEPT ![s] = n]
    BY <1>1 DEF RunCheck, dbVars
  <2>2. /\ loop[s].streak \in 0..Threshold /\ fails[s] \in 0..Threshold
        /\ loop[s].streak <= fails[s] /\ loop[s].carried = status[s]
    BY <2>1, LoopFields DEF StreakInv, TypeOK
  <2>3. streak \in 0..Threshold /\ n \in 0..Threshold /\ streak <= n
    BY <2>2 DEF Capped
  <2>4. new = "outage" => n = Threshold \/ status[s] = "outage"
    BY <2>2, <2>3 DEF StatusAfter
  <2> HIDE DEF streak, new, n
  <2>5. /\ loop'[s] = [pc |-> "result", streak |-> streak, carried |-> loop[s].carried,
                       new |-> new, cancelled |-> FALSE]
        /\ fails'[s] = n /\ status'[s] = status[s]
    BY <2>1 DEF TypeOK
  <2>6. \A r \in Services : r # s =>
          loop'[r] = loop[r] /\ fails'[r] = fails[r] /\ status'[r] = status[r]
    BY <2>1 DEF TypeOK
  <2> QED BY <2>2, <2>3, <2>4, <2>5, <2>6 DEF StreakInv
<1>2. ASSUME NEW s \in Services,
             tenantTx(s) \/ OpenOrExtendBegin(s) \/ OpenOrExtendCommit(s) \/ runCheckFails(s)
      PROVE  StreakInv'
  <2>1. PICK pc \in {"idle", "tx", "interval", "recorded"} : Goto(s, pc, loop[s].carried)
    BY <1>2 DEF tenantTx, OpenOrExtendBegin, OpenOrExtendCommit, runCheckFails
  <2>2. /\ loop[s].pc \notin {"none", "idle"} /\ UNCHANGED <<status, fails>>
    BY <1>2 DEF tenantTx, OpenOrExtendBegin, OpenOrExtendCommit, runCheckFails, dbVars
  <2>3. /\ loop'[s] = [pc |-> pc, streak |-> loop[s].streak, carried |-> loop[s].carried,
                       new |-> loop[s].new, cancelled |-> loop[s].cancelled]
        /\ \A r \in Services : r # s => loop'[r] = loop[r]
    BY <2>1 DEF Goto, TypeOK
  <2> QED BY <2>2, <2>3 DEF StreakInv
<1>3. ASSUME NEW s \in Services, Commit(s)
      PROVE  StreakInv'
  <2>1. /\ loop'[s] = [pc |-> "idle", streak |-> loop[s].streak, carried |-> loop[s].new,
                       new |-> loop[s].new, cancelled |-> loop[s].cancelled]
        /\ \A r \in Services : r # s => loop'[r] = loop[r]
    BY <1>3 DEF Commit, Goto, TypeOK
  <2>2. /\ loop[s].pc = "recorded" /\ UNCHANGED fails
        /\ status'[s] = loop[s].new
        /\ \A r \in Services : r # s => status'[r] = status[r]
    BY <1>3 DEF Commit, TypeOK
  <2> QED BY <2>1, <2>2 DEF StreakInv
<1>4. ASSUME NEW s \in Services, Exit(s)
      PROVE  StreakInv'
  BY <1>4 DEF Exit, NoLoop, dbVars, StreakInv, TypeOK
<1>5. ASSUME NEW t \in Tenants, reconcileTenant(t)
      PROVE  StreakInv'
  <2>1. UNCHANGED <<status, fails>>
    BY <1>5 DEF reconcileTenant, dbVars
  <2>2. \A s \in Services : loop'[s] = loop[s] \/ loop'[s] = Spawned(s)
    BY <1>5 DEF reconcileTenant
  <2>3. \A s \in Services : 0 <= fails[s]
    BY DEF TypeOK
  <2>4. \A s \in Services :
          Spawned(s).pc = "idle" /\ Spawned(s).streak = 0 /\ Spawned(s).carried = status[s]
    BY DEF Spawned
  <2> QED BY <2>1, <2>2, <2>3, <2>4 DEF StreakInv
<1>6. CASE CancelRun \/ reconcileEnd
  <2>1. UNCHANGED <<status, fails>>
    BY <1>6 DEF CancelRun, reconcileEnd, dbVars
  <2>2. \A s \in Services : loop'[s] = loop[s] \/ loop'[s] = Cancelled(s)
    BY <1>6 DEF CancelRun, reconcileEnd
  <2>3. \A s \in Services :
          /\ Cancelled(s).pc = loop[s].pc /\ Cancelled(s).streak = loop[s].streak
          /\ Cancelled(s).carried = loop[s].carried /\ Cancelled(s).new = loop[s].new
    BY DEF Cancelled
  <2> QED BY <2>1, <2>2, <2>3 DEF StreakInv
<1>7. ASSUME UNCHANGED <<loop, status, fails>>
      PROVE  StreakInv'
  BY <1>7 DEF StreakInv
<1>8. ASSUME NEW t \in Tenants, reconcileTenantFails(t) \/ DeleteTenant(t)
      PROVE  StreakInv'
  BY <1>7, <1>8 DEF reconcileTenantFails, DeleteTenant, dbVars
<1>9. ASSUME NEW s \in Services, Create(s) \/ SoftDelete(s)
      PROVE  StreakInv'
  BY <1>7, <1>9 DEF Create, SoftDelete
<1>10. CASE StartRun \/ EndRun \/ reconcile \/ UNCHANGED vars
  BY <1>7, <1>10 DEF StartRun, EndRun, reconcile, vars, dbVars
<1> QED BY <1>1, <1>2, <1>3, <1>4, <1>5, <1>6, <1>8, <1>9, <1>10
        DEF Next, Reconcile, runServiceLoop

\* The published status turns to outage only after Threshold failed checks in
\* a row, for every threshold and whatever fails in between.
THEOREM OutageAfterStreak == Spec => OutageNeedsStreak
<1> DEFINE Fine(s) == (status'[s] = "outage" /\ status[s] # "outage") => fails[s] = Threshold
<1>1. Init => StreakInv
  BY DEF Init, StreakInv, NoLoop
<1>2. TypeOK /\ StreakInv /\ [Next]_vars => StreakInv'
  BY StreakStep
<1>3. ASSUME TypeOK, StreakInv, [Next]_vars
      PROVE  [\A s \in Services : Fine(s)]_vars
  <2>1. ASSUME NEW r \in Services, Commit(r), NEW s \in Services
        PROVE  Fine(s)
    <3>1. CASE s = r
      BY <1>3, <2>1, <3>1 DEF Commit, StreakInv, TypeOK
    <3>2. CASE s # r
      BY <1>3, <2>1, <3>2 DEF Commit, TypeOK
    <3> QED BY <3>1, <3>2
  <2>2. ASSUME NEW r \in Services, NEW ok \in BOOLEAN, RunCheck(r, ok)
        PROVE  UNCHANGED status
    BY <2>2 DEF RunCheck, dbVars
  <2>3. ASSUME NEW r \in Services,
               tenantTx(r) \/ OpenOrExtendBegin(r) \/ OpenOrExtendCommit(r)
               \/ runCheckFails(r) \/ Exit(r) \/ Create(r) \/ SoftDelete(r)
        PROVE  UNCHANGED status
    BY <2>3 DEF tenantTx, OpenOrExtendBegin, OpenOrExtendCommit, runCheckFails, Exit, Create,
                SoftDelete, dbVars
  <2>4. ASSUME NEW t \in Tenants, reconcileTenant(t) \/ reconcileTenantFails(t) \/ DeleteTenant(t)
        PROVE  UNCHANGED status
    BY <2>4 DEF reconcileTenant, reconcileTenantFails, DeleteTenant, dbVars
  <2>5. ASSUME StartRun \/ CancelRun \/ EndRun \/ reconcile \/ reconcileEnd \/ UNCHANGED vars
        PROVE  UNCHANGED status
    BY <2>5 DEF StartRun, CancelRun, EndRun, reconcile, reconcileEnd, vars, dbVars
  <2> QED BY <1>3, <2>1, <2>2, <2>3, <2>4, <2>5 DEF Next, Reconcile, runServiceLoop
<1> QED BY <1>1, <1>2, <1>3, TypeCorrect, PTL DEF Spec, OutageNeedsStreak
=============================================================================
