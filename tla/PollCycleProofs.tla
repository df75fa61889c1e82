--------------------------- MODULE PollCycleProofs ---------------------------
(***************************************************************************)
(* Theorems about PollCycle, for every set of services, incidents and      *)
(* poller instances, whether or not instances overlap, about BurnRate, for *)
(* all counts and targets, and about LLMProvider, whose key the            *)
(* enrichments use, for all keys, requests and calls.                      *)
(***************************************************************************)
EXTENDS PollCycle, BurnRate, FiniteSetTheorems, TLAPS

-----------------------------------------------------------------------------
(* Types.                                                                   *)

\* A dispatch for a service or an incident keeps the goroutines and the
\* cooldowns well typed.
LEMMA DispatchType ==
  ASSUME TypeOK, NEW p \in Pollers, NEW k \in Kinds, NEW t \in Services \cup Incidents,
         Dispatch(p, <<k, t>>)
  PROVE  /\ enr' \in SUBSET Enrichment
         /\ cooling' \in [Pollers -> SUBSET (Kinds \X (Services \cup Incidents))]
<1> DEFINE e == [by |-> p, kind |-> k, target |-> t, phase |-> "generating"]
<1>1. e \in Enrichment
  BY DEF Enrichment
<1>2. <<k, t>> \in Kinds \X (Services \cup Incidents)
  OBVIOUS
<1>3. CASE tryAcquire(p, <<k, t>>)
  <2>1. enr' = enr \cup {e}
    BY <1>3 DEF Dispatch
  <2>2. cooling' = [cooling EXCEPT ![p] = @ \cup {<<k, t>>}]
    BY <1>3 DEF Dispatch
  <2> QED BY <2>1, <2>2, <1>1, <1>2 DEF TypeOK
<1>4. CASE ~tryAcquire(p, <<k, t>>)
  BY <1>4 DEF Dispatch, TypeOK
<1> QED BY <1>3, <1>4

\* Inserting a detected incident keeps the types.
LEMMA CreateDetectedType ==
  ASSUME TypeOK, NEW p \in Pollers, NEW s \in Services, CreateDetected(p, s)
  PROVE  /\ inc' \in [Incidents -> Incident]
         /\ created' \in [Pollers -> [Services -> Incidents \cup {Null}]]
         /\ enr' \in SUBSET Enrichment
         /\ cooling' \in [Pollers -> SUBSET (Kinds \X (Services \cup Incidents))]
<1>1. PICK i \in Incidents :
        /\ inc' = [inc EXCEPT ![i] = [state |-> "uncommitted", auto |-> TRUE, links |-> {s},
                                      refined |-> FALSE, pending |-> Null, reopened |-> FALSE]]
        /\ created' = [created EXCEPT ![p] = [@ EXCEPT ![s] = i]]
        /\ Dispatch(p, <<"outage", i>>)
  BY DEF CreateDetected
<1>2. [state |-> "uncommitted", auto |-> TRUE, links |-> {s}, refined |-> FALSE,
       pending |-> Null, reopened |-> FALSE] \in Incident
  BY DEF Incident
<1>3. inc' \in [Incidents -> Incident]
  BY <1>1, <1>2 DEF TypeOK
<1>4. created' \in [Pollers -> [Services -> Incidents \cup {Null}]]
  BY <1>1 DEF TypeOK
<1>5. "outage" \in Kinds
  BY DEF Kinds
<1> QED BY <1>1, <1>3, <1>4, <1>5, DispatchType

\* So does whatever a transition does.
LEMMA HandleTransitionType ==
  ASSUME TypeOK, NEW p \in Pollers, NEW s \in Services, NEW prev, NEW new,
         HandleTransition(p, s, prev, new)
  PROVE  /\ inc' \in [Incidents -> Incident]
         /\ created' \in [Pollers -> [Services -> Incidents \cup {Null}]]
         /\ enr' \in SUBSET Enrichment
         /\ cooling' \in [Pollers -> SUBSET (Kinds \X (Services \cup Incidents))]
<1>1. CASE UNCHANGED <<inc, created, enr, cooling>>
  BY <1>1 DEF TypeOK
<1>2. CASE Dispatch(p, <<"degraded", s>>) /\ UNCHANGED <<inc, created>>
  BY <1>2, DispatchType DEF TypeOK, Kinds
<1>3. CASE handleOutageTransition(p, s)
  BY <1>1, <1>3, CreateDetectedType DEF handleOutageTransition
<1>4. CASE handleRecoveryTransition(p, s)
  <2>1. CASE UNCHANGED <<enr, cooling>>
    BY <2>1, <1>4, <1>1 DEF handleRecoveryTransition
  <2>2. CASE \E i \in Incidents : Dispatch(p, <<"close", i>>)
    <3>1. PICK i \in Incidents : Dispatch(p, <<"close", i>>)
      BY <2>2
    <3>2. "close" \in Kinds
      BY DEF Kinds
    <3> QED BY <3>1, <3>2, <1>4, DispatchType DEF handleRecoveryTransition, TypeOK
  <2> QED BY <1>4, <2>1, <2>2 DEF handleRecoveryTransition
<1> QED BY <1>1, <1>2, <1>3, <1>4 DEF HandleTransition

\* The cycle's bookkeeping keeps its types.
LEMMA PolledType ==
  ASSUME TypeOK, NEW p \in Pollers, NEW s \in Services, NEW ok \in BOOLEAN, Polled(p, s, ok)
  PROVE  /\ todo' \in [Pollers -> SUBSET Services]
         /\ outcome' \in [Pollers -> [ok : BOOLEAN, err : BOOLEAN]]
<1>1. todo' \in [Pollers -> SUBSET Services]
  BY DEF TypeOK, Polled
<1>2. outcome' = [outcome EXCEPT ![p] = [ok |-> outcome[p].ok \/ ok, err |-> outcome[p].err \/ ~ok]]
  BY DEF TypeOK, Polled
<1>3. [ok |-> outcome[p].ok \/ ok, err |-> outcome[p].err \/ ~ok] \in [ok : BOOLEAN, err : BOOLEAN]
  OBVIOUS
<1>4. outcome' \in [Pollers -> [ok : BOOLEAN, err : BOOLEAN]]
  BY <1>2, <1>3 DEF TypeOK
<1> QED BY <1>1, <1>4

\* So does the decision of a transaction.
LEMMA SettleType ==
  ASSUME TypeOK, NEW p \in Pollers, NEW st \in {"open", "lost"}, Settle(p, st)
  PROVE  /\ inc' \in [Incidents -> Incident]
         /\ wrote' \in [Pollers -> [Services -> Statuses \cup {Null}]]
         /\ created' \in [Pollers -> [Services -> Incidents \cup {Null}]]
<1>1. ASSUME NEW i \in Incidents PROVE inc'[i] \in Incident
  <2>1. inc'[i] = IF CreatedBy(p, i)
                  THEN [state |-> st, auto |-> TRUE, links |-> inc[i].links, refined |-> FALSE,
                        pending |-> Null, reopened |-> FALSE]
                  ELSE inc[i]
    BY DEF Settle
  <2>2. inc[i] \in Incident
    BY DEF TypeOK
  <2>3. inc[i].links \in SUBSET Services
    BY <2>2 DEF Incident
  <2>4. [state |-> st, auto |-> TRUE, links |-> inc[i].links, refined |-> FALSE,
         pending |-> Null, reopened |-> FALSE] \in Incident
    BY <2>3 DEF Incident
  <2> QED BY <2>1, <2>2, <2>4
<1>2. inc' \in [Incidents -> Incident]
  BY <1>1 DEF Settle
<1>3. /\ wrote' \in [Pollers -> [Services -> Statuses \cup {Null}]]
      /\ created' \in [Pollers -> [Services -> Incidents \cup {Null}]]
  BY DEF Settle, TypeOK
<1> QED BY <1>2, <1>3

\* And its end.
LEMMA EndTxType ==
  ASSUME TypeOK, NEW p \in Pollers, EndTx(p)
  PROVE  /\ txn' \in [Pollers -> {"none", "open", "aborted"}]
         /\ todo' \in [Pollers -> SUBSET Services]
         /\ snap' \in [Pollers -> [Services -> Statuses]]
         /\ outcome' \in [Pollers -> [ok : BOOLEAN, err : BOOLEAN]]
BY DEF EndTx, TypeOK, Statuses

\* And an UPDATE of an incident with well-typed columns.
LEMMA PutType ==
  ASSUME TypeOK, NEW i \in Incidents,
         NEW state \in {"none", "uncommitted", "open", "resolved", "lost"},
         NEW refined \in BOOLEAN, NEW pending \in Texts \cup {Null}, NEW reopened \in BOOLEAN,
         Put(i, state, refined, pending, reopened)
  PROVE  inc' \in [Incidents -> Incident]
<1>1. inc[i] \in Incident
  BY DEF TypeOK
<1>2. inc[i].auto \in BOOLEAN /\ inc[i].links \in SUBSET Services
  BY <1>1 DEF Incident
<1>3. [state |-> state, auto |-> inc[i].auto, links |-> inc[i].links, refined |-> refined,
       pending |-> pending, reopened |-> reopened] \in Incident
  BY <1>2 DEF Incident
<1> QED BY <1>3 DEF Put, TypeOK

\* The columns of an incident.
LEMMA FieldTypes ==
  ASSUME TypeOK, NEW i \in Incidents
  PROVE  /\ inc[i] \in Incident
         /\ inc[i].state \in {"none", "uncommitted", "open", "resolved", "lost"}
         /\ inc[i].auto \in BOOLEAN /\ inc[i].links \in SUBSET Services
         /\ inc[i].refined \in BOOLEAN /\ inc[i].pending \in Texts \cup {Null}
         /\ inc[i].reopened \in BOOLEAN
<1>1. inc[i] \in Incident
  BY DEF TypeOK
<1> QED BY <1>1 DEF Incident

\* Every step of a poller instance keeps the types.
LEMMA PollerStepType ==
  ASSUME TypeOK, NEW p \in Pollers,
         \/ Start(p) \/ Stop(p) \/ Abort(p) \/ Cycle(p)
         \/ \E key \in cooling[p] : CooldownOver(p, key)
  PROVE  TypeOK'
<1> USE BoundsAssumption
<1>1. CASE Start(p)
  BY <1>1 DEF Start, TypeOK
<1>2. CASE Stop(p)
  <2>1. Settle(p, "lost") /\ EndTx(p)
    BY <1>2 DEF Stop
  <2> HIDE DEF Settle, EndTx
  <2>2. /\ inc' \in [Incidents -> Incident]
        /\ wrote' \in [Pollers -> [Services -> Statuses \cup {Null}]]
        /\ created' \in [Pollers -> [Services -> Incidents \cup {Null}]]
    BY <2>1, SettleType
  <2> QED BY <1>2, <2>1, <2>2, EndTxType DEF Stop, TypeOK
<1>3. CASE Abort(p)
  <2>1. Settle(p, "lost")
    BY <1>3 DEF Abort
  <2> QED BY <1>3, <2>1, SettleType DEF Abort, TypeOK
<1>4. CASE pollCycle(p)
  <2>1. \A s \in Services : svc[s].status \in Statuses
    BY DEF TypeOK
  <2> QED BY <1>4, <2>1 DEF pollCycle, TypeOK
<1>5. ASSUME NEW s \in Services, NEW st \in Observable[s], pollService(p, s, st)
      PROVE  TypeOK'
  <2>1. st \in Statuses
    BY ObservableAssumption
  <2>2. HandleTransition(p, s, snap[p][s], st) /\ Polled(p, s, TRUE)
    BY <1>5 DEF pollService
  <2>3. /\ inc' \in [Incidents -> Incident]
        /\ created' \in [Pollers -> [Services -> Incidents \cup {Null}]]
        /\ enr' \in SUBSET Enrichment
        /\ cooling' \in [Pollers -> SUBSET (Kinds \X (Services \cup Incidents))]
    BY <2>2, HandleTransitionType
  <2>4. /\ todo' \in [Pollers -> SUBSET Services]
        /\ outcome' \in [Pollers -> [ok : BOOLEAN, err : BOOLEAN]]
    BY <2>2, PolledType
  <2> QED BY <1>5, <2>1, <2>3, <2>4 DEF pollService, TypeOK
<1>6. ASSUME NEW s \in Services, NEW st \in Observable[s], pollServiceAborted(p, s, st)
      PROVE  TypeOK'
  <2>1. st \in Statuses
    BY ObservableAssumption
  <2> QED BY <1>6, <2>1, PolledType DEF pollServiceAborted, TypeOK
<1>7. ASSUME NEW s \in Services, pollServiceFails(p, s)
      PROVE  TypeOK'
  BY <1>7, PolledType DEF pollServiceFails, TypeOK
<1>8. CASE Commit(p)
  <2>1. Settle(p, "open") /\ EndTx(p)
    BY <1>8 DEF Commit
  <2>2. /\ inc' \in [Incidents -> Incident]
        /\ wrote' \in [Pollers -> [Services -> Statuses \cup {Null}]]
        /\ created' \in [Pollers -> [Services -> Incidents \cup {Null}]]
    BY <2>1, SettleType
  <2>3. Published(p) \in [Services -> [status : Statuses, analysis : BOOLEAN]]
    <3> SUFFICES ASSUME NEW s \in Services
                 PROVE  [status |-> IF wrote[p][s] = Null THEN svc[s].status ELSE wrote[p][s],
                         analysis |-> svc[s].analysis /\ ~Clears(p, s)]
                          \in [status : Statuses, analysis : BOOLEAN]
      BY DEF Published
    <3>1. (IF wrote[p][s] = Null THEN svc[s].status ELSE wrote[p][s]) \in Statuses
      BY DEF TypeOK
    <3>2. (svc[s].analysis /\ ~Clears(p, s)) \in BOOLEAN
      OBVIOUS
    <3> QED BY <3>1, <3>2
  <2>4. Mark(p) \in {"active", "invalid"}
    BY DEF Mark, TypeOK
  <2> QED BY <1>8, <2>1, <2>2, <2>3, <2>4, EndTxType DEF Commit, TypeOK
<1>9. CASE Rollback(p)
  <2>1. Settle(p, "lost") /\ EndTx(p)
    BY <1>9 DEF Rollback
  <2>2. /\ inc' \in [Incidents -> Incident]
        /\ wrote' \in [Pollers -> [Services -> Statuses \cup {Null}]]
        /\ created' \in [Pollers -> [Services -> Incidents \cup {Null}]]
    BY <2>1, SettleType
  <2>3. faults' \in 0..MaxFaults
    BY <1>9 DEF Rollback, TypeOK
  <2> QED BY <1>9, <2>1, <2>2, <2>3, EndTxType DEF Rollback, TypeOK
<1>10. ASSUME NEW key \in cooling[p], CooldownOver(p, key)
       PROVE  TypeOK'
  BY <1>10 DEF CooldownOver, TypeOK, pollVars
<1> QED BY <1>1, <1>2, <1>3, <1>4, <1>5, <1>6, <1>7, <1>8, <1>9, <1>10 DEF Cycle

\* Every step of an enrichment does.
LEMMA EnrichStepType ==
  ASSUME TypeOK, NEW e \in enr, Enrich(e)
  PROVE  TypeOK'
<1> USE BoundsAssumption
<1>e. e \in Enrichment /\ e.by \in Pollers /\ e.kind \in Kinds /\ e.target \in Services \cup Incidents
  BY DEF TypeOK, Enrichment
<1>1. CASE Generate(e)
  <2>1. [by |-> e.by, kind |-> e.kind, target |-> e.target, phase |-> "writing"] \in Enrichment
    BY <1>e DEF Enrichment
  <2> QED BY <1>1, <2>1 DEF Generate, TypeOK, pollVars
<1>2. CASE EnrichmentFails(e)
  BY <1>2 DEF EnrichmentFails, TypeOK, pollVars
<1>3. CASE UpdateStatusAnalysis(e)
  <2>1. svc' \in [Services -> [status : Statuses, analysis : BOOLEAN]]
    BY <1>3 DEF UpdateStatusAnalysis, TypeOK
  <2> QED BY <1>3, <2>1 DEF UpdateStatusAnalysis, TypeOK, pollVars
<1>4. CASE SetDescription(e)
  <2>1. inc' \in [Incidents -> Incident]
    <3>1. CASE e.target \in Incidents
      <4>1. TRUE \in BOOLEAN /\ inc[e.target].pending \in Texts \cup {Null}
            /\ inc[e.target].reopened \in BOOLEAN
        BY <3>1, FieldTypes
      <4>2. CASE Put(e.target, "open", TRUE, inc[e.target].pending, inc[e.target].reopened)
        BY <3>1, <4>1, <4>2, PutType
      <4>3. CASE UNCHANGED inc
        BY <4>3 DEF TypeOK
      <4> QED BY <1>4, <4>2, <4>3 DEF SetDescription
    <3>2. CASE e.target \notin Incidents
      BY <3>2, <1>4 DEF SetDescription, Put, TypeOK
    <3> QED BY <3>1, <3>2
  <2> QED BY <1>4, <2>1 DEF SetDescription, TypeOK, pollVars
<1>5. ASSUME NEW text \in Texts, SetPendingCloseComment(e, text)
      PROVE  TypeOK'
  <2>1. inc' \in [Incidents -> Incident]
    <3>1. CASE e.target \in Incidents
      BY <3>1, <1>5, PutType, FieldTypes DEF SetPendingCloseComment, TypeOK
    <3>2. CASE e.target \notin Incidents
      BY <3>2, <1>5 DEF SetPendingCloseComment, Put, TypeOK
    <3> QED BY <3>1, <3>2
  <2> QED BY <1>5, <2>1 DEF SetPendingCloseComment, TypeOK, pollVars
<1> QED BY <1>1, <1>2, <1>3, <1>4, <1>5 DEF Enrich

\* Every request of an operator does.
LEMMA OperatorStepType ==
  ASSUME TypeOK, Operator
  PROVE  TypeOK'
<1> USE BoundsAssumption
<1>1. CASE ListPaginated
  BY <1>1, FieldTypes DEF ListPaginated, TypeOK, pollVars
<1>2. ASSUME NEW i \in Incidents, NEW S \in SUBSET Services, Create(i, S)
      PROVE  TypeOK'
  <2>1. [state |-> "open", auto |-> FALSE, links |-> S, refined |-> FALSE,
         pending |-> Null, reopened |-> FALSE] \in Incident
    BY DEF Incident
  <2> QED BY <1>2, <2>1 DEF Create, Operate, TypeOK, pollVars
<1>3. ASSUME NEW i \in Incidents, MailResolved(i)
      PROVE  mails' \in [Incidents -> 0..2]
  <2>1. mails[i] \in 0..2
    BY DEF TypeOK
  <2>2. (IF mails[i] = 2 THEN 2 ELSE mails[i] + 1) \in 0..2
    BY <2>1
  <2> QED BY <1>3, <2>2 DEF MailResolved, TypeOK
<1>4. ASSUME NEW i \in Incidents, Resolve(i)
      PROVE  TypeOK'
  <2>1. inc' \in [Incidents -> Incident]
    BY <1>4, PutType, FieldTypes DEF Resolve
  <2>2. mails' \in [Incidents -> 0..2]
    BY <1>4, <1>3 DEF Resolve
  <2> QED BY <1>4, <2>1, <2>2 DEF Resolve, Operate, TypeOK, pollVars
<1>5. ASSUME NEW i \in Incidents, Reopen(i)
      PROVE  TypeOK'
  <2>1. inc' \in [Incidents -> Incident]
    BY <1>5, PutType, FieldTypes DEF Reopen
  <2>2. mails' \in [Incidents -> 0..2]
    <3>1. 0 \in 0..2
      OBVIOUS
    <3> QED BY <1>5, <3>1 DEF Reopen, TypeOK
  <2> QED BY <1>5, <2>1, <2>2 DEF Reopen, TypeOK, pollVars
<1>6. ASSUME NEW i \in Incidents, ConfirmPendingClose(i)
      PROVE  TypeOK'
  <2>1. inc' \in [Incidents -> Incident]
    BY <1>6, PutType, FieldTypes DEF ConfirmPendingClose
  <2>2. mails' \in [Incidents -> 0..2]
    BY <1>6, <1>3 DEF ConfirmPendingClose
  <2> QED BY <1>6, <2>1, <2>2 DEF ConfirmPendingClose, Operate, TypeOK, pollVars
<1>7. ASSUME NEW i \in Incidents, DiscardCloseProposal(i)
      PROVE  TypeOK'
  <2>1. inc' \in [Incidents -> Incident]
    BY <1>7, PutType, FieldTypes DEF DiscardCloseProposal
  <2> QED BY <1>7, <2>1 DEF DiscardCloseProposal, Operate, TypeOK, pollVars
<1> QED BY <1>1, <1>2, <1>4, <1>5, <1>6, <1>7 DEF Operator

\* Every step of a poller, an enrichment or an operator keeps the types: in
\* particular a cycle only ever publishes one of the four statuses.
THEOREM TypeCorrect == Spec => []TypeOK
<1>1. Init => TypeOK
  <2>1. NoIncident \in Incident
    BY DEF NoIncident, Incident
  <2> QED BY <2>1, BoundsAssumption DEF Init, TypeOK, Statuses
<1>2. TypeOK /\ [Next]_vars => TypeOK'
  <2> SUFFICES ASSUME TypeOK, [Next]_vars PROVE TypeOK'
    OBVIOUS
  <2>1. CASE UNCHANGED vars
    BY <2>1 DEF vars, pollVars, TypeOK
  <2> QED BY <2>1, PollerStepType, EnrichStepType, OperatorStepType DEF Next
<1> QED BY <1>1, <1>2, PTL DEF Spec

-----------------------------------------------------------------------------
(* One detected incident per service.  The reason is not the check in       *)
(* handleOutageTransition alone, which cannot see what another instance has *)
(* inserted and not committed, but that UpdateStatus comes before it: the   *)
(* lock on the service's row is held until the insert is decided.           *)

RowLock ==
  \A p, q \in Pollers, s \in Services : (wrote[p][s] # Null /\ wrote[q][s] # Null) => p = q

CreatedOwn ==
  \A p \in Pollers, s \in Services : created[p][s] # Null =>
    /\ wrote[p][s] # Null
    /\ inc[created[p][s]].state = "uncommitted"
    /\ inc[created[p][s]].auto /\ ~inc[created[p][s]].reopened
    /\ inc[created[p][s]].links = {s}

UncommittedOwned ==
  \A i \in Incidents : inc[i].state = "uncommitted" => \E p \in Pollers : CreatedBy(p, i)

PendingVisible ==
  \A i \in Incidents : inc[i].pending # Null => inc[i].state \in {"open", "resolved"}

LockInv == RowLock /\ CreatedOwn /\ UncommittedOwned /\ PendingVisible /\ OneDetectedIncident

\* Two transactions never own the same incident.
LEMMA OneOwner ==
  ASSUME TypeOK, RowLock, CreatedOwn, NEW p \in Pollers, NEW q \in Pollers, NEW i \in Incidents,
         CreatedBy(p, i), CreatedBy(q, i)
  PROVE  p = q
<1>1. PICK s \in Services : created[p][s] = i
  BY DEF CreatedBy
<1>2. PICK t \in Services : created[q][t] = i
  BY DEF CreatedBy
<1>3. i # Null
  BY NullAssumption
<1>4. {s} = {t} /\ wrote[p][s] # Null /\ wrote[q][t] # Null
  BY <1>1, <1>2, <1>3 DEF CreatedOwn
<1> QED BY <1>4 DEF RowLock

\* Deciding a transaction, either way, keeps the invariant.
LEMMA SettleInv ==
  ASSUME TypeOK, LockInv, NEW p \in Pollers, NEW st \in {"open", "lost"}, Settle(p, st)
  PROVE  LockInv'
<1> USE DEF LockInv
<1>1. \A i \in Incidents : CreatedBy(p, i) =>
        /\ inc[i].state = "uncommitted" /\ inc[i].auto /\ ~inc[i].reopened
        /\ inc'[i].state = st /\ inc'[i].auto = TRUE /\ inc'[i].links = inc[i].links
        /\ inc'[i].pending = Null /\ inc'[i].reopened = FALSE
  <2> TAKE i \in Incidents
  <2> HAVE CreatedBy(p, i)
  <2>1. PICK s \in Services : created[p][s] = i
    BY DEF CreatedBy
  <2>2. inc[i].state = "uncommitted" /\ inc[i].auto /\ ~inc[i].reopened
    BY <2>1, NullAssumption DEF CreatedOwn
  <2> QED BY <2>2 DEF Settle
<1>2. \A i \in Incidents : ~CreatedBy(p, i) => inc'[i] = inc[i]
  BY DEF Settle
<1>3. \A q \in Pollers, s \in Services :
        /\ wrote'[q][s] = (IF q = p THEN Null ELSE wrote[q][s])
        /\ created'[q][s] = (IF q = p THEN Null ELSE created[q][s])
  BY DEF Settle, TypeOK
<1>4. RowLock'
  BY <1>3 DEF RowLock
<1>5. CreatedOwn'
  <2> SUFFICES ASSUME NEW q \in Pollers, NEW s \in Services, created'[q][s] # Null
               PROVE  /\ wrote'[q][s] # Null
                      /\ inc'[created'[q][s]].state = "uncommitted"
                      /\ inc'[created'[q][s]].auto /\ ~inc'[created'[q][s]].reopened
                      /\ inc'[created'[q][s]].links = {s}
    BY DEF CreatedOwn
  <2>1. q # p /\ created'[q][s] = created[q][s] /\ wrote'[q][s] = wrote[q][s]
    BY <1>3
  <2>2. created[q][s] \in Incidents /\ CreatedBy(q, created[q][s])
    BY <2>1 DEF TypeOK, CreatedBy
  <2>3. ~CreatedBy(p, created[q][s])
    BY <2>1, <2>2, OneOwner
  <2> QED BY <2>1, <2>2, <2>3, <1>2 DEF CreatedOwn
<1>6. UncommittedOwned'
  <2> SUFFICES ASSUME NEW i \in Incidents, inc'[i].state = "uncommitted"
               PROVE  \E q \in Pollers : \E s \in Services : created'[q][s] = i
    BY DEF UncommittedOwned, CreatedBy
  <2>1. ~CreatedBy(p, i)
    BY <1>1
  <2>2. PICK q \in Pollers : CreatedBy(q, i)
    BY <2>1, <1>2 DEF UncommittedOwned
  <2>3. q # p
    BY <2>1, <2>2
  <2> QED BY <2>2, <2>3, <1>3 DEF CreatedBy
<1>7. PendingVisible'
  BY <1>1, <1>2 DEF PendingVisible
<1>8. OneDetectedIncident'
  <2>1. ASSUME NEW i \in Incidents, Detected(i)'
        PROVE  Detected(i) /\ inc'[i].links = inc[i].links
    <3>1. CASE CreatedBy(p, i)
      BY <3>1, <1>1 DEF Detected
    <3>2. CASE ~CreatedBy(p, i)
      BY <2>1, <3>2, <1>2 DEF Detected
    <3> QED BY <3>1, <3>2
  <2> QED BY <2>1 DEF OneDetectedIncident
<1> QED BY <1>4, <1>5, <1>6, <1>7, <1>8

\* An UPDATE of a visible incident keeps it, provided that only a reopening
\* makes a resolved incident open again.
LEMMA UpdateInv ==
  ASSUME TypeOK, LockInv, NEW i \in Incidents,
         inc[i].state \in {"open", "resolved"},
         \A j \in Incidents : j # i => inc'[j] = inc[j],
         inc'[i].state \in {"open", "resolved"},
         inc'[i].auto = inc[i].auto, inc'[i].links = inc[i].links,
         inc[i].reopened => inc'[i].reopened,
         inc'[i].state = "open" => (inc[i].state = "open" \/ inc'[i].reopened),
         UNCHANGED <<wrote, created>>
  PROVE  LockInv'
<1> USE DEF LockInv
<1>1. RowLock'
  BY DEF RowLock
<1>2. CreatedOwn'
  <2> SUFFICES ASSUME NEW q \in Pollers, NEW s \in Services, created'[q][s] # Null
               PROVE  /\ wrote'[q][s] # Null
                      /\ inc'[created'[q][s]].state = "uncommitted"
                      /\ inc'[created'[q][s]].auto /\ ~inc'[created'[q][s]].reopened
                      /\ inc'[created'[q][s]].links = {s}
    BY DEF CreatedOwn
  <2>1. created[q][s] \in Incidents /\ created[q][s] # i
    BY DEF CreatedOwn, TypeOK
  <2> QED BY <2>1 DEF CreatedOwn
<1>3. UncommittedOwned'
  BY DEF UncommittedOwned, CreatedBy
<1>4. PendingVisible'
  BY DEF PendingVisible
<1>5. OneDetectedIncident'
  <2>1. ASSUME NEW j \in Incidents, Detected(j)'
        PROVE  Detected(j) /\ inc'[j].links = inc[j].links
    BY <2>1 DEF Detected
  <2> QED BY <2>1 DEF OneDetectedIncident
<1> QED BY <1>1, <1>2, <1>3, <1>4, <1>5

\* The UPDATEs that do not reopen.
LEMMA PutInv ==
  ASSUME TypeOK, LockInv, NEW i \in Incidents, NEW state \in {"open", "resolved"},
         NEW refined, NEW pending,
         inc[i].state \in {"open", "resolved"},
         state = "open" => inc[i].state = "open",
         Put(i, state, refined, pending, inc[i].reopened),
         UNCHANGED <<wrote, created>>
  PROVE  LockInv'
<1>1. \A j \in Incidents : j # i => inc'[j] = inc[j]
  BY DEF Put, TypeOK
<1>2. /\ inc'[i].state = state /\ inc'[i].auto = inc[i].auto /\ inc'[i].links = inc[i].links
      /\ inc'[i].reopened = inc[i].reopened
  BY DEF Put, TypeOK
<1> QED BY <1>1, <1>2, UpdateInv

\* An operator's new incident is not a detected one.
LEMMA CreateInv ==
  ASSUME TypeOK, LockInv, NEW i \in Incidents, NEW S \in SUBSET Services, Create(i, S)
  PROVE  LockInv'
<1> USE DEF LockInv
<1>0. UNCHANGED <<wrote, created>> /\ inc[i].state = "none"
  BY DEF Create, Operate, pollVars
<1>1. \A j \in Incidents : j # i => inc'[j] = inc[j]
  BY DEF Create, TypeOK
<1>2. inc'[i].state = "open" /\ inc'[i].auto = FALSE /\ inc'[i].pending = Null
  BY DEF Create, TypeOK
<1>3. RowLock'
  BY <1>0 DEF RowLock
<1>4. CreatedOwn'
  <2> SUFFICES ASSUME NEW q \in Pollers, NEW s \in Services, created'[q][s] # Null
               PROVE  /\ wrote'[q][s] # Null
                      /\ inc'[created'[q][s]].state = "uncommitted"
                      /\ inc'[created'[q][s]].auto /\ ~inc'[created'[q][s]].reopened
                      /\ inc'[created'[q][s]].links = {s}
    BY DEF CreatedOwn
  <2>1. created[q][s] \in Incidents /\ created[q][s] # i
    BY <1>0 DEF CreatedOwn, TypeOK
  <2> QED BY <2>1, <1>0, <1>1 DEF CreatedOwn
<1>5. UncommittedOwned'
  BY <1>0, <1>1, <1>2 DEF UncommittedOwned, CreatedBy
<1>6. PendingVisible'
  BY <1>1, <1>2 DEF PendingVisible
<1>7. OneDetectedIncident'
  <2>1. ASSUME NEW j \in Incidents, Detected(j)'
        PROVE  Detected(j) /\ inc'[j].links = inc[j].links
    BY <2>1, <1>1, <1>2 DEF Detected
  <2> QED BY <2>1 DEF OneDetectedIncident
<1> QED BY <1>3, <1>4, <1>5, <1>6, <1>7

\* The poll of one service: the row is free, so nobody else is inserting an
\* incident for it, and the check rules out a committed one.
LEMMA PollServiceInv ==
  ASSUME TypeOK, LockInv, NEW p \in Pollers, NEW s \in Services, NEW st \in Observable[s],
         pollService(p, s, st)
  PROVE  LockInv'
<1> USE DEF LockInv
<1>0. st # Null
  BY ObservableAssumption, NullAssumption
<1>1. \A q \in Pollers : wrote[q][s] = Null /\ created[q][s] = Null
  BY DEF pollService, RowFree, CreatedOwn
<1>2. \A q \in Pollers, t \in Services :
        wrote'[q][t] = IF q = p /\ t = s THEN st ELSE wrote[q][t]
  BY DEF pollService, TypeOK
<1>3. RowLock'
  BY <1>1, <1>2 DEF RowLock
<1>4. CASE UNCHANGED <<inc, created>>
  <2>1. CreatedOwn'
    BY <1>0, <1>2, <1>4 DEF CreatedOwn
  <2>2. UncommittedOwned' /\ PendingVisible' /\ OneDetectedIncident'
    BY <1>4 DEF UncommittedOwned, CreatedBy, PendingVisible, OneDetectedIncident, Detected
  <2> QED BY <1>3, <2>1, <2>2
<1>5. CASE handleOutageTransition(p, s) /\ ~UNCHANGED <<inc, created>>
  <2>1. \A i \in Incidents : ~HasOpenIncidentForService(i, s)
    BY <1>5 DEF handleOutageTransition
  <2>2. PICK n \in Incidents :
          /\ inc[n].state = "none"
          /\ inc' = [inc EXCEPT ![n] = [state |-> "uncommitted", auto |-> TRUE, links |-> {s},
                                        refined |-> FALSE, pending |-> Null, reopened |-> FALSE]]
          /\ created' = [created EXCEPT ![p] = [@ EXCEPT ![s] = n]]
    BY <1>5 DEF handleOutageTransition, CreateDetected
  <2>3. \A j \in Incidents : j # n => inc'[j] = inc[j]
    BY <2>2 DEF TypeOK
  <2>4. /\ inc'[n].state = "uncommitted" /\ inc'[n].auto = TRUE /\ inc'[n].links = {s}
        /\ inc'[n].pending = Null /\ inc'[n].reopened = FALSE
    BY <2>2 DEF TypeOK
  <2>5. \A q \in Pollers, t \in Services :
          created'[q][t] = IF q = p /\ t = s THEN n ELSE created[q][t]
    BY <2>2 DEF TypeOK
  <2>6. CreatedOwn'
    <3> SUFFICES ASSUME NEW q \in Pollers, NEW t \in Services, created'[q][t] # Null
                 PROVE  /\ wrote'[q][t] # Null
                        /\ inc'[created'[q][t]].state = "uncommitted"
                        /\ inc'[created'[q][t]].auto /\ ~inc'[created'[q][t]].reopened
                        /\ inc'[created'[q][t]].links = {t}
      BY DEF CreatedOwn
    <3>1. CASE q = p /\ t = s
      BY <3>1, <2>4, <2>5, <1>0, <1>2
    <3>2. CASE ~(q = p /\ t = s)
      <4>1. created'[q][t] = created[q][t] /\ wrote'[q][t] = wrote[q][t]
        BY <3>2, <2>5, <1>2
      <4>2. created[q][t] \in Incidents /\ created[q][t] # n
        BY <4>1, <2>2 DEF CreatedOwn, TypeOK
      <4> QED BY <4>1, <4>2, <2>3 DEF CreatedOwn
    <3> QED BY <3>1, <3>2
  <2>7. UncommittedOwned'
    <3> SUFFICES ASSUME NEW i \in Incidents, inc'[i].state = "uncommitted"
                 PROVE  \E q \in Pollers : \E t \in Services : created'[q][t] = i
      BY DEF UncommittedOwned, CreatedBy
    <3>1. CASE i = n
      BY <3>1, <2>5
    <3>2. CASE i # n
      <4>1. PICK q \in Pollers, t \in Services : created[q][t] = i
        BY <3>2, <2>3 DEF UncommittedOwned, CreatedBy
      <4>2. created'[q][t] = i
        BY <4>1, <2>5, <1>1, NullAssumption
      <4> QED BY <4>2
    <3> QED BY <3>1, <3>2
  <2>8. PendingVisible'
    BY <2>3, <2>4 DEF PendingVisible
  <2>9. OneDetectedIncident'
    <3>1. ASSUME NEW j \in Incidents, j # n, Detected(j)'
          PROVE  Detected(j) /\ inc'[j].links = inc[j].links /\ s \notin inc[j].links
      <4>1. Detected(j) /\ inc'[j].links = inc[j].links
        BY <3>1, <2>3 DEF Detected
      <4>2. CASE inc[j].state = "open"
        BY <4>1, <4>2, <2>1 DEF Detected, HasOpenIncidentForService
      <4>3. CASE inc[j].state = "uncommitted"
        <5>1. PICK q \in Pollers, t \in Services : created[q][t] = j
          BY <4>3 DEF UncommittedOwned, CreatedBy
        <5>2. inc[j].links = {t} /\ t # s
          BY <5>1, <1>1, NullAssumption DEF CreatedOwn
        <5> QED BY <4>1, <5>2
      <4> QED BY <4>1, <4>2, <4>3 DEF Detected
    <3> SUFFICES ASSUME NEW i \in Incidents, NEW j \in Incidents, Detected(i)', Detected(j)',
                        inc'[i].links \cap inc'[j].links # {}
                 PROVE  i = j
      BY DEF OneDetectedIncident
    <3>2. CASE i # n /\ j # n
      BY <3>1, <3>2 DEF OneDetectedIncident
    <3>3. CASE i = n /\ j # n
      BY <3>1, <3>3, <2>4
    <3>4. CASE i # n /\ j = n
      BY <3>1, <3>4, <2>4
    <3> QED BY <3>2, <3>3, <3>4
  <2> QED BY <1>3, <2>6, <2>7, <2>8, <2>9
<1>6. UNCHANGED <<inc, created>> \/ handleOutageTransition(p, s)
  BY DEF pollService, HandleTransition, handleRecoveryTransition
<1> QED BY <1>4, <1>5, <1>6

\* Every step keeps the invariant.
LEMMA LockStep ==
  ASSUME TypeOK, LockInv, [Next]_vars
  PROVE  LockInv'
<1>1. CASE UNCHANGED <<inc, wrote, created>>
  <2>1. RowLock' /\ CreatedOwn'
    BY <1>1 DEF LockInv, RowLock, CreatedOwn
  <2>2. UncommittedOwned' /\ PendingVisible'
    BY <1>1 DEF LockInv, UncommittedOwned, CreatedBy, PendingVisible
  <2>3. OneDetectedIncident'
    BY <1>1 DEF LockInv, OneDetectedIncident, Detected
  <2> QED BY <2>1, <2>2, <2>3 DEF LockInv
<1>2. ASSUME NEW p \in Pollers, NEW st \in {"open", "lost"}, Settle(p, st)
      PROVE  LockInv'
  BY <1>2, SettleInv
<1>3. ASSUME NEW p \in Pollers, Cycle(p)
      PROVE  LockInv'
  <2>1. CASE pollCycle(p)
    BY <2>1, <1>1 DEF pollCycle
  <2>2. ASSUME NEW s \in Services, NEW st \in Observable[s], pollService(p, s, st)
        PROVE  LockInv'
    BY <2>2, PollServiceInv
  <2>3. ASSUME NEW s \in Services, NEW st \in Observable[s], pollServiceAborted(p, s, st)
        PROVE  LockInv'
    BY <2>3, <1>1 DEF pollServiceAborted
  <2>4. ASSUME NEW s \in Services, pollServiceFails(p, s)
        PROVE  LockInv'
    BY <2>4, <1>1 DEF pollServiceFails
  <2>5. CASE Commit(p)
    BY <2>5, <1>2 DEF Commit
  <2>6. CASE Rollback(p)
    BY <2>6, <1>2 DEF Rollback
  <2> QED BY <1>3, <2>1, <2>2, <2>3, <2>4, <2>5, <2>6 DEF Cycle
<1>4. ASSUME NEW p \in Pollers,
             \/ Start(p) \/ Stop(p) \/ Abort(p)
             \/ \E key \in cooling[p] : CooldownOver(p, key)
      PROVE  LockInv'
  <2>1. CASE Start(p)
    BY <2>1, <1>1 DEF Start
  <2>2. CASE Stop(p)
    BY <2>2, <1>2 DEF Stop
  <2>3. CASE Abort(p)
    BY <2>3, <1>2 DEF Abort
  <2>4. ASSUME NEW key \in cooling[p], CooldownOver(p, key)
        PROVE  LockInv'
    BY <2>4, <1>1 DEF CooldownOver, pollVars
  <2> QED BY <1>4, <2>1, <2>2, <2>3, <2>4
<1>5. ASSUME NEW e \in enr, Enrich(e)
      PROVE  LockInv'
  <2>0. CASE UNCHANGED <<inc, pollVars>>
    BY <2>0, <1>1 DEF pollVars
  <2>1. ASSUME NEW refined, NEW pending,
               inc[e.target].state = "open", UNCHANGED pollVars,
               Put(e.target, "open", refined, pending, inc[e.target].reopened)
        PROVE  LockInv'
    <3>1. CASE e.target \in Incidents
      BY <3>1, <2>1, PutInv DEF pollVars
    <3>2. CASE e.target \notin Incidents
      <4>1. inc' = inc
        BY <3>2, <2>1 DEF Put, TypeOK
      <4> QED BY <4>1, <2>1, <2>0
    <3> QED BY <3>1, <3>2
  <2>2. CASE Generate(e) \/ EnrichmentFails(e) \/ UpdateStatusAnalysis(e)
    BY <2>2, <2>0 DEF Generate, EnrichmentFails, UpdateStatusAnalysis
  <2>3. CASE SetDescription(e)
    BY <2>3, <2>0, <2>1 DEF SetDescription
  <2>4. ASSUME NEW text \in Texts, SetPendingCloseComment(e, text)
        PROVE  LockInv'
    BY <2>4, <2>0, <2>1 DEF SetPendingCloseComment
  <2> QED BY <1>5, <2>2, <2>3, <2>4 DEF Enrich
<1>6. CASE Operator
  <2>1. CASE ListPaginated
    BY <2>1, <1>1 DEF ListPaginated, pollVars
  <2>2. ASSUME NEW i \in Incidents, NEW S \in SUBSET Services, Create(i, S)
        PROVE  LockInv'
    BY <2>2, CreateInv
  <2>3. ASSUME NEW i \in Incidents, Resolve(i)
        PROVE  LockInv'
    BY <2>3, PutInv DEF Resolve, Operate, pollVars
  <2>4. ASSUME NEW i \in Incidents, Reopen(i)
        PROVE  LockInv'
    <3>1. /\ inc[i].state = "resolved" /\ UNCHANGED <<wrote, created>>
          /\ Put(i, "open", inc[i].refined, inc[i].pending, TRUE)
      BY <2>4 DEF Reopen, pollVars
    <3>2. \A j \in Incidents : j # i => inc'[j] = inc[j]
      BY <3>1 DEF Put, TypeOK
    <3>3. /\ inc'[i].state = "open" /\ inc'[i].auto = inc[i].auto /\ inc'[i].links = inc[i].links
          /\ inc'[i].reopened = TRUE
      BY <3>1 DEF Put, TypeOK
    <3> QED BY <3>1, <3>2, <3>3, UpdateInv
  <2>5. ASSUME NEW i \in Incidents, ConfirmPendingClose(i)
        PROVE  LockInv'
    <3>1. inc[i].state \in {"open", "resolved"}
      BY <2>5 DEF ConfirmPendingClose, LockInv, PendingVisible
    <3> QED BY <2>5, <3>1, PutInv DEF ConfirmPendingClose, Operate, pollVars
  <2>6. ASSUME NEW i \in Incidents, DiscardCloseProposal(i)
        PROVE  LockInv'
    <3>1. inc[i].state \in {"open", "resolved"}
      BY <2>6 DEF DiscardCloseProposal, LockInv, PendingVisible
    <3> QED BY <2>6, <3>1, PutInv DEF DiscardCloseProposal, Operate, pollVars
  <2> QED BY <1>6, <2>1, <2>2, <2>3, <2>4, <2>5, <2>6 DEF Operator
<1>7. CASE UNCHANGED vars
  BY <1>7, <1>1 DEF vars, pollVars
<1> QED BY <1>3, <1>4, <1>5, <1>6, <1>7 DEF Next

\* So it always holds.
LEMMA LockInvariant == Spec => [](TypeOK /\ LockInv)
<1>1. Init => LockInv
  BY DEF Init, LockInv, RowLock, CreatedOwn, UncommittedOwned, PendingVisible,
         OneDetectedIncident, Detected, NoIncident
<1>2. TypeOK /\ LockInv /\ [Next]_vars => LockInv'
  BY LockStep
<1> QED BY <1>1, <1>2, TypeCorrect, PTL DEF Spec

\* handleOutageTransition never gives a service a second detected incident,
\* whatever the pollers, enrichments and operators do and however many
\* instances overlap.
THEOREM NoDuplicateIncident == Spec => []OneDetectedIncident
<1>1. LockInv => OneDetectedIncident
  BY DEF LockInv
<1> QED BY <1>1, LockInvariant, PTL

-----------------------------------------------------------------------------
(* What late enrichments and operators may do to an incident.               *)

\* Deciding a transaction changes only incidents nobody else can see.
LEMMA SettleKeeps ==
  ASSUME TypeOK, LockInv, NEW p \in Pollers, NEW st, Settle(p, st),
         NEW i \in Incidents, inc[i].state # "uncommitted"
  PROVE  inc'[i] = inc[i]
<1>1. ~CreatedBy(p, i)
  BY NullAssumption DEF LockInv, CreatedOwn, CreatedBy
<1> QED BY <1>1 DEF Settle

\* Neither does polling a service.
LEMMA PollServiceKeeps ==
  ASSUME TypeOK, NEW p \in Pollers, NEW s \in Services, NEW st, pollService(p, s, st),
         NEW i \in Incidents, inc[i].state # "none"
  PROVE  inc'[i] = inc[i]
<1>1. UNCHANGED inc \/ CreateDetected(p, s)
  BY DEF pollService, HandleTransition, handleRecoveryTransition, handleOutageTransition
<1> QED BY <1>1 DEF CreateDetected, TypeOK

\* The steps of the pollers leave every visible incident alone.
LEMMA PollerKeeps ==
  ASSUME TypeOK, LockInv, NEW p \in Pollers,
         \/ Start(p) \/ Stop(p) \/ Abort(p) \/ Cycle(p)
         \/ \E key \in cooling[p] : CooldownOver(p, key),
         NEW i \in Incidents, inc[i].state \in {"open", "resolved"}
  PROVE  inc'[i] = inc[i] /\ mails' = mails
<1>1. CASE Start(p)
  BY <1>1 DEF Start
<1>2. CASE Stop(p)
  BY <1>2, SettleKeeps DEF Stop
<1>3. CASE Abort(p)
  BY <1>3, SettleKeeps DEF Abort
<1>4. CASE pollCycle(p)
  BY <1>4 DEF pollCycle
<1>5. ASSUME NEW s \in Services, NEW st \in Observable[s], pollService(p, s, st)
      PROVE  inc'[i] = inc[i] /\ mails' = mails
  <2>1. mails' = mails
    BY <1>5 DEF pollService
  <2> QED BY <2>1, <1>5, PollServiceKeeps
<1>6. ASSUME NEW s \in Services, NEW st \in Observable[s], pollServiceAborted(p, s, st)
      PROVE  inc'[i] = inc[i] /\ mails' = mails
  BY <1>6 DEF pollServiceAborted
<1>7. ASSUME NEW s \in Services, pollServiceFails(p, s)
      PROVE  inc'[i] = inc[i] /\ mails' = mails
  BY <1>7 DEF pollServiceFails
<1>8. CASE Commit(p)
  BY <1>8, SettleKeeps DEF Commit
<1>9. CASE Rollback(p)
  BY <1>9, SettleKeeps DEF Rollback
<1>10. ASSUME NEW key \in cooling[p], CooldownOver(p, key)
       PROVE  inc'[i] = inc[i] /\ mails' = mails
  BY <1>10 DEF CooldownOver
<1> QED BY <1>1, <1>2, <1>3, <1>4, <1>5, <1>6, <1>7, <1>8, <1>9, <1>10 DEF Cycle

\* SetDescription and SetPendingCloseComment never reach an incident an
\* operator has resolved, however late the goroutine is.
THEOREM ResolvedIncidentKept == Spec => ResolvedKeepsItsText
<1> DEFINE Kept == \A i \in Incidents : inc[i].state = "resolved" =>
                     /\ inc'[i].refined = inc[i].refined
                     /\ inc'[i].pending \in {inc[i].pending, Null}
<1>1. TypeOK /\ LockInv /\ [Next]_vars => [Kept]_vars
  <2> SUFFICES ASSUME TypeOK, LockInv, Next, NEW i \in Incidents, inc[i].state = "resolved"
               PROVE  /\ inc'[i].refined = inc[i].refined
                      /\ inc'[i].pending \in {inc[i].pending, Null}
    OBVIOUS
  <2>1. ASSUME NEW p \in Pollers,
               \/ Start(p) \/ Stop(p) \/ Abort(p) \/ Cycle(p)
               \/ \E key \in cooling[p] : CooldownOver(p, key)
        PROVE  inc'[i] = inc[i]
    BY <2>1, PollerKeeps
  <2>2. ASSUME NEW e \in enr, Enrich(e)
        PROVE  inc'[i] = inc[i]
    <3>1. ASSUME NEW refined, NEW pending, NEW reopened, inc[e.target].state = "open",
                 Put(e.target, "open", refined, pending, reopened)
          PROVE  inc'[i] = inc[i]
      BY <3>1 DEF Put, TypeOK
    <3>2. CASE Generate(e) \/ EnrichmentFails(e) \/ UpdateStatusAnalysis(e)
      BY <3>2 DEF Generate, EnrichmentFails, UpdateStatusAnalysis
    <3>3. CASE SetDescription(e)
      BY <3>3 DEF SetDescription, Put, TypeOK
    <3>4. ASSUME NEW text \in Texts, SetPendingCloseComment(e, text)
          PROVE  inc'[i] = inc[i]
      BY <3>4, <3>1 DEF SetPendingCloseComment
    <3> QED BY <2>2, <3>2, <3>3, <3>4 DEF Enrich
  <2>3. CASE Operator
    <3>1. ASSUME NEW j \in Incidents, NEW state, NEW reopened,
                 NEW pending \in {inc[j].pending, Null},
                 Put(j, state, inc[j].refined, pending, reopened)
          PROVE  /\ inc'[i].refined = inc[i].refined
                 /\ inc'[i].pending \in {inc[i].pending, Null}
      BY <3>1 DEF Put, TypeOK
    <3>2. CASE ListPaginated
      BY <3>2 DEF ListPaginated
    <3>3. ASSUME NEW j \in Incidents, NEW S \in SUBSET Services, Create(j, S)
          PROVE  inc'[i] = inc[i]
      BY <3>3 DEF Create, TypeOK
    <3>4. ASSUME NEW j \in Incidents, Resolve(j) \/ ConfirmPendingClose(j) \/ DiscardCloseProposal(j)
          PROVE  /\ inc'[i].refined = inc[i].refined
                 /\ inc'[i].pending \in {inc[i].pending, Null}
      BY <3>4, <3>1 DEF Resolve, ConfirmPendingClose, DiscardCloseProposal
    <3>5. ASSUME NEW j \in Incidents, Reopen(j)
          PROVE  /\ inc'[i].refined = inc[i].refined
                 /\ inc'[i].pending \in {inc[i].pending, Null}
      BY <3>5 DEF Reopen, Put, TypeOK
    <3> QED BY <2>3, <3>2, <3>3, <3>4, <3>5 DEF Operator
  <2> QED BY <2>1, <2>2, <2>3 DEF Next
<1>2. Spec => [][Kept]_vars
  BY <1>1, LockInvariant, PTL DEF Spec
<1> QED BY <1>2 DEF ResolvedKeepsItsText

\* ConfirmPendingClose only accepts the text that was on the operator's
\* screen, even if an enrichment regenerates the proposal at any moment.
THEOREM ReviewedProposal == Spec => ReviewedClose
<1> DEFINE Reviewed == \A i \in Incidents :
                         (inc[i].pending # Null /\ inc'[i].pending = Null /\ mails'[i] # mails[i]) =>
                           inc[i].pending = shown[i]
<1>1. TypeOK /\ LockInv /\ [Next]_vars => [Reviewed]_vars
  <2> SUFFICES ASSUME TypeOK, LockInv, Next, NEW i \in Incidents,
                      inc[i].pending # Null, inc'[i].pending = Null, mails'[i] # mails[i]
               PROVE  inc[i].pending = shown[i]
    OBVIOUS
  <2>1. inc[i].state \in {"open", "resolved"}
    BY DEF LockInv, PendingVisible
  <2>2. ASSUME NEW p \in Pollers,
               \/ Start(p) \/ Stop(p) \/ Abort(p) \/ Cycle(p)
               \/ \E key \in cooling[p] : CooldownOver(p, key)
        PROVE  FALSE
    BY <2>1, <2>2, PollerKeeps
  <2>3. ASSUME NEW e \in enr, Enrich(e)
        PROVE  FALSE
    BY <2>3 DEF Enrich, Generate, EnrichmentFails, UpdateStatusAnalysis, SetDescription,
               SetPendingCloseComment
  <2>4. ASSUME NEW j \in Incidents,
               \/ \E S \in SUBSET Services : Create(j, S)
               \/ DiscardCloseProposal(j)
        PROVE  FALSE
    BY <2>4 DEF Create, DiscardCloseProposal
  <2>5. ASSUME NEW j \in Incidents, Resolve(j) \/ Reopen(j)
        PROVE  FALSE
    BY <2>5 DEF Resolve, Reopen, Put, MailResolved, TypeOK
  <2>6. ASSUME NEW j \in Incidents, ConfirmPendingClose(j)
        PROVE  inc[i].pending = shown[i]
    BY <2>6 DEF ConfirmPendingClose, MailResolved, TypeOK
  <2> QED BY <2>2, <2>3, <2>4, <2>5, <2>6 DEF Next, Operator, ListPaginated
<1>2. Spec => [][Reviewed]_vars
  BY <1>1, LockInvariant, PTL DEF Spec
<1> QED BY <1>2 DEF ReviewedClose

-----------------------------------------------------------------------------
(* Proposals.  A closing comment is drafted for the incident that            *)
(* HasOpenIncidentForService found and written much later: the incident it   *)
(* was drafted for must be a detected one, and stay one.                     *)

AutoExists == \A i \in Incidents : inc[i].auto => inc[i].state # "none"

CloseTargetsAuto ==
  \A e \in enr : e.kind = "close" => e.target \in Incidents /\ inc[e.target].auto

ProposalInv == AutoExists /\ CloseTargetsAuto /\ ProposalOnlyForDetected

\* What a step must respect: an incident stays detected, a new proposal or a
\* new drafting concerns a detected one.
LEMMA ProposalFrame ==
  ASSUME ProposalInv,
         \A i \in Incidents : inc[i].auto => inc'[i].auto,
         \A i \in Incidents : inc'[i].auto => inc'[i].state # "none",
         \A i \in Incidents : inc'[i].pending # Null => inc[i].pending # Null \/ inc[i].auto,
         \A e \in enr' : e.kind = "close" =>
            e \in enr \/ (e.target \in Incidents /\ inc[e.target].auto)
  PROVE  ProposalInv'
<1>1. AutoExists'
  BY DEF AutoExists
<1>2. CloseTargetsAuto'
  BY DEF ProposalInv, CloseTargetsAuto
<1>3. ProposalOnlyForDetected'
  BY DEF ProposalInv, ProposalOnlyForDetected
<1> QED BY <1>1, <1>2, <1>3 DEF ProposalInv

\* A dispatch adds at most one goroutine, of the given kind and target.
LEMMA DispatchAdds ==
  ASSUME NEW p, NEW k, NEW t, Dispatch(p, <<k, t>>), NEW e \in enr', e \notin enr
  PROVE  e.by = p /\ e.kind = k /\ e.target = t
BY DEF Dispatch

\* Every step respects that.
LEMMA ProposalStep ==
  ASSUME TypeOK, LockInv, ProposalInv, [Next]_vars
  PROVE  ProposalInv'
<1>0. /\ \A i \in Incidents : inc[i].auto => inc[i].state # "none"
      /\ \A i \in Incidents : inc[i].pending # Null => inc[i].auto
      /\ \A e \in enr : e.kind = "close" => e.target \in Incidents /\ inc[e.target].auto
  BY DEF ProposalInv, AutoExists, CloseTargetsAuto, ProposalOnlyForDetected
<1>1. ASSUME inc' = inc, enr' \subseteq enr
      PROVE  ProposalInv'
  BY <1>0, <1>1, ProposalFrame
<1>2. ASSUME NEW p \in Pollers, NEW st \in {"open", "lost"}, Settle(p, st), enr' = enr
      PROVE  ProposalInv'
  <2>1. \A i \in Incidents :
          \/ inc'[i] = inc[i]
          \/ inc'[i].state = st /\ inc'[i].auto = TRUE /\ inc'[i].pending = Null
    BY <1>2 DEF Settle
  <2> QED BY <1>0, <1>2, <2>1, ProposalFrame
<1>3. ASSUME NEW p \in Pollers, NEW s \in Services, NEW st \in Observable[s], pollService(p, s, st)
      PROVE  ProposalInv'
  <2>1. CASE UNCHANGED <<inc, enr>>
    BY <2>1, <1>1
  <2>2. CASE Dispatch(p, <<"degraded", s>>) /\ UNCHANGED inc
    <3>1. \A e \in enr' : e.kind = "close" => e \in enr
      BY <2>2, DispatchAdds
    <3> QED BY <1>0, <2>2, <3>1, ProposalFrame
  <2>3. CASE CreateDetected(p, s)
    <3>1. PICK n \in Incidents :
            /\ inc[n].state = "none"
            /\ inc' = [inc EXCEPT ![n] = [state |-> "uncommitted", auto |-> TRUE, links |-> {s},
                                          refined |-> FALSE, pending |-> Null, reopened |-> FALSE]]
            /\ Dispatch(p, <<"outage", n>>)
      BY <2>3 DEF CreateDetected
    <3>2. \A i \in Incidents :
            \/ inc'[i] = inc[i]
            \/ inc'[i].state = "uncommitted" /\ inc'[i].auto = TRUE /\ inc'[i].pending = Null
      BY <3>1 DEF TypeOK
    <3>3. \A e \in enr' : e.kind = "close" => e \in enr
      BY <3>1, DispatchAdds
    <3> QED BY <1>0, <3>2, <3>3, ProposalFrame
  <2>4. CASE handleRecoveryTransition(p, s)
    <3>1. CASE UNCHANGED <<enr, cooling>>
      BY <3>1, <2>4, <1>1 DEF handleRecoveryTransition
    <3>2. ASSUME NEW i \in Incidents, HasOpenIncidentForService(i, s), Dispatch(p, <<"close", i>>)
          PROVE  ProposalInv'
      <4>1. \A e \in enr' : e \in enr \/ (e.target \in Incidents /\ inc[e.target].auto)
        BY <3>2, DispatchAdds DEF HasOpenIncidentForService
      <4>2. inc' = inc
        BY <2>4 DEF handleRecoveryTransition
      <4> QED BY <1>0, <4>1, <4>2, ProposalFrame
    <3> QED BY <2>4, <3>1, <3>2 DEF handleRecoveryTransition
  <2> QED BY <1>3, <2>1, <2>2, <2>3, <2>4 DEF pollService, HandleTransition, handleOutageTransition
<1>4. ASSUME NEW p \in Pollers, Cycle(p)
      PROVE  ProposalInv'
  <2>1. CASE pollCycle(p)
    BY <2>1, <1>1 DEF pollCycle
  <2>2. ASSUME NEW s \in Services, NEW st \in Observable[s], pollServiceAborted(p, s, st)
        PROVE  ProposalInv'
    BY <2>2, <1>1 DEF pollServiceAborted
  <2>3. ASSUME NEW s \in Services, pollServiceFails(p, s)
        PROVE  ProposalInv'
    BY <2>3, <1>1 DEF pollServiceFails
  <2>4. CASE Commit(p)
    BY <2>4, <1>2 DEF Commit
  <2>5. CASE Rollback(p)
    BY <2>5, <1>2 DEF Rollback
  <2> QED BY <1>3, <1>4, <2>1, <2>2, <2>3, <2>4, <2>5 DEF Cycle
<1>5. ASSUME NEW p \in Pollers,
             \/ Start(p) \/ Stop(p) \/ Abort(p)
             \/ \E key \in cooling[p] : CooldownOver(p, key)
      PROVE  ProposalInv'
  <2>1. CASE Start(p)
    BY <2>1, <1>1 DEF Start
  <2>2. CASE Stop(p)
    BY <2>2, <1>2 DEF Stop
  <2>3. CASE Abort(p)
    BY <2>3, <1>2 DEF Abort
  <2>4. ASSUME NEW key \in cooling[p], CooldownOver(p, key)
        PROVE  ProposalInv'
    BY <2>4, <1>1 DEF CooldownOver
  <2> QED BY <1>5, <2>1, <2>2, <2>3, <2>4
<1>6. ASSUME NEW e \in enr, Enrich(e)
      PROVE  ProposalInv'
  <2>1. CASE Generate(e)
    <3>1. inc' = inc
      BY <2>1 DEF Generate
    <3>2. \A f \in enr' : f \in enr \/ (f.kind = e.kind /\ f.target = e.target)
      BY <2>1 DEF Generate
    <3> QED BY <1>0, <3>1, <3>2, ProposalFrame
  <2>2. CASE EnrichmentFails(e) \/ UpdateStatusAnalysis(e)
    BY <2>2, <1>1 DEF EnrichmentFails, UpdateStatusAnalysis
  <2>3. CASE SetDescription(e)
    <3>1. CASE UNCHANGED inc
      BY <3>1, <2>3, <1>1 DEF SetDescription
    <3>2. CASE /\ inc[e.target].state = "open"
               /\ Put(e.target, "open", TRUE, inc[e.target].pending, inc[e.target].reopened)
      <4>1. \A i \in Incidents :
              \/ inc'[i] = inc[i]
              \/ /\ inc'[i].state = "open" /\ inc'[i].auto = inc[i].auto
                 /\ inc'[i].pending = inc[i].pending
        BY <3>2 DEF Put, TypeOK
      <4>2. enr' \subseteq enr
        BY <2>3 DEF SetDescription
      <4> QED BY <1>0, <4>1, <4>2, ProposalFrame
    <3> QED BY <2>3, <3>1, <3>2 DEF SetDescription
  <2>4. ASSUME NEW text \in Texts, SetPendingCloseComment(e, text)
        PROVE  ProposalInv'
    <3>1. CASE UNCHANGED inc
      BY <3>1, <2>4, <1>1 DEF SetPendingCloseComment
    <3>2. CASE /\ inc[e.target].state = "open"
               /\ Put(e.target, "open", inc[e.target].refined, text, inc[e.target].reopened)
      <4>0. e.target \in Incidents /\ inc[e.target].auto
        BY <2>4, <1>0 DEF SetPendingCloseComment
      <4>1. \A i \in Incidents :
              \/ inc'[i] = inc[i]
              \/ /\ inc'[i].state = "open" /\ inc'[i].auto = inc[i].auto
                 /\ inc[i].auto
        BY <3>2, <4>0 DEF Put, TypeOK
      <4>2. enr' \subseteq enr
        BY <2>4 DEF SetPendingCloseComment
      <4> QED BY <1>0, <4>1, <4>2, ProposalFrame
    <3> QED BY <2>4, <3>1, <3>2 DEF SetPendingCloseComment
  <2> QED BY <1>6, <2>1, <2>2, <2>3, <2>4 DEF Enrich
<1>7. CASE Operator
  <2>1. CASE ListPaginated
    BY <2>1, <1>1 DEF ListPaginated
  <2>2. ASSUME NEW i \in Incidents, NEW S \in SUBSET Services, Create(i, S)
        PROVE  ProposalInv'
    <3>1. \A j \in Incidents :
            \/ inc'[j] = inc[j]
            \/ inc[j].state = "none" /\ inc'[j].auto = FALSE /\ inc'[j].pending = Null
      BY <2>2 DEF Create, TypeOK
    <3>2. enr' = enr
      BY <2>2 DEF Create, Operate
    <3> QED BY <1>0, <3>1, <3>2, ProposalFrame
  <2>3. ASSUME NEW i \in Incidents,
               Resolve(i) \/ Reopen(i) \/ ConfirmPendingClose(i) \/ DiscardCloseProposal(i)
        PROVE  ProposalInv'
    <3>1. inc[i].state # "none"
      BY <2>3 DEF Resolve, Reopen, ConfirmPendingClose, DiscardCloseProposal, LockInv, PendingVisible
    <3>2. \A j \in Incidents :
            \/ inc'[j] = inc[j]
            \/ /\ inc'[j].state # "none" /\ inc'[j].auto = inc[j].auto
               /\ inc'[j].pending \in {inc[j].pending, Null}
      BY <2>3, <3>1 DEF Resolve, Reopen, ConfirmPendingClose, DiscardCloseProposal, Put, TypeOK
    <3>3. enr' = enr
      BY <2>3 DEF Resolve, Reopen, ConfirmPendingClose, DiscardCloseProposal, Operate
    <3> QED BY <1>0, <3>2, <3>3, ProposalFrame
  <2> QED BY <1>7, <2>1, <2>2, <2>3 DEF Operator
<1>8. CASE UNCHANGED vars
  BY <1>8, <1>1 DEF vars
<1> QED BY <1>4, <1>5, <1>6, <1>7, <1>8 DEF Next

\* No manually created incident ever receives an LLM-drafted closing comment,
\* although the text is written long after the incident was chosen.
THEOREM ProposalsOnDetected == Spec => []ProposalOnlyForDetected
<1>1. Init => ProposalInv
  BY DEF Init, ProposalInv, AutoExists, CloseTargetsAuto, ProposalOnlyForDetected, NoIncident
<1>2. TypeOK /\ LockInv /\ ProposalInv /\ [Next]_vars => ProposalInv'
  BY ProposalStep
<1>3. ProposalInv => ProposalOnlyForDetected
  BY DEF ProposalInv
<1> QED BY <1>1, <1>2, <1>3, LockInvariant, PTL DEF Spec

-----------------------------------------------------------------------------
(* Published statuses are recorded ones, while instances do not overlap.    *)

OneRunning == \A p, q \in Pollers : (run[p] = "running" /\ run[q] = "running") => p = q

TxRuns == \A p \in Pollers : txn[p] # "none" => run[p] = "running"

WroteRecorded ==
  \A p \in Pollers, s \in Services : wrote[p][s] # Null => txn[p] = "open" /\ wrote[p][s] = interval[s]

RecordInv == OneRunning /\ TxRuns /\ WroteRecorded

\* The end of an instance's transaction.
LEMMA EndRecorded ==
  ASSUME TypeOK, RecordInv, NEW p \in Pollers, NEW st, NEW to \in {"none", "aborted"}, Settle(p, st),
         txn' = [txn EXCEPT ![p] = to], interval' = interval,
         \/ run' = run
         \/ run' = [run EXCEPT ![p] = "stopped"] /\ to = "none",
         to = "aborted" => txn[p] = "open"
  PROVE  RecordInv'
<1>1. \A q \in Pollers, s \in Services : wrote'[q][s] = IF q = p THEN Null ELSE wrote[q][s]
  BY DEF Settle, TypeOK
<1>2. \A q \in Pollers : q # p => txn'[q] = txn[q] /\ run'[q] = run[q]
  BY DEF TypeOK
<1>3. txn'[p] = to /\ run'[p] \in {run[p], "stopped"} /\ (run'[p] = "stopped" => to = "none" \/ run[p] = "stopped")
  BY DEF TypeOK
<1>4. OneRunning'
  BY <1>2, <1>3 DEF RecordInv, OneRunning
<1>5. TxRuns'
  BY <1>2, <1>3 DEF RecordInv, TxRuns
<1>6. WroteRecorded'
  BY <1>1, <1>2 DEF RecordInv, WroteRecorded
<1> QED BY <1>4, <1>5, <1>6 DEF RecordInv

\* Every step keeps it if instances do not overlap.
LEMMA RecordStep ==
  ASSUME ~Overlap, TypeOK, RecordInv, [Next]_vars
  PROVE  RecordInv'
<1> USE DEF RecordInv
<1>1. CASE UNCHANGED <<run, txn, wrote, interval>>
  BY <1>1 DEF OneRunning, TxRuns, WroteRecorded
<1>2. ASSUME NEW p \in Pollers, Start(p)
      PROVE  RecordInv'
  <2>1. /\ UNCHANGED <<txn, wrote, interval>> /\ run[p] = "new"
        /\ \A q \in Pollers : run[q] # "running"
        /\ \A q \in Pollers : run'[q] = IF q = p THEN "running" ELSE run[q]
    BY <1>2 DEF Start, TypeOK
  <2> QED BY <2>1 DEF OneRunning, TxRuns, WroteRecorded
<1>3. ASSUME NEW p \in Pollers, Stop(p)
      PROVE  RecordInv'
  BY <1>3, EndRecorded DEF Stop, EndTx
<1>4. ASSUME NEW p \in Pollers, Abort(p)
      PROVE  RecordInv'
  BY <1>4, EndRecorded DEF Abort
<1>5. ASSUME NEW p \in Pollers, Commit(p) \/ Rollback(p)
      PROVE  RecordInv'
  BY <1>5, EndRecorded DEF Commit, Rollback, EndTx
<1>6. ASSUME NEW p \in Pollers, pollCycle(p)
      PROVE  RecordInv'
  <2>1. /\ UNCHANGED <<run, wrote, interval>> /\ run[p] = "running"
        /\ \A q \in Pollers : txn'[q] = IF q = p THEN "open" ELSE txn[q]
    BY <1>6 DEF pollCycle, TypeOK
  <2> QED BY <2>1 DEF OneRunning, TxRuns, WroteRecorded
<1>7. ASSUME NEW p \in Pollers, NEW s \in Services, NEW st \in Observable[s], pollService(p, s, st)
      PROVE  RecordInv'
  <2>1. /\ UNCHANGED <<run, txn>> /\ txn[p] = "open" /\ \A q \in Pollers : wrote[q][s] = Null
        /\ \A t \in Services : interval'[t] = IF t = s THEN st ELSE interval[t]
        /\ \A q \in Pollers, t \in Services :
             wrote'[q][t] = IF q = p /\ t = s THEN st ELSE wrote[q][t]
    BY <1>7 DEF pollService, RowFree, TypeOK
  <2> QED BY <2>1 DEF OneRunning, TxRuns, WroteRecorded
<1>8. ASSUME NEW p \in Pollers, NEW s \in Services, NEW st \in Observable[s], pollServiceAborted(p, s, st)
      PROVE  RecordInv'
  <2>1. /\ UNCHANGED <<run, txn, wrote>> /\ txn[p] = "aborted"
        /\ \A t \in Services : interval'[t] = IF t = s THEN st ELSE interval[t]
    BY <1>8 DEF pollServiceAborted, TypeOK
  <2>2. \A q \in Pollers : wrote[q][s] = Null
    <3> SUFFICES ASSUME NEW q \in Pollers, wrote[q][s] # Null PROVE FALSE
      OBVIOUS
    <3>1. txn[q] = "open" /\ run[q] = "running" /\ run[p] = "running"
      BY <2>1 DEF WroteRecorded, TxRuns
    <3> QED BY <3>1, <2>1 DEF OneRunning
  <2> QED BY <2>1, <2>2 DEF OneRunning, TxRuns, WroteRecorded
<1>9. ASSUME NEW p \in Pollers, NEW s \in Services, pollServiceFails(p, s)
      PROVE  RecordInv'
  BY <1>9, <1>1 DEF pollServiceFails
<1>10. ASSUME NEW p \in Pollers, NEW key \in cooling[p], CooldownOver(p, key)
       PROVE  RecordInv'
  BY <1>10, <1>1 DEF CooldownOver, pollVars
<1>11. ASSUME NEW e \in enr, Enrich(e)
       PROVE  RecordInv'
  BY <1>11, <1>1 DEF Enrich, Generate, EnrichmentFails, UpdateStatusAnalysis, SetDescription,
                    SetPendingCloseComment, pollVars
<1>12. CASE Operator
  BY <1>12, <1>1 DEF Operator, ListPaginated, Create, Resolve, Reopen, ConfirmPendingClose,
                    DiscardCloseProposal, Operate, pollVars
<1>13. CASE UNCHANGED vars
  BY <1>13, <1>1 DEF vars, pollVars
<1> QED BY <1>2, <1>3, <1>4, <1>5, <1>6, <1>7, <1>8, <1>9, <1>10, <1>11, <1>12, <1>13 DEF Next, Cycle

\* While one instance runs at a time, a status reaches the public page only
\* after the history records it, through every abort, rollback and restart.
THEOREM RecordedFirst == ~Overlap => (Spec => PublishedIsRecorded)
<1> SUFFICES ASSUME ~Overlap PROVE Spec => PublishedIsRecorded
  OBVIOUS
<1> DEFINE Step == \A s \in Services : svc'[s].status # svc[s].status => svc'[s].status = interval[s]
<1>1. Init => RecordInv
  BY DEF Init, RecordInv, OneRunning, TxRuns, WroteRecorded
<1>2. TypeOK /\ RecordInv /\ [Next]_vars => RecordInv'
  BY RecordStep
<1>3. TypeOK /\ RecordInv /\ [Next]_vars => [Step]_vars
  <2> SUFFICES ASSUME TypeOK, RecordInv, Next, NEW s \in Services, svc'[s].status # svc[s].status
               PROVE  svc'[s].status = interval[s]
    OBVIOUS
  <2>1. ASSUME NEW p \in Pollers, Commit(p)
        PROVE  svc'[s].status = interval[s]
    <3>1. svc'[s].status = IF wrote[p][s] = Null THEN svc[s].status ELSE wrote[p][s]
      BY <2>1 DEF Commit, Published
    <3> QED BY <3>1 DEF RecordInv, WroteRecorded
  <2>2. ASSUME NEW p \in Pollers,
               \/ Start(p) \/ Stop(p) \/ Abort(p) \/ pollCycle(p) \/ Rollback(p)
               \/ \E t \in Services : \/ \E st \in Observable[t] : pollService(p, t, st) \/ pollServiceAborted(p, t, st)
                                      \/ pollServiceFails(p, t)
               \/ \E key \in cooling[p] : CooldownOver(p, key)
        PROVE  svc' = svc
    BY <2>2 DEF Start, Stop, Abort, pollCycle, Rollback, pollService, pollServiceAborted,
               pollServiceFails, CooldownOver
  <2>3. ASSUME NEW e \in enr, Enrich(e)
        PROVE  svc'[s].status = svc[s].status
    <3>1. CASE UpdateStatusAnalysis(e)
      <4>1. CASE e.target = s
        BY <3>1, <4>1 DEF UpdateStatusAnalysis, TypeOK
      <4>2. CASE e.target # s
        BY <3>1, <4>2 DEF UpdateStatusAnalysis, TypeOK
      <4> QED BY <4>1, <4>2
    <3>2. CASE ~UpdateStatusAnalysis(e)
      BY <2>3, <3>2 DEF Enrich, Generate, EnrichmentFails, SetDescription, SetPendingCloseComment
    <3> QED BY <3>1, <3>2
  <2>4. CASE Operator
    BY <2>4 DEF Operator, ListPaginated, Create, Resolve, Reopen, ConfirmPendingClose,
               DiscardCloseProposal, Operate
  <2> QED BY <2>1, <2>2, <2>3, <2>4 DEF Next, Cycle
<1>4. Spec => [][Step]_vars
  BY <1>1, <1>2, <1>3, TypeCorrect, PTL DEF Spec
<1> QED BY <1>4 DEF PublishedIsRecorded

-----------------------------------------------------------------------------
(* The semaphore.                                                           *)

SlotInv == IsFiniteSet(enr) /\ EnrichmentSlots

\* The goroutines of an instance can be counted.
LEMMA SlotsFinite ==
  ASSUME SlotInv, NEW p \in Pollers
  PROVE  IsFiniteSet(SlotsOf(p)) /\ Cardinality(SlotsOf(p)) \in Nat
<1>1. SlotsOf(p) \in SUBSET enr
  BY DEF SlotsOf
<1> QED BY <1>1, FS_Subset, FS_CardinalityType DEF SlotInv

\* Goroutines may end.
LEMMA SlotsShrink ==
  ASSUME SlotInv, enr' \subseteq enr
  PROVE  SlotInv'
<1>1. IsFiniteSet(enr')
  BY FS_Subset DEF SlotInv
<1>2. ASSUME NEW p \in Pollers
      PROVE  Cardinality(SlotsOf(p)') <= MaxConcurrent
  <2>1. SlotsOf(p)' \in SUBSET SlotsOf(p)
    BY DEF SlotsOf
  <2>2. Cardinality(SlotsOf(p)') <= Cardinality(SlotsOf(p)) /\ Cardinality(SlotsOf(p)') \in Nat
    BY <2>1, SlotsFinite, FS_Subset, FS_CardinalityType
  <2> QED BY <2>2, SlotsFinite, BoundsAssumption DEF SlotInv, EnrichmentSlots
<1> QED BY <1>1, <1>2 DEF SlotInv, EnrichmentSlots

\* A dispatch takes a slot or does nothing.
LEMMA SlotsDispatch ==
  ASSUME SlotInv, NEW p \in Pollers, NEW k, NEW t, Dispatch(p, <<k, t>>)
  PROVE  SlotInv'
<1> DEFINE e == [by |-> p, kind |-> k, target |-> t, phase |-> "generating"]
<1>1. CASE enr' = enr
  BY <1>1, SlotsShrink
<1>2. CASE tryAcquire(p, <<k, t>>) /\ enr' = enr \cup {e}
  <2>0. e.by = p
    OBVIOUS
  <2> HIDE DEF e
  <2>1. IsFiniteSet(enr')
    BY <1>2, FS_AddElement DEF SlotInv
  <2>2. ASSUME NEW q \in Pollers, q # p
        PROVE  SlotsOf(q)' = SlotsOf(q)
    BY <1>2, <2>0, <2>2 DEF SlotsOf
  <2>3. SlotsOf(p)' = SlotsOf(p) \cup {e}
    BY <1>2, <2>0 DEF SlotsOf
  <2>4. Cardinality(SlotsOf(p)) < MaxConcurrent
    BY <1>2 DEF tryAcquire
  <2>5. Cardinality(SlotsOf(p)') <= MaxConcurrent
    BY <2>3, <2>4, SlotsFinite, FS_AddElement, BoundsAssumption, SMTT(30)
  <2> QED BY <2>1, <2>2, <2>5 DEF SlotInv, EnrichmentSlots
<1> QED BY <1>1, <1>2 DEF Dispatch

\* The answer of the LLM keeps the slot.
LEMMA SlotsGenerate ==
  ASSUME SlotInv, NEW e \in enr, Generate(e)
  PROVE  SlotInv'
<1> DEFINE f == [by |-> e.by, kind |-> e.kind, target |-> e.target, phase |-> "writing"]
<1>1. enr' = (enr \ {e}) \cup {f} /\ f.by = e.by
  BY DEF Generate
<1> HIDE DEF f
<1>2. IsFiniteSet(enr')
  BY <1>1, FS_AddElement, FS_RemoveElement DEF SlotInv
<1>3. ASSUME NEW q \in Pollers, q # e.by
      PROVE  SlotsOf(q)' = SlotsOf(q)
  BY <1>1, <1>3 DEF SlotsOf
<1>4. ASSUME NEW q \in Pollers, q = e.by
      PROVE  Cardinality(SlotsOf(q)') <= MaxConcurrent
  <2>1. SlotsOf(q)' = (SlotsOf(q) \ {e}) \cup {f} /\ e \in SlotsOf(q)
    BY <1>1, <1>4 DEF SlotsOf
  <2>2. /\ IsFiniteSet(SlotsOf(q) \ {e})
        /\ Cardinality(SlotsOf(q) \ {e}) = Cardinality(SlotsOf(q)) - 1
    BY <2>1, SlotsFinite, FS_RemoveElement
  <2>3. Cardinality(SlotsOf(q)') <= Cardinality(SlotsOf(q))
    <3> DEFINE D == SlotsOf(q) \ {e}
    <3>1. IsFiniteSet(D) /\ Cardinality(D) = Cardinality(SlotsOf(q)) - 1
      BY <2>2
    <3>2. SlotsOf(q)' = D \cup {f}
      BY <2>1
    <3> HIDE DEF D
    <3>3. Cardinality(D \cup {f}) = IF f \in D THEN Cardinality(D) ELSE Cardinality(D) + 1
      BY <3>1, FS_AddElement
    <3>4. Cardinality(SlotsOf(q)) \in Nat
      BY SlotsFinite
    <3> QED BY <3>1, <3>2, <3>3, <3>4
  <2>4. Cardinality(SlotsOf(q)') \in Nat
    BY <2>1, <2>2, FS_AddElement, FS_CardinalityType
  <2> QED BY <2>3, <2>4, SlotsFinite, BoundsAssumption DEF SlotInv, EnrichmentSlots
<1> QED BY <1>2, <1>3, <1>4 DEF SlotInv, EnrichmentSlots

\* No step exceeds the slots.
LEMMA SlotStep ==
  ASSUME SlotInv, [Next]_vars
  PROVE  SlotInv'
<1>1. CASE enr' \subseteq enr
  BY <1>1, SlotsShrink
<1>2. ASSUME NEW p \in Pollers, NEW s \in Services, NEW st \in Observable[s], pollService(p, s, st)
      PROVE  SlotInv'
  <2>1. CASE \E k, t : Dispatch(p, <<k, t>>)
    BY <2>1, SlotsDispatch
  <2>2. (\E k, t : Dispatch(p, <<k, t>>)) \/ UNCHANGED enr
    BY <1>2 DEF pollService, HandleTransition, handleOutageTransition, CreateDetected,
               handleRecoveryTransition
  <2> QED BY <2>1, <2>2, <1>1
<1>3. ASSUME NEW p \in Pollers, Cycle(p)
      PROVE  SlotInv'
  BY <1>1, <1>2, <1>3 DEF Cycle, pollCycle, pollServiceAborted, pollServiceFails, Commit, Rollback
<1>4. ASSUME NEW p \in Pollers,
             \/ Start(p) \/ Stop(p) \/ Abort(p)
             \/ \E key \in cooling[p] : CooldownOver(p, key)
      PROVE  SlotInv'
  BY <1>1, <1>4 DEF Start, Stop, Abort, CooldownOver
<1>5. ASSUME NEW e \in enr, Enrich(e)
      PROVE  SlotInv'
  BY <1>1, <1>5, SlotsGenerate DEF Enrich, EnrichmentFails, UpdateStatusAnalysis,
               SetDescription, SetPendingCloseComment
<1>6. CASE Operator
  BY <1>1, <1>6 DEF Operator, ListPaginated, Create, Resolve, Reopen, ConfirmPendingClose,
               DiscardCloseProposal, Operate
<1>7. CASE UNCHANGED vars
  BY <1>1, <1>7 DEF vars
<1> QED BY <1>3, <1>4, <1>5, <1>6, <1>7 DEF Next

\* tryAcquire and release: an analyzer never has more goroutines in flight
\* than the semaphore has slots, for every capacity.
THEOREM SlotsRespected == Spec => []EnrichmentSlots
<1>1. Init => SlotInv
  <2> SUFFICES ASSUME Init PROVE SlotInv
    OBVIOUS
  <2>1. enr = {} /\ \A p \in Pollers : SlotsOf(p) = {}
    BY DEF Init, SlotsOf
  <2> QED BY <2>1, FS_EmptySet, BoundsAssumption DEF SlotInv, EnrichmentSlots
<1>2. SlotInv /\ [Next]_vars => SlotInv'
  BY SlotStep
<1>3. SlotInv => EnrichmentSlots
  BY DEF SlotInv
<1> QED BY <1>1, <1>2, <1>3, PTL DEF Spec

-----------------------------------------------------------------------------
(* The classification.                                                      *)

\* More errors in a window never burn slower.
LEMMA BurnGrows ==
  ASSUME NEW d \in Int, NEW e \in Int, NEW n \in Int, NEW target \in Nat, NEW rate \in Nat \ {0},
         d <= e, AtLeast(burnRate(d, n, target), rate)
  PROVE  AtLeast(burnRate(e, n, target), rate)
<1>1. Clamp(d, n) \in Int /\ Clamp(e, n) \in Int
  BY DEF Clamp
<1>2. n > 0 /\ Clamp(d, n) # 0
  <2>1. CASE n <= 0 \/ Clamp(d, n) = 0
    <3>1. burnRate(d, n, target) = Burning(0, 1)
      BY <2>1 DEF burnRate
    <3>2. 10 * 0 >= rate * 1
      BY <3>1 DEF AtLeast, Burning
    <3> QED BY <3>2
  <2> QED BY <2>1
<1>3. 0 < Clamp(d, n) /\ Clamp(d, n) <= Clamp(e, n)
  BY <1>2 DEF Clamp
<1>4. CASE target >= 1000
  <2>1. burnRate(e, n, target) = Burning(1, 0)
    BY <1>1, <1>2, <1>3, <1>4 DEF burnRate
  <2>2. 10 * 1 >= rate * 0
    OBVIOUS
  <2> QED BY <2>1, <2>2 DEF AtLeast, Burning
<1>5. CASE target < 1000
  <2> DEFINE den == n * (1000 - target)
  <2>1. /\ burnRate(d, n, target) = Burning(1000 * Clamp(d, n), den)
        /\ burnRate(e, n, target) = Burning(1000 * Clamp(e, n), den)
    BY <1>1, <1>2, <1>3, <1>5 DEF burnRate
  <2>2. den \in Int /\ rate * den \in Int
    OBVIOUS
  <2> HIDE DEF den
  <2>3. 10 * (1000 * Clamp(d, n)) >= rate * den
    BY <2>1 DEF AtLeast, Burning
  <2>4. 10 * (1000 * Clamp(e, n)) >= rate * den
    BY <1>1, <1>3, <2>2, <2>3
  <2> QED BY <2>1, <2>4 DEF AtLeast, Burning
<1> QED BY <1>4, <1>5

\* Rules 2 to 5 as conditions on the two windows.
Reaches(short, long, target, rate) ==
  /\ AtLeast(burnRate(short.errors, short.requests, target), rate)
  /\ AtLeast(IF long.requests > 0 THEN burnRate(long.errors, long.requests, target)
             ELSE burnRate(short.errors, short.requests, target), rate)

LEMMA WindowRules ==
  ASSUME NEW short, NEW long, NEW target
  PROVE  classifyWindows(short, long, target) =
           IF Clamp(short.errors, short.requests) < minShortWindowErrors THEN "operational"
           ELSE IF Reaches(short, long, target, outageBurnRate) THEN "outage"
           ELSE IF Reaches(short, long, target, degradedBurnRate) THEN "degraded"
           ELSE "operational"
  BY DEF classifyWindows, Reaches

LEMMA ReachesGrows ==
  ASSUME NEW s1 \in WindowCounts, NEW l1 \in WindowCounts, NEW s2 \in WindowCounts,
         NEW l2 \in WindowCounts, NEW target \in Nat, NEW rate \in Nat \ {0},
         s1.requests = s2.requests, s1.errors <= s2.errors,
         l1.requests = l2.requests, l1.errors <= l2.errors, Reaches(s1, l1, target, rate)
  PROVE  Reaches(s2, l2, target, rate)
<1>1. /\ s1.errors \in Int /\ s2.errors \in Int /\ s2.requests \in Int
      /\ l1.errors \in Int /\ l2.errors \in Int /\ l2.requests \in Int
  BY DEF WindowCounts
<1>2. AtLeast(burnRate(s2.errors, s2.requests, target), rate)
  BY <1>1, BurnGrows DEF Reaches
<1>3. CASE l2.requests > 0
  <2>1. AtLeast(burnRate(l1.errors, l2.requests, target), rate)
    BY <1>3 DEF Reaches
  <2>2. AtLeast(burnRate(l2.errors, l2.requests, target), rate)
    BY <1>1, <2>1, BurnGrows
  <2> QED BY <1>2, <1>3, <2>2 DEF Reaches
<1>4. CASE ~(l2.requests > 0)
  BY <1>2, <1>4 DEF Reaches
<1> QED BY <1>3, <1>4

\* classifyWindows is monotone in the errors of both windows, for all counts
\* (more errors than requests included), every target and an empty long
\* window.
LEMMA WorseIsWorse ==
  ASSUME NEW s1 \in WindowCounts, NEW l1 \in WindowCounts, NEW s2 \in WindowCounts,
         NEW l2 \in WindowCounts, NEW target \in Nat,
         s1.requests = s2.requests, s1.errors <= s2.errors,
         l1.requests = l2.requests, l1.errors <= l2.errors, s1.requests > 0
  PROVE  Severity(classifyWindows(s1, l1, target)) <= Severity(classifyWindows(s2, l2, target))
<1>1. s1.errors \in Int /\ s2.errors \in Int /\ s2.requests \in Int
  BY DEF WindowCounts
<1>2. Clamp(s1.errors, s1.requests) <= Clamp(s2.errors, s2.requests)
  BY <1>1 DEF Clamp
<1>3. Clamp(s1.errors, s1.requests) \in Int /\ Clamp(s2.errors, s2.requests) \in Int
  BY <1>1 DEF Clamp
<1>4. Clamp(s2.errors, s2.requests) < minShortWindowErrors =>
        Clamp(s1.errors, s1.requests) < minShortWindowErrors
  BY <1>2, <1>3 DEF minShortWindowErrors
<1>5. outageBurnRate \in Nat \ {0} /\ degradedBurnRate \in Nat \ {0}
  BY DEF outageBurnRate, degradedBurnRate
<1>6. /\ Reaches(s1, l1, target, outageBurnRate) => Reaches(s2, l2, target, outageBurnRate)
      /\ Reaches(s1, l1, target, degradedBurnRate) => Reaches(s2, l2, target, degradedBurnRate)
  BY <1>5, ReachesGrows
<1>7. Severity("outage") = 2 /\ Severity("degraded") = 1 /\ Severity("operational") = 0
  BY DEF Severity
<1> HIDE DEF Severity
<1>8. \/ classifyWindows(s1, l1, target) = "operational"
      \/ classifyWindows(s2, l2, target) = "outage"
      \/ classifyWindows(s1, l1, target) = "degraded" /\ classifyWindows(s2, l2, target) = "degraded"
  BY <1>4, <1>6, WindowRules
<1>9. classifyWindows(s2, l2, target) \in {"operational", "degraded", "outage"}
  BY WindowRules
<1>10. classifyWindows(s1, l1, target) \in {"operational", "degraded", "outage"}
  BY WindowRules
<1> QED BY <1>7, <1>8, <1>9, <1>10

-----------------------------------------------------------------------------
(* Silence.  Whichever age classifyBurn compares with the grace, it is that *)
(* of the last cycle with evidence.                                         *)

Bad == {"outage", "degraded"}
Ages == 0..zeroTrafficGrace
Reading == [status : Statuses, errorAge : Ages \cup {NoTime}, changeAge : Ages]
Evidence == [short : WindowCounts, long : WindowCounts, target : Nat, status : Statuses,
             age : Ages, polled : Ages]

SilentFor == IF reading.errorAge # NoTime THEN reading.errorAge ELSE reading.changeAge

EvidenceInv ==
  /\ evidence \in Evidence /\ evidence.polled <= evidence.age
  /\ evidence.short.requests > 0 =>
       evidence.status = classifyWindows(evidence.short, evidence.long, evidence.target)
  /\ evidence.status \in Bad =>
       /\ reading.status = IF evidence.polled < zeroTrafficGrace THEN evidence.status ELSE "operational"
       /\ reading.status \in Bad => SilentFor = evidence.age

BurnInv ==
  /\ reading \in Reading
  /\ reading.status = "not_configured" => reading.errorAge = NoTime
  /\ evidence # NoTime \/ reading.status # "not_configured" => EvidenceInv

LEMMA WindowTypes ==
  ASSUME NEW short \in WindowCounts, NEW long \in WindowCounts, NEW target \in Nat
  PROVE  /\ classifyWindows(short, long, target) \in Statuses
         /\ classifyWindows(short, long, target) # "not_configured"
         /\ classifyWindows(short, long, target) \in Bad => short.errors > 0
<1>1. short.errors \in Int /\ short.requests \in Int
  BY DEF WindowCounts
<1>2. Clamp(short.errors, short.requests) \in Int
  BY <1>1 DEF Clamp
<1>3. short.errors <= 0 => Clamp(short.errors, short.requests) < minShortWindowErrors
  BY <1>1 DEF Clamp, minShortWindowErrors
<1> QED BY <1>1, <1>3, WindowRules DEF Statuses, Bad

LEMMA UpdateBurn ==
  ASSUME BurnInv, NEW short \in SampleWindows, NEW long \in SampleWindows, NEW target \in SampleTargets,
         UpdateStatusAndReading(short, long, target)
  PROVE  BurnInv'
<1> DEFINE status == classifyBurn(reading, short, long, target)
<1>1. /\ short \in WindowCounts /\ long \in WindowCounts /\ target \in Nat
      /\ short.requests \in Int /\ short.errors \in Int /\ (short.requests <= 0 => short.errors <= 0)
      /\ long.requests \in Int
  BY BurnSamplesAssumption DEF WindowCounts
<1>2. /\ reading \in Reading /\ reading.status \in Statuses /\ reading.changeAge \in Ages
      /\ reading.errorAge \in Ages \cup {NoTime}
      /\ reading.status = "not_configured" => reading.errorAge = NoTime
  BY DEF BurnInv, Reading
<1>3. 0 \in Ages /\ Ages \subseteq Int
  BY DEF Ages, zeroTrafficGrace
<1>4. /\ reading' = [status |-> status, errorAge |-> IF short.errors > 0 THEN 0 ELSE reading.errorAge,
                     changeAge |-> IF status # reading.status THEN 0 ELSE reading.changeAge]
      /\ evidence' = IF short.requests > 0 \/ reading.status = "not_configured"
                     THEN [short |-> short, long |-> long, target |-> target, status |-> status,
                           age |-> 0, polled |-> 0]
                     ELSE [evidence EXCEPT !.polled = evidence.age]
  BY DEF UpdateStatusAndReading, newServiceReading
<1>5. /\ short.requests > 0 => status = classifyWindows(short, long, target)
      /\ short.requests <= 0 /\ reading.status = "not_configured" =>
           status = IF long.requests <= 0 THEN "not_configured" ELSE classifyWindows(long, long, target)
      /\ short.requests <= 0 /\ reading.status \in Bad =>
           status = IF SilentFor >= zeroTrafficGrace THEN "operational" ELSE reading.status
      /\ short.requests <= 0 /\ reading.status = "operational" => status = "operational"
  BY <1>1, <1>2 DEF classifyBurn, SilentFor, Bad, Statuses
<1>6. status \in Statuses /\ (short.requests > 0 => status # "not_configured")
  BY <1>1, <1>2, <1>5, WindowTypes DEF Statuses, Bad
<1> HIDE DEF status
<1>7. reading' \in Reading
  BY <1>2, <1>3, <1>4, <1>6 DEF Reading
<1>8. reading'.status = "not_configured" => reading'.errorAge = NoTime
  BY <1>1, <1>2, <1>4, <1>5, <1>6 DEF Bad, Statuses
<1>9. EvidenceInv'
  <2>1. CASE short.requests > 0 \/ reading.status = "not_configured"
    <3>1. evidence' = [short |-> short, long |-> long, target |-> target, status |-> status,
                       age |-> 0, polled |-> 0]
      BY <1>4, <2>1
    <3>2. evidence' \in Evidence /\ evidence'.polled <= evidence'.age
      BY <1>1, <1>3, <1>6, <3>1 DEF Evidence
    <3>3. evidence'.short.requests > 0 =>
            evidence'.status = classifyWindows(evidence'.short, evidence'.long, evidence'.target)
      BY <1>5, <3>1
    <3>4. reading'.status = status /\ evidence'.status = status /\ evidence'.polled < zeroTrafficGrace
      BY <1>4, <3>1 DEF zeroTrafficGrace
    <3>5. status \in Bad => SilentFor' = 0
      <4>1. CASE short.requests > 0 /\ status \in Bad
        <5>1. short.errors > 0
          BY <1>1, <1>5, <4>1, WindowTypes
        <5>2. reading'.errorAge = 0 /\ 0 # NoTime
          BY <1>4, <5>1, BurnSamplesAssumption
        <5> QED BY <5>2 DEF SilentFor
      <4>2. CASE short.requests <= 0 /\ status \in Bad
        <5>1. reading.status = "not_configured" /\ status # reading.status
          BY <1>1, <2>1, <4>2 DEF Bad
        <5>2. reading'.errorAge = NoTime /\ reading'.changeAge = 0
          BY <1>1, <1>2, <1>4, <4>2, <5>1
        <5> QED BY <5>2 DEF SilentFor
      <4> QED BY <1>1, <4>1, <4>2
    <3>6. evidence'.age = 0
      BY <3>1
    <3> QED BY <3>2, <3>3, <3>4, <3>5, <3>6 DEF EvidenceInv
  <2>2. CASE ~(short.requests > 0) /\ reading.status # "not_configured"
    <3>1. EvidenceInv /\ evidence \in Evidence /\ evidence.polled <= evidence.age
      BY <2>2 DEF BurnInv, EvidenceInv
    <3>2. evidence' = [evidence EXCEPT !.polled = evidence.age]
      BY <1>4, <2>2
    <3>3. /\ evidence' \in Evidence /\ evidence'.polled = evidence.age /\ evidence'.age = evidence.age
          /\ evidence'.short = evidence.short /\ evidence'.long = evidence.long
          /\ evidence'.target = evidence.target /\ evidence'.status = evidence.status
          /\ evidence.age \in Ages /\ evidence.polled \in Ages
      BY <3>1, <3>2 DEF Evidence
    <3>n. evidence.age \in Int /\ evidence.polled \in Int /\ zeroTrafficGrace \in Int
      <4>1. evidence.age \in Ages /\ evidence.polled \in Ages
        BY <3>3
      <4> QED BY <4>1 DEF Ages, zeroTrafficGrace
    <3>4. /\ reading'.errorAge = reading.errorAge /\ reading'.status = status
          /\ status = reading.status => reading'.changeAge = reading.changeAge
      BY <1>1, <1>4, <2>2
    <3>5. short.requests <= 0
      BY <1>1, <2>2
    <3>6. ASSUME evidence.status \in Bad
          PROVE  /\ reading'.status = IF evidence.age < zeroTrafficGrace THEN evidence.status ELSE "operational"
                 /\ reading'.status \in Bad => SilentFor' = evidence.age
      <4>1. /\ reading.status = IF evidence.polled < zeroTrafficGrace THEN evidence.status ELSE "operational"
            /\ reading.status \in Bad => SilentFor = evidence.age
        BY <3>1, <3>6 DEF EvidenceInv
      <4>2. CASE evidence.polled < zeroTrafficGrace
        <5>1. reading.status = evidence.status /\ SilentFor = evidence.age
          BY <3>6, <4>1, <4>2
        <5>2. status = IF evidence.age >= zeroTrafficGrace THEN "operational" ELSE evidence.status
          BY <1>5, <3>5, <3>6, <5>1
        <5>3. reading'.status = IF evidence.age < zeroTrafficGrace THEN evidence.status ELSE "operational"
          BY <3>n, <3>4, <5>2
        <5>4. status \in Bad => SilentFor' = SilentFor
          BY <3>4, <5>1, <5>2 DEF SilentFor, Bad
        <5> QED BY <3>4, <5>1, <5>3, <5>4
      <4>3. CASE ~(evidence.polled < zeroTrafficGrace)
        <5>1. reading.status = "operational" /\ status = "operational"
          BY <1>5, <3>5, <4>1, <4>3
        <5>2. ~(evidence.age < zeroTrafficGrace)
          BY <3>n, <3>1, <4>3
        <5> QED BY <3>4, <5>1, <5>2 DEF Bad
      <4> QED BY <4>2, <4>3
    <3>7. evidence'.polled <= evidence'.age
      BY <3>n, <3>3
    <3>8. evidence'.short.requests > 0 =>
            evidence'.status = classifyWindows(evidence'.short, evidence'.long, evidence'.target)
      BY <3>1, <3>3 DEF EvidenceInv
    <3> QED BY <3>3, <3>6, <3>7, <3>8 DEF EvidenceInv
  <2> QED BY <2>1, <2>2
<1> QED BY <1>7, <1>8, <1>9 DEF BurnInv

LEMMA TimeBurn ==
  ASSUME BurnInv, TimePasses
  PROVE  BurnInv'
<1>1. /\ EvidenceInv /\ evidence \in Evidence /\ reading \in Reading
      /\ evidence.age \in Ages /\ evidence.polled \in Ages /\ evidence.polled <= evidence.age
      /\ reading.errorAge \in Ages \cup {NoTime} /\ reading.changeAge \in Ages
      /\ reading.status = "not_configured" => reading.errorAge = NoTime
  BY DEF BurnInv, EvidenceInv, TimePasses, Evidence, Reading
<1>2. \A a \in Ages : Older(a) \in Ages /\ Older(a) >= a /\ a # NoTime /\ Older(a) # NoTime
  BY BurnSamplesAssumption DEF Older, Ages, zeroTrafficGrace
<1>3. Older(NoTime) = NoTime
  BY DEF Older
<1> HIDE DEF Older
<1>4. /\ reading' = [reading EXCEPT !.errorAge = Older(reading.errorAge), !.changeAge = Older(reading.changeAge)]
      /\ evidence' = [evidence EXCEPT !.age = Older(evidence.age)]
  BY <1>1 DEF TimePasses
<1>5. /\ reading'.status = reading.status /\ reading'.errorAge = Older(reading.errorAge)
      /\ reading'.changeAge = Older(reading.changeAge) /\ reading' \in Reading
  BY <1>1, <1>2, <1>3, <1>4 DEF Reading
<1>6. /\ evidence'.age = Older(evidence.age) /\ evidence'.polled = evidence.polled
      /\ evidence'.short = evidence.short /\ evidence'.long = evidence.long
      /\ evidence'.target = evidence.target /\ evidence'.status = evidence.status
      /\ evidence' \in Evidence
  BY <1>1, <1>2, <1>4 DEF Evidence
<1>7. SilentFor' = Older(SilentFor)
  BY <1>1, <1>2, <1>3, <1>5 DEF SilentFor
<1>8. evidence'.polled <= evidence'.age
  <2>1. evidence.age <= Older(evidence.age) /\ Older(evidence.age) \in Int /\ evidence.age \in Int
        /\ evidence.polled \in Int
    BY <1>1, <1>2 DEF Ages, zeroTrafficGrace
  <2> QED BY <1>1, <1>6, <2>1
<1>9. EvidenceInv'
  BY <1>1, <1>5, <1>6, <1>7, <1>8 DEF EvidenceInv
<1> QED BY <1>1, <1>3, <1>5, <1>9 DEF BurnInv

LEMMA BurnInvariant == BurnSpec => []BurnInv
<1>1. BurnInit => BurnInv
  <2> SUFFICES ASSUME BurnInit PROVE BurnInv
    OBVIOUS
  <2>1. /\ reading = [status |-> "not_configured", errorAge |-> NoTime, changeAge |-> 0]
        /\ evidence = NoTime
    BY DEF BurnInit
  <2>2. reading \in Reading
    BY <2>1 DEF Reading, Ages, zeroTrafficGrace, Statuses
  <2> QED BY <2>1, <2>2 DEF BurnInv
<1>2. BurnInv /\ [BurnNext]_burnVars => BurnInv'
  <2> SUFFICES ASSUME BurnInv, [BurnNext]_burnVars PROVE BurnInv'
    OBVIOUS
  <2>1. CASE UNCHANGED burnVars
    BY <2>1 DEF burnVars, BurnInv, EvidenceInv, SilentFor
  <2> QED BY <2>1, UpdateBurn, TimeBurn DEF BurnNext
<1> QED BY <1>1, <1>2, PTL DEF BurnSpec

\* Had the last cycle with traffic seen more errors in either window, it would
\* have decided the same or a worse status, for all counts and targets
\* (classifyWindows, BURN-17).
THEOREM MoreErrorsNoBetter == BurnSpec => []BurnMonotone
<1>1. BurnInv => BurnMonotone
  <2> SUFFICES ASSUME BurnInv, evidence # NoTime, evidence.short.requests > 0,
                      NEW s \in SampleWindows, NEW l \in SampleWindows,
                      s.requests = evidence.short.requests, s.errors >= evidence.short.errors,
                      l.requests = evidence.long.requests, l.errors >= evidence.long.errors
               PROVE  Severity(evidence.status) <= Severity(classifyWindows(s, l, evidence.target))
    BY DEF BurnMonotone
  <2>1. /\ evidence \in Evidence
        /\ evidence.status = classifyWindows(evidence.short, evidence.long, evidence.target)
    BY DEF BurnInv, EvidenceInv
  <2>2. /\ evidence.short \in WindowCounts /\ evidence.long \in WindowCounts /\ evidence.target \in Nat
        /\ s \in WindowCounts /\ l \in WindowCounts
    BY <2>1, BurnSamplesAssumption DEF Evidence
  <2>3. evidence.short.errors <= s.errors /\ evidence.long.errors <= l.errors
    BY <2>2 DEF WindowCounts
  <2> QED BY <2>1, <2>2, <2>3, WorseIsWorse
<1> QED BY <1>1, BurnInvariant, PTL

\* A bad status that requests have decided outlives them by exactly the grace,
\* whichever of last_error_at and last_status_change_at classifyBurn counts
\* from (BURN-06).
THEOREM SilenceBounded == BurnSpec => []SilenceHeld
<1>1. BurnInv => SilenceHeld
  BY DEF BurnInv, EvidenceInv, SilenceHeld, Bad
<1> QED BY <1>1, BurnInvariant, PTL

-----------------------------------------------------------------------------
(* Outages and their incidents.  Only a transition into outage looks for an *)
(* incident; a service that was in outage when the cycle read it must have  *)
(* got its own then, and a status written in a transaction is committed     *)
(* with the incident inserted in it.                                        *)

Closable(i, s) == inc[i].auto /\ s \in inc[i].links /\ inc[i].state \in {"open", "resolved"}
WasDetected(s) == \E i \in Incidents : Closable(i, s)

\* A service published as in outage has an auto-created incident that is open
\* or that an operator has resolved.
OutageWasDetected == \A s \in Services : svc[s].status = "outage" => WasDetected(s)

OutageInv ==
  /\ OutageWasDetected
  /\ \A p \in Pollers, s \in Services :
       /\ snap[p][s] = "outage" => WasDetected(s)
       /\ wrote[p][s] = "outage" => WasDetected(s) \/ created[p][s] # Null
  /\ ops = 0 => \A i \in Incidents : inc[i].state # "resolved"

\* An update of an incident: its links and its origin stay.
LEMMA PutKeeps ==
  ASSUME TypeOK, NEW j \in Incidents, NEW state, NEW refined, NEW pending, NEW reopened,
         Put(j, state, refined, pending, reopened), NEW i \in Incidents
  PROVE  /\ inc'[i].auto = inc[i].auto /\ inc'[i].links = inc[i].links
         /\ inc'[i].state = IF i = j THEN state ELSE inc[i].state
  BY DEF Put, TypeOK

\* What is visible stays visible.
LEMMA IncidentsStay ==
  ASSUME TypeOK, LockInv, [Next]_vars, NEW i \in Incidents, inc[i].state \in {"open", "resolved"}
  PROVE  /\ inc'[i].auto = inc[i].auto /\ inc'[i].links = inc[i].links
         /\ inc'[i].state \in {"open", "resolved"}
<1>1. CASE inc'[i] = inc[i]
  BY <1>1
<1>2. ASSUME NEW e \in enr, Enrich(e)
      PROVE  inc' = inc \/ \E refined, pending, reopened :
               /\ e.target \in Incidents /\ inc[e.target].state = "open"
               /\ Put(e.target, "open", refined, pending, reopened)
  <2>1. CASE SetDescription(e)
    <3>1. e.target \in Incidents \/ inc' = inc
      BY <2>1 DEF SetDescription, Put, TypeOK
    <3> QED BY <2>1, <3>1 DEF SetDescription
  <2>2. ASSUME NEW text \in Texts, SetPendingCloseComment(e, text)
        PROVE  inc' = inc \/ \E refined, pending, reopened :
                 /\ e.target \in Incidents /\ inc[e.target].state = "open"
                 /\ Put(e.target, "open", refined, pending, reopened)
    <3>1. e.target \in Incidents \/ inc' = inc
      BY <2>2 DEF SetPendingCloseComment, Put, TypeOK
    <3> QED BY <2>2, <3>1 DEF SetPendingCloseComment
  <2>3. CASE Generate(e) \/ EnrichmentFails(e) \/ UpdateStatusAnalysis(e)
    BY <2>3 DEF Generate, EnrichmentFails, UpdateStatusAnalysis
  <2> QED BY <1>2, <2>1, <2>2, <2>3 DEF Enrich
<1>3. ASSUME NEW e \in enr, Enrich(e)
      PROVE  /\ inc'[i].auto = inc[i].auto /\ inc'[i].links = inc[i].links
             /\ inc'[i].state \in {"open", "resolved"}
  <2>1. CASE inc' = inc
    BY <2>1
  <2>2. ASSUME NEW refined, NEW pending, NEW reopened, e.target \in Incidents,
               Put(e.target, "open", refined, pending, reopened)
        PROVE  /\ inc'[i].auto = inc[i].auto /\ inc'[i].links = inc[i].links
               /\ inc'[i].state \in {"open", "resolved"}
    BY <2>2, PutKeeps
  <2> QED BY <1>2, <1>3, <2>1, <2>2
<1>4. CASE Operator
  <2>1. CASE ListPaginated
    BY <2>1, <1>1 DEF ListPaginated
  <2>2. ASSUME NEW j \in Incidents, NEW S \in SUBSET Services, Create(j, S) PROVE inc'[i] = inc[i]
    BY <2>2 DEF Create, TypeOK
  <2>3. ASSUME NEW j \in Incidents,
               Resolve(j) \/ Reopen(j) \/ ConfirmPendingClose(j) \/ DiscardCloseProposal(j)
        PROVE  \E state, refined, pending, reopened :
                 /\ state \in {"open", "resolved"} \/ (state = inc[j].state)
                 /\ Put(j, state, refined, pending, reopened)
    BY <2>3 DEF Resolve, Reopen, ConfirmPendingClose, DiscardCloseProposal
  <2>4. ASSUME NEW j \in Incidents,
               Resolve(j) \/ Reopen(j) \/ ConfirmPendingClose(j) \/ DiscardCloseProposal(j)
        PROVE  /\ inc'[i].auto = inc[i].auto /\ inc'[i].links = inc[i].links
               /\ inc'[i].state \in {"open", "resolved"}
    BY <2>3, <2>4, PutKeeps
  <2> QED BY <1>1, <1>4, <2>1, <2>2, <2>4 DEF Operator
<1>5. CASE UNCHANGED vars
  BY <1>1, <1>5 DEF vars
<1>6. ASSUME NEW p \in Pollers,
             \/ Start(p) \/ Stop(p) \/ Abort(p) \/ Cycle(p)
             \/ \E key \in cooling[p] : CooldownOver(p, key)
      PROVE  inc'[i] = inc[i]
  BY <1>6, PollerKeeps
<1> QED BY <1>1, <1>3, <1>4, <1>5, <1>6 DEF Next

LEMMA DetectedStays ==
  ASSUME TypeOK, LockInv, [Next]_vars, NEW s \in Services, WasDetected(s)
  PROVE  WasDetected(s)'
<1>1. PICK i \in Incidents : Closable(i, s)
  BY DEF WasDetected
<1>2. Closable(i, s)'
  BY <1>1, IncidentsStay DEF Closable
<1> QED BY <1>2 DEF WasDetected

\* Only an operator resolves.
LEMMA ResolvedByOperator ==
  ASSUME TypeOK, LockInv, OutageInv, [Next]_vars, ops' = 0
  PROVE  \A i \in Incidents : inc'[i].state # "resolved"
<1> SUFFICES ASSUME NEW i \in Incidents, inc'[i].state = "resolved" PROVE FALSE
  OBVIOUS
<1>1. ops \in Nat /\ MaxOps \in Nat
  BY BoundsAssumption DEF TypeOK
<1>2. ~Operate
  BY <1>1 DEF Operate
<1>3. CASE UNCHANGED ops
  <2>1. inc[i].state # "resolved" /\ \A j \in Incidents : inc[j].state # "resolved"
    BY <1>3 DEF OutageInv
  <2>2. ASSUME NEW j \in Incidents, NEW refined, NEW pending, NEW reopened,
               Put(j, "open", refined, pending, reopened) PROVE FALSE
    BY <2>1, <2>2, PutKeeps
  <2>3. ASSUME NEW e \in enr, Enrich(e) PROVE FALSE
    <3>1. \/ inc' = inc
          \/ \E refined, pending, reopened : Put(e.target, "open", refined, pending, reopened)
      BY <2>3 DEF Enrich, Generate, EnrichmentFails, UpdateStatusAnalysis, SetDescription,
         SetPendingCloseComment
    <3>2. CASE e.target \in Incidents
      BY <2>1, <2>2, <3>1, <3>2
    <3>3. CASE e.target \notin Incidents
      BY <2>1, <3>1, <3>3 DEF Put, TypeOK
    <3> QED BY <3>2, <3>3
  <2>4. CASE Operator
    <3>1. \/ inc' = inc \/ \E j \in Incidents : Reopen(j)
      BY <1>2, <2>4 DEF Operator, ListPaginated, Create, Resolve, ConfirmPendingClose, DiscardCloseProposal
    <3> QED BY <2>1, <3>1 DEF Reopen
  <2>5. ASSUME NEW p \in Pollers, NEW state \in {"open", "lost"}, Settle(p, state) PROVE FALSE
    BY <2>1, <2>5 DEF Settle
  <2>6. ASSUME NEW p \in Pollers, NEW s \in Services, NEW st, pollService(p, s, st) PROVE FALSE
    <3>1. inc' = inc \/ CreateDetected(p, s)
      BY <2>6 DEF pollService, HandleTransition, handleRecoveryTransition, handleOutageTransition
    <3>2. CASE CreateDetected(p, s)
      <4>1. PICK j \in Incidents :
              inc' = [inc EXCEPT ![j] = [state |-> "uncommitted", auto |-> TRUE, links |-> {s},
                                         refined |-> FALSE, pending |-> Null, reopened |-> FALSE]]
        BY <3>2 DEF CreateDetected
      <4>2. inc'[i] = inc[i] \/ inc'[i].state = "uncommitted"
        BY <4>1 DEF TypeOK
      <4> QED BY <2>1, <4>2
    <3> QED BY <2>1, <3>1, <3>2
  <2>7. ASSUME NEW p \in Pollers, Cycle(p) PROVE FALSE
    <3>1. CASE Commit(p) \/ Rollback(p)
      BY <2>5, <3>1 DEF Commit, Rollback
    <3>2. CASE ~(Commit(p) \/ Rollback(p))
      BY <2>1, <2>6, <2>7, <3>2 DEF Cycle, pollCycle, pollServiceAborted, pollServiceFails
    <3> QED BY <3>1, <3>2
  <2>8. ASSUME NEW p \in Pollers,
               Start(p) \/ Stop(p) \/ Abort(p) \/ \E key \in cooling[p] : CooldownOver(p, key)
        PROVE FALSE
    BY <2>1, <2>5, <2>8 DEF Start, Stop, Abort, CooldownOver
  <2>9. CASE UNCHANGED vars
    BY <2>1, <2>9 DEF vars
  <2> QED BY <2>3, <2>4, <2>7, <2>8, <2>9 DEF Next
<1>4. UNCHANGED ops
  <2>1. ASSUME NEW p \in Pollers,
               \/ Start(p) \/ Stop(p) \/ Abort(p) \/ Cycle(p)
               \/ \E key \in cooling[p] : CooldownOver(p, key)
        PROVE UNCHANGED ops
    BY <2>1 DEF Start, Stop, Abort, CooldownOver, Cycle, pollCycle, pollService, pollServiceAborted,
       pollServiceFails, Commit, Rollback
  <2>2. ASSUME NEW e \in enr, Enrich(e) PROVE UNCHANGED ops
    BY <2>2 DEF Enrich, Generate, EnrichmentFails, UpdateStatusAnalysis, SetDescription,
       SetPendingCloseComment
  <2>3. CASE Operator
    BY <1>2, <2>3 DEF Operator, ListPaginated, Create, Resolve, Reopen, ConfirmPendingClose,
       DiscardCloseProposal
  <2> QED BY <2>1, <2>2, <2>3 DEF Next, vars
<1> QED BY <1>3, <1>4

\* The end of a transaction, without its writes.
LEMMA OutageLost ==
  ASSUME TypeOK, LockInv, OutageInv, [Next]_vars, NEW p \in Pollers, NEW state, Settle(p, state),
         UNCHANGED svc,
         \/ UNCHANGED snap
         \/ snap' = [snap EXCEPT ![p] = [s \in Services |-> "not_configured"]]
  PROVE  OutageInv'
<1>1. \A q \in Pollers, s \in Services :
        /\ wrote'[q][s] = (IF q = p THEN Null ELSE wrote[q][s])
        /\ q # p => created'[q][s] = created[q][s]
        /\ snap'[q][s] \in {snap[q][s], "not_configured"}
  <2>1. \A q \in Pollers, s \in Services :
          /\ wrote'[q][s] = (IF q = p THEN Null ELSE wrote[q][s])
          /\ q # p => created'[q][s] = created[q][s]
    BY DEF Settle, TypeOK
  <2>2. \A q \in Pollers, s \in Services : snap'[q][s] \in {snap[q][s], "not_configured"}
    <3>1. snap \in [Pollers -> [Services -> Statuses]]
      BY DEF TypeOK
    <3>2. CASE UNCHANGED snap
      BY <3>2
    <3>3. CASE snap' = [snap EXCEPT ![p] = [s \in Services |-> "not_configured"]]
      BY <3>1, <3>3
    <3> QED BY <3>2, <3>3
  <2> QED BY <2>1, <2>2
<1>2. Null # "outage"
  BY NullAssumption DEF Statuses
<1>3. OutageWasDetected'
  BY DetectedStays DEF OutageInv, OutageWasDetected
<1>4. ASSUME NEW q \in Pollers, NEW s \in Services
      PROVE  /\ snap'[q][s] = "outage" => WasDetected(s)'
             /\ wrote'[q][s] = "outage" => WasDetected(s)' \/ created'[q][s] # Null
  <2>1. snap'[q][s] = "outage" => WasDetected(s)
    BY <1>1 DEF OutageInv
  <2>2. wrote'[q][s] = "outage" => WasDetected(s) \/ created'[q][s] # Null
    BY <1>1, <1>2 DEF OutageInv
  <2> QED BY <2>1, <2>2, DetectedStays
<1> QED BY <1>3, <1>4, ResolvedByOperator DEF OutageInv

LEMMA OutageStep ==
  ASSUME TypeOK, LockInv, OutageInv, [Next]_vars
  PROVE  OutageInv'
<1>f. ASSUME UNCHANGED <<snap, wrote, created>>, \A s \in Services : svc'[s].status = svc[s].status
      PROVE  OutageInv'
  <2>1. OutageWasDetected'
    BY <1>f, DetectedStays DEF OutageInv, OutageWasDetected
  <2>2. ASSUME NEW q \in Pollers, NEW s \in Services
        PROVE  /\ snap'[q][s] = "outage" => WasDetected(s)'
               /\ wrote'[q][s] = "outage" => WasDetected(s)' \/ created'[q][s] # Null
    BY <1>f, DetectedStays DEF OutageInv
  <2> QED BY <2>1, <2>2, ResolvedByOperator DEF OutageInv
<1>1. ASSUME NEW p \in Pollers, pollCycle(p) PROVE OutageInv'
  <2>1. /\ UNCHANGED <<svc, wrote, created>>
        /\ \A q \in Pollers, s \in Services : snap'[q][s] = IF q = p THEN svc[s].status ELSE snap[q][s]
    BY <1>1 DEF pollCycle, TypeOK
  <2>2. OutageWasDetected'
    BY <2>1, DetectedStays DEF OutageInv, OutageWasDetected
  <2>3. ASSUME NEW q \in Pollers, NEW s \in Services
        PROVE  /\ snap'[q][s] = "outage" => WasDetected(s)'
               /\ wrote'[q][s] = "outage" => WasDetected(s)' \/ created'[q][s] # Null
    <3>1. snap'[q][s] = "outage" => WasDetected(s)
      BY <2>1 DEF OutageInv, OutageWasDetected
    <3>2. wrote'[q][s] = "outage" => WasDetected(s) \/ created'[q][s] # Null
      BY <2>1 DEF OutageInv
    <3> QED BY <3>1, <3>2, DetectedStays
  <2> QED BY <2>2, <2>3, ResolvedByOperator DEF OutageInv
<1>2. ASSUME NEW p \in Pollers, NEW s \in Services, NEW st \in Observable[s], pollService(p, s, st)
      PROVE  OutageInv'
  <2>1. /\ UNCHANGED <<svc, snap>> /\ HandleTransition(p, s, snap[p][s], st)
        /\ \A q \in Pollers, r \in Services :
             wrote'[q][r] = IF q = p /\ r = s THEN st ELSE wrote[q][r]
    BY <1>2 DEF pollService, TypeOK
  <2>2. UNCHANGED created \/ \E i \in Incidents : created' = [created EXCEPT ![p] = [@ EXCEPT ![s] = i]]
    BY <2>1 DEF HandleTransition, handleRecoveryTransition, handleOutageTransition, CreateDetected
  <2>3. \A q \in Pollers, r \in Services : created[q][r] # Null => created'[q][r] # Null
    <3>1. ASSUME NEW i \in Incidents, created' = [created EXCEPT ![p] = [@ EXCEPT ![s] = i]],
                 NEW q \in Pollers, NEW r \in Services, created[q][r] # Null
          PROVE  created'[q][r] # Null
      <4>1. created'[q][r] = IF q = p /\ r = s THEN i ELSE created[q][r]
        BY <3>1 DEF TypeOK
      <4> QED BY <3>1, <4>1, NullAssumption
    <3> QED BY <2>2, <3>1
  <2>4. st = "outage" => WasDetected(s) \/ created'[p][s] # Null
    <3>1. CASE snap[p][s] = "outage"
      BY <3>1 DEF OutageInv
    <3>2. CASE st = "outage" /\ snap[p][s] # "outage"
      <4>1. handleOutageTransition(p, s)
        BY <2>1, <3>2 DEF HandleTransition
      <4>2. CASE CreateDetected(p, s)
        <5>1. PICK i \in Incidents : created' = [created EXCEPT ![p] = [@ EXCEPT ![s] = i]]
          BY <4>2 DEF CreateDetected
        <5>2. created'[p][s] = i /\ i # Null
          BY <5>1, NullAssumption DEF TypeOK
        <5> QED BY <5>2
      <4>3. CASE \E i \in Incidents : HasOpenIncidentForService(i, s)
        BY <4>3 DEF HasOpenIncidentForService, WasDetected, Closable
      <4> QED BY <4>1, <4>2, <4>3 DEF handleOutageTransition
    <3> QED BY <3>1, <3>2
  <2>5. OutageWasDetected'
    BY <2>1, DetectedStays DEF OutageInv, OutageWasDetected
  <2>6. ASSUME NEW q \in Pollers, NEW r \in Services
        PROVE  /\ snap'[q][r] = "outage" => WasDetected(r)'
               /\ wrote'[q][r] = "outage" => WasDetected(r)' \/ created'[q][r] # Null
    <3>1. snap'[q][r] = "outage" => WasDetected(r)
      BY <2>1 DEF OutageInv
    <3>2. wrote'[q][r] = "outage" => WasDetected(r) \/ created'[q][r] # Null
      BY <2>1, <2>3, <2>4 DEF OutageInv
    <3> QED BY <3>1, <3>2, DetectedStays
  <2> QED BY <2>5, <2>6, ResolvedByOperator DEF OutageInv
<1>3. ASSUME NEW p \in Pollers, Commit(p) PROVE OutageInv'
  <2>1. /\ Settle(p, "open")
        /\ \A s \in Services : svc'[s].status = IF wrote[p][s] = Null THEN svc[s].status ELSE wrote[p][s]
        /\ snap' = [snap EXCEPT ![p] = [s \in Services |-> "not_configured"]]
    BY <1>3 DEF Commit, Published, EndTx
  <2>2. \A q \in Pollers, s \in Services :
          /\ wrote'[q][s] = (IF q = p THEN Null ELSE wrote[q][s])
          /\ q # p => created'[q][s] = created[q][s]
          /\ snap'[q][s] \in {snap[q][s], "not_configured"}
    BY <2>1 DEF Settle, TypeOK
  <2>3. Null # "outage"
    BY NullAssumption DEF Statuses
  <2>4. ASSUME NEW s \in Services, created[p][s] # Null PROVE WasDetected(s)'
    <3>1. PICK i \in Incidents : i = created[p][s]
      BY <2>4 DEF TypeOK
    <3>2. inc[i].links = {s}
      BY <2>4, <3>1 DEF LockInv, CreatedOwn
    <3>3. CreatedBy(p, i)
      BY <3>1 DEF CreatedBy
    <3>4. inc'[i].state = "open" /\ inc'[i].auto /\ inc'[i].links = inc[i].links
      BY <2>1, <3>3 DEF Settle
    <3> QED BY <3>2, <3>4 DEF WasDetected, Closable
  <2>5. ASSUME NEW s \in Services, svc'[s].status = "outage" PROVE WasDetected(s)'
    <3>1. WasDetected(s) \/ created[p][s] # Null
      BY <2>1, <2>5 DEF OutageInv, OutageWasDetected
    <3> QED BY <2>4, <3>1, DetectedStays
  <2>6. ASSUME NEW q \in Pollers, NEW s \in Services
        PROVE  /\ snap'[q][s] = "outage" => WasDetected(s)'
               /\ wrote'[q][s] = "outage" => WasDetected(s)' \/ created'[q][s] # Null
    <3>1. snap'[q][s] = "outage" => WasDetected(s)
      BY <2>2 DEF OutageInv
    <3>2. wrote'[q][s] = "outage" => WasDetected(s) \/ created'[q][s] # Null
      BY <2>2, <2>3 DEF OutageInv
    <3> QED BY <3>1, <3>2, DetectedStays
  <2> QED BY <2>5, <2>6, ResolvedByOperator DEF OutageInv, OutageWasDetected
<1>4. ASSUME NEW p \in Pollers, Rollback(p) \/ Stop(p) \/ Abort(p) PROVE OutageInv'
  BY <1>4, OutageLost DEF Rollback, Stop, Abort, EndTx
<1>5. ASSUME NEW p \in Pollers,
             \/ Start(p) \/ \E key \in cooling[p] : CooldownOver(p, key)
             \/ \E s \in Services : \/ \E st \in Observable[s] : pollServiceAborted(p, s, st)
                                    \/ pollServiceFails(p, s)
      PROVE  OutageInv'
  BY <1>5, <1>f DEF Start, CooldownOver, pollServiceAborted, pollServiceFails, pollVars
<1>6. ASSUME NEW e \in enr, Enrich(e) PROVE OutageInv'
  <2>1. UNCHANGED pollVars
    BY <1>6 DEF Enrich, Generate, EnrichmentFails, UpdateStatusAnalysis, SetDescription, SetPendingCloseComment
  <2>2. UNCHANGED svc \/ UpdateStatusAnalysis(e)
    BY <1>6 DEF Enrich, Generate, EnrichmentFails, SetDescription, SetPendingCloseComment
  <2>3. ASSUME NEW s \in Services PROVE svc'[s].status = svc[s].status
    <3>1. CASE UpdateStatusAnalysis(e)
      <4>1. CASE e.target = s
        BY <3>1, <4>1 DEF UpdateStatusAnalysis, TypeOK
      <4>2. CASE e.target # s
        BY <3>1, <4>2 DEF UpdateStatusAnalysis, TypeOK
      <4> QED BY <4>1, <4>2
    <3> QED BY <2>2, <3>1
  <2> QED BY <1>f, <2>1, <2>3 DEF pollVars
<1>7. CASE Operator
  BY <1>7, <1>f DEF Operator, ListPaginated, Create, Resolve, Reopen, ConfirmPendingClose,
     DiscardCloseProposal, Operate, pollVars
<1>8. CASE UNCHANGED vars
  BY <1>8, <1>f DEF vars, pollVars
<1> QED BY <1>1, <1>2, <1>3, <1>4, <1>5, <1>6, <1>7, <1>8 DEF Next, Cycle

LEMMA OutageInvariant == Spec => []OutageInv
<1>1. Init => OutageInv
  <2> SUFFICES ASSUME Init PROVE OutageInv
    OBVIOUS
  <2>1. /\ \A s \in Services : svc[s].status = "not_configured"
        /\ \A p \in Pollers, s \in Services : snap[p][s] = "not_configured" /\ wrote[p][s] = Null
        /\ \A i \in Incidents : inc[i].state = "none"
    BY DEF Init, NoIncident
  <2> QED BY <2>1, NullAssumption DEF OutageInv, OutageWasDetected, Statuses
<1>2. TypeOK /\ LockInv /\ OutageInv /\ [Next]_vars => OutageInv'
  BY OutageStep
<1> QED BY <1>1, <1>2, LockInvariant, PTL DEF Spec

\* No outage is published without its incident: status and incident become
\* visible together, however instances overlap and transactions fail, and until
\* an operator acts that incident is open.
THEOREM OutageIncidentOpen == Spec => []OutageHasIncident
<1>1. TypeOK /\ OutageInv => OutageHasIncident
  <2> SUFFICES ASSUME TypeOK, OutageInv, NEW s \in Services, svc[s].status = "outage"
               PROVE  \E i \in Incidents :
                        \/ HasOpenIncidentForService(i, s)
                        \/ ops > 0 /\ inc[i].state = "resolved" /\ inc[i].auto /\ s \in inc[i].links
    BY DEF OutageHasIncident
  <2>1. PICK i \in Incidents : Closable(i, s)
    BY DEF OutageInv, OutageWasDetected, WasDetected
  <2>2. inc[i].state = "resolved" => ops > 0
    BY BoundsAssumption DEF TypeOK, OutageInv
  <2> QED BY <2>1, <2>2 DEF Closable, HasOpenIncidentForService
<1> QED BY <1>1, TypeCorrect, OutageInvariant, PTL

-----------------------------------------------------------------------------
(* Refinement of TenantBoard.                                               *)

\* An incident is only ever inserted for a status written as outage.
CreatedForOutage ==
  \A p \in Pollers, s \in Services : created[p][s] # Null => wrote[p][s] = "outage"

BoardInv == TypeOK /\ LockInv /\ OutageInv /\ CreatedForOutage

Visible(i) == inc[i].state \in {"open", "resolved"}

\* The end of a transaction forgets what it wrote and created.
LEMMA SettleCreated ==
  ASSUME TypeOK, CreatedForOutage, NEW p \in Pollers, NEW state, Settle(p, state)
  PROVE  CreatedForOutage'
BY DEF TypeOK, CreatedForOutage, Settle

LEMMA CreatedStep ==
  ASSUME TypeOK, LockInv, CreatedForOutage, [Next]_vars
  PROVE  CreatedForOutage'
<1>f. ASSUME UNCHANGED <<wrote, created>> PROVE CreatedForOutage'
  BY <1>f DEF CreatedForOutage
<1>1. ASSUME NEW p \in Pollers, NEW s \in Services, NEW st \in Observable[s], pollService(p, s, st)
      PROVE  CreatedForOutage'
  <2>1. created[p][s] = Null
    BY <1>1 DEF pollService, RowFree, LockInv, CreatedOwn
  <2>2. wrote' = [wrote EXCEPT ![p] = [@ EXCEPT ![s] = st]]
    BY <1>1 DEF pollService
  <2>3. \/ created' = created
        \/ st = "outage" /\ \E i \in Incidents : created' = [created EXCEPT ![p] = [@ EXCEPT ![s] = i]]
    BY <1>1 DEF pollService, HandleTransition, handleOutageTransition, handleRecoveryTransition,
       CreateDetected
  <2>4. \A q \in Pollers, r \in Services :
          <<q, r>> # <<p, s>> => wrote'[q][r] = wrote[q][r] /\ created'[q][r] = created[q][r]
    BY <2>2, <2>3 DEF TypeOK
  <2>5. created'[p][s] # Null => wrote'[p][s] = "outage"
    BY <2>1, <2>2, <2>3 DEF TypeOK
  <2> QED BY <2>4, <2>5 DEF CreatedForOutage
<1>2. ASSUME NEW p \in Pollers, Cycle(p) PROVE CreatedForOutage'
  <2>1. CASE Commit(p) \/ Rollback(p)
    BY <2>1, SettleCreated DEF Commit, Rollback
  <2>2. CASE ~(Commit(p) \/ Rollback(p))
    BY <1>f, <1>1, <1>2, <2>2 DEF Cycle, pollCycle, pollServiceAborted, pollServiceFails
  <2> QED BY <2>1, <2>2
<1>3. ASSUME NEW p \in Pollers,
             Start(p) \/ Stop(p) \/ Abort(p) \/ \E key \in cooling[p] : CooldownOver(p, key)
      PROVE  CreatedForOutage'
  BY <1>f, <1>3, SettleCreated DEF Start, Stop, Abort, CooldownOver, pollVars
<1>4. ASSUME NEW e \in enr, Enrich(e) PROVE CreatedForOutage'
  BY <1>f, <1>4 DEF Enrich, Generate, EnrichmentFails, UpdateStatusAnalysis, SetDescription,
     SetPendingCloseComment, pollVars
<1>5. CASE Operator
  BY <1>f, <1>5 DEF Operator, Operate, ListPaginated, Create, Resolve, Reopen, ConfirmPendingClose,
     DiscardCloseProposal, pollVars
<1>6. CASE UNCHANGED vars
  BY <1>f, <1>6 DEF vars, pollVars
<1> QED BY <1>2, <1>3, <1>4, <1>5, <1>6 DEF Next

LEMMA BoardInvariant == Spec => []BoardInv
<1>1. Init => CreatedForOutage
  BY DEF Init, CreatedForOutage
<1>2. TypeOK /\ LockInv /\ CreatedForOutage /\ [Next]_vars => CreatedForOutage'
  BY CreatedStep
<1>3. Spec => []CreatedForOutage
  BY <1>1, <1>2, LockInvariant, PTL DEF Spec
<1> QED BY <1>3, LockInvariant, OutageInvariant, PTL DEF BoardInv

\* The board is the same when no status and no visible incident changes and
\* none appears.
LEMMA BoardFrame ==
  ASSUME \A s \in Services : svc'[s].status = svc[s].status,
         \A i \in Incidents :
           \/ ~Visible(i) /\ ~Visible(i)'
           \/ /\ inc'[i].state = inc[i].state /\ inc'[i].auto = inc[i].auto
              /\ inc'[i].links = inc[i].links /\ inc'[i].reopened = inc[i].reopened
  PROVE  UNCHANGED <<PublicStatus, PublicIncidents>>
<1>1. PublicStatus' = PublicStatus
  BY DEF PublicStatus
<1>2. PublicIncidents' = PublicIncidents
  BY DEF PublicIncidents, Visible
<1> QED BY <1>1, <1>2

\* Updates that leave status and links alone do not show on the board.
LEMMA PutFrame ==
  ASSUME TypeOK, NEW i, NEW refined, NEW pending, UNCHANGED svc,
         Put(i, inc[i].state, refined, pending, inc[i].reopened)
  PROVE  UNCHANGED <<PublicStatus, PublicIncidents>>
<1>1. \A j \in Incidents :
        /\ inc'[j].state = inc[j].state /\ inc'[j].auto = inc[j].auto
        /\ inc'[j].links = inc[j].links /\ inc'[j].reopened = inc[j].reopened
  BY DEF Put, TypeOK
<1> QED BY <1>1, BoardFrame

\* A transaction that is rolled back leaves nothing on the board.
LEMMA LostFrame ==
  ASSUME TypeOK, LockInv, NEW p \in Pollers, Settle(p, "lost"), UNCHANGED svc
  PROVE  UNCHANGED <<PublicStatus, PublicIncidents>>
<1>1. ASSUME NEW i \in Incidents, CreatedBy(p, i) PROVE ~Visible(i) /\ ~Visible(i)'
  <2>1. inc[i].state = "uncommitted"
    BY <1>1, NullAssumption DEF CreatedBy, LockInv, CreatedOwn
  <2>2. inc'[i].state = "lost"
    BY <1>1 DEF Settle
  <2> QED BY <2>1, <2>2 DEF Visible
<1>2. \A i \in Incidents : ~CreatedBy(p, i) => inc'[i] = inc[i]
  BY DEF Settle
<1> QED BY <1>1, <1>2, BoardFrame

\* A commit publishes the statuses and the incidents of its outages.
LEMMA CommitPublishes ==
  ASSUME BoardInv, NEW p \in Pollers, Commit(p)
  PROVE  Board!BoardNext
<1> DEFINE new == [s \in Services |-> svc'[s].status]
           found == {s \in Services : created[p][s] # Null}
           id == [s \in found |-> created[p][s]]
<1>type. TypeOK /\ LockInv
  BY DEF BoardInv
<1>1. \A s \in Services : svc'[s].status = IF wrote[p][s] = Null THEN svc[s].status ELSE wrote[p][s]
  BY DEF Commit, Published
<1>2. new \in [Services -> Statuses]
  <2>1. \A s \in Services : svc[s].status \in Statuses /\ wrote[p][s] \in Statuses \cup {Null}
    BY <1>type DEF TypeOK
  <2> QED BY <1>1, <2>1
<1>3. found \in SUBSET Services /\ id \in [found -> Incidents]
  BY <1>type DEF TypeOK
<1>4. ASSUME NEW s \in found
      PROVE  /\ id[s] \in Incidents /\ inc[id[s]].state = "uncommitted" /\ inc[id[s]].auto
             /\ ~inc[id[s]].reopened /\ inc[id[s]].links = {s} /\ wrote[p][s] = "outage"
  BY <1>3, <1>type DEF BoardInv, CreatedForOutage, LockInv, CreatedOwn
<1>5. ASSUME NEW s \in found, NEW i \in Incidents, Board!Standing(i, s) PROVE FALSE
  <2>1. inc[i].state = "open" /\ inc[i].auto /\ ~inc[i].reopened /\ s \in inc[i].links
    BY <1>5 DEF Board!Standing, PublicIncidents
  <2>2. Detected(i) /\ Detected(id[s]) /\ inc[i].links \cap inc[id[s]].links # {}
    BY <1>4, <2>1 DEF Detected
  <2>3. i = id[s]
    BY <1>4, <1>type, <2>2 DEF LockInv, OneDetectedIncident
  <2> QED BY <1>4, <2>1, <2>3
<1>6. ASSUME NEW s \in found PROVE new[s] = "outage" /\ PublicIncidents[id[s]] = Board!Hidden
  <2>1. new[s] = "outage"
    BY <1>1, <1>4, NullAssumption DEF Statuses
  <2>2. PublicIncidents[id[s]] = Board!Hidden
    BY <1>4 DEF PublicIncidents, Board!Hidden
  <2> QED BY <2>1, <2>2
<1>7. ASSUME NEW r \in found, NEW s \in found, id[r] = id[s] PROVE r = s
  BY <1>4, <1>7
<1>8. ASSUME NEW s \in Services, new[s] = "outage", s \notin found PROVE Board!Known(s)
  <2>1. WasDetected(s)
    BY <1>1, <1>8 DEF BoardInv, OutageInv, OutageWasDetected
  <2>2. PICK i \in Incidents : Closable(i, s)
    BY <2>1 DEF WasDetected
  <2>3. PublicIncidents[i].auto /\ s \in PublicIncidents[i].links
    BY <2>2 DEF Closable, PublicIncidents
  <2> QED BY <2>3 DEF Board!Known
<1>9. \A i \in Incidents : CreatedBy(p, i) <=> \E s \in found : id[s] = i
  BY NullAssumption DEF CreatedBy
<1>10. Settle(p, "open")
  BY DEF Commit
<1>11. ASSUME NEW i \in Incidents
       PROVE  PublicIncidents'[i] =
                IF \E s \in found : id[s] = i
                THEN Board!Opened(TRUE, {s \in found : id[s] = i}) ELSE PublicIncidents[i]
  <2>1. CASE \E s \in found : id[s] = i
    <3>1. PICK s \in found : id[s] = i
      BY <2>1
    <3>2. {r \in found : id[r] = i} = {s}
      BY <1>7, <3>1
    <3>3. /\ inc'[i].state = "open" /\ inc'[i].auto = TRUE /\ inc'[i].links = {s}
          /\ inc'[i].reopened = FALSE
      BY <1>4, <1>9, <1>10, <3>1 DEF Settle
    <3>4. PublicIncidents'[i] = Board!Opened(TRUE, {s})
      BY <3>3 DEF PublicIncidents, Board!Opened
    <3> HIDE DEF found, id
    <3> QED BY <2>1, <3>2, <3>4
  <2>2. CASE ~\E s \in found : id[s] = i
    <3>1. inc'[i] = inc[i]
      BY <1>9, <1>10, <2>2 DEF Settle
    <3>2. PublicIncidents'[i] = PublicIncidents[i]
      BY <3>1 DEF PublicIncidents
    <3> QED BY <2>2, <3>2
  <2> QED BY <2>1, <2>2
<1>12. PublicIncidents' = [i \in Incidents |->
                             IF \E s \in found : id[s] = i
                             THEN Board!Opened(TRUE, {s \in found : id[s] = i})
                             ELSE PublicIncidents[i]]
  <2> HIDE DEF found, id
  <2> QED BY <1>11 DEF PublicIncidents
<1>13. PublicStatus' = new
  BY DEF PublicStatus
<1>14. Board!Publish(new, found, id)
  <2> HIDE DEF new, found, id
  <2> QED BY <1>5, <1>6, <1>7, <1>8, <1>12, <1>13 DEF Board!Publish
<1> HIDE DEF new, found, id
<1> QED BY <1>2, <1>3, <1>14 DEF Board!BoardNext

\* Every other step of a poller leaves the board as it is.
LEMMA PollerBoard ==
  ASSUME BoardInv, NEW p \in Pollers,
         \/ Start(p) \/ Stop(p) \/ Abort(p) \/ (Cycle(p) /\ ~Commit(p))
         \/ \E key \in cooling[p] : CooldownOver(p, key)
  PROVE  UNCHANGED <<PublicStatus, PublicIncidents>>
<1>type. TypeOK /\ LockInv
  BY DEF BoardInv
<1>f. ASSUME UNCHANGED <<svc, inc>> PROVE UNCHANGED <<PublicStatus, PublicIncidents>>
  BY <1>f DEF PublicStatus, PublicIncidents
<1>1. CASE Stop(p) \/ Abort(p) \/ Rollback(p)
  BY <1>1, <1>type, LostFrame DEF Stop, Abort, Rollback
<1>2. ASSUME NEW s \in Services, NEW st \in Observable[s], pollService(p, s, st)
      PROVE  UNCHANGED <<PublicStatus, PublicIncidents>>
  <2>1. CASE CreateDetected(p, s)
    <3>1. PICK i \in Incidents :
            /\ inc[i].state = "none"
            /\ inc' = [inc EXCEPT ![i] = [state |-> "uncommitted", auto |-> TRUE, links |-> {s},
                                          refined |-> FALSE, pending |-> Null, reopened |-> FALSE]]
      BY <2>1 DEF CreateDetected
    <3>2. ~Visible(i) /\ ~Visible(i)'
      BY <1>type, <3>1 DEF Visible, TypeOK
    <3>3. \A j \in Incidents : j # i => inc'[j] = inc[j]
      BY <3>1
    <3> QED BY <1>2, <3>2, <3>3, BoardFrame DEF pollService
  <2>2. inc' = inc \/ CreateDetected(p, s)
    BY <1>2 DEF pollService, HandleTransition, handleRecoveryTransition, handleOutageTransition
  <2> QED BY <1>f, <1>2, <2>1, <2>2 DEF pollService
<1> QED BY <1>f, <1>1, <1>2 DEF Start, Cycle, pollCycle, pollServiceAborted, pollServiceFails, CooldownOver

\* What an enrichment writes is not on the board.
LEMMA EnrichBoard ==
  ASSUME BoardInv, NEW e \in enr, Enrich(e)
  PROVE  UNCHANGED <<PublicStatus, PublicIncidents>>
<1>type. TypeOK
  BY DEF BoardInv
<1>f. ASSUME UNCHANGED <<svc, inc>> PROVE UNCHANGED <<PublicStatus, PublicIncidents>>
  BY <1>f DEF PublicStatus, PublicIncidents
<1>1. CASE UpdateStatusAnalysis(e)
  <2>1. \A s \in Services : svc'[s].status = svc[s].status
    BY <1>type, <1>1 DEF UpdateStatusAnalysis, TypeOK
  <2> QED BY <1>1, <2>1, BoardFrame DEF UpdateStatusAnalysis
<1>2. CASE SetDescription(e) \/ \E text \in Texts : SetPendingCloseComment(e, text)
  <2>1. /\ UNCHANGED svc
        /\ \/ UNCHANGED inc
           \/ \E refined, pending :
                Put(e.target, inc[e.target].state, refined, pending, inc[e.target].reopened)
    BY <1>2 DEF SetDescription, SetPendingCloseComment
  <2> QED BY <1>type, <1>f, <2>1, PutFrame
<1> QED BY <1>f, <1>1, <1>2 DEF Enrich, Generate, EnrichmentFails

\* An operator's request is a step of the board, or stutters.
LEMMA OperatorBoard ==
  ASSUME BoardInv, Operator
  PROVE  [Board!BoardNext]_<<PublicStatus, PublicIncidents>>
<1>type. TypeOK /\ LockInv
  BY DEF BoardInv
<1>f. ASSUME UNCHANGED <<svc, inc>> PROVE UNCHANGED <<PublicStatus, PublicIncidents>>
  BY <1>f DEF PublicStatus, PublicIncidents
<1>svc. UNCHANGED svc
  BY DEF Operator, Operate, ListPaginated, Create, Resolve, Reopen, ConfirmPendingClose,
     DiscardCloseProposal
<1>status. PublicStatus' = PublicStatus
  BY <1>svc DEF PublicStatus
<1>1. ASSUME NEW i \in Incidents, NEW S \in SUBSET Services, Create(i, S)
      PROVE  Board!BoardNext
  <2>1. inc[i].state = "none" /\ S # {}
        /\ inc' = [inc EXCEPT ![i] = [state |-> "open", auto |-> FALSE, links |-> S, refined |-> FALSE,
                                      pending |-> Null, reopened |-> FALSE]]
    BY <1>1 DEF Create
  <2>2. PublicIncidents[i] = Board!Hidden
    BY <2>1 DEF PublicIncidents, Board!Hidden
  <2>3. PublicIncidents' = [PublicIncidents EXCEPT ![i] = Board!Opened(FALSE, S)]
    BY <1>type, <2>1 DEF PublicIncidents, Board!Opened, TypeOK
  <2>4. Board!Create(i, S)
    BY <1>status, <2>1, <2>2, <2>3 DEF Board!Create
  <2> QED BY <2>4 DEF Board!BoardNext
\* An update that closes an open incident.
<1>close. ASSUME NEW i \in Incidents, inc[i].state = "open", NEW refined, NEW pending,
                 Put(i, "resolved", refined, pending, inc[i].reopened)
          PROVE  Board!BoardNext
  <2>1. PublicIncidents[i].state = "open"
    BY <1>close DEF PublicIncidents
  <2>2. PublicIncidents' = [PublicIncidents EXCEPT ![i].state = "resolved"]
    BY <1>type, <1>close DEF PublicIncidents, Put, TypeOK
  <2>3. Board!Resolve(i)
    BY <1>status, <2>1, <2>2 DEF Board!Resolve
  <2> QED BY <2>3 DEF Board!BoardNext
<1>2. ASSUME NEW i \in Incidents, Resolve(i) PROVE Board!BoardNext
  BY <1>2, <1>close DEF Resolve
<1>3. ASSUME NEW i \in Incidents, Reopen(i) PROVE Board!BoardNext
  <2>1. PublicIncidents[i].state = "resolved"
    BY <1>3 DEF PublicIncidents, Reopen
  <2>2. PublicIncidents' = [PublicIncidents EXCEPT ![i].state = "open", ![i].reopened = TRUE]
    BY <1>type, <1>3 DEF PublicIncidents, Put, TypeOK, Reopen
  <2>3. Board!Reopen(i)
    BY <1>status, <2>1, <2>2 DEF Board!Reopen
  <2> QED BY <2>3 DEF Board!BoardNext
<1>4. ASSUME NEW i \in Incidents, ConfirmPendingClose(i)
      PROVE  [Board!BoardNext]_<<PublicStatus, PublicIncidents>>
  <2>1. Put(i, "resolved", inc[i].refined, Null, inc[i].reopened) /\ inc[i].pending # Null
    BY <1>4 DEF ConfirmPendingClose
  <2>2. inc[i].state \in {"open", "resolved"}
    BY <1>type, <2>1 DEF LockInv, PendingVisible
  <2>3. CASE inc[i].state = "open"
    BY <1>close, <2>1, <2>3
  <2>4. CASE inc[i].state = "resolved"
    BY <1>type, <1>svc, <2>1, <2>4, PutFrame
  <2> QED BY <2>2, <2>3, <2>4
<1>5. ASSUME NEW i \in Incidents, DiscardCloseProposal(i)
      PROVE  UNCHANGED <<PublicStatus, PublicIncidents>>
  BY <1>type, <1>svc, <1>5, PutFrame DEF DiscardCloseProposal
<1> QED BY <1>f, <1>1, <1>2, <1>3, <1>4, <1>5 DEF Operator, ListPaginated

\* What visitors and operators see of a tenant moves in the steps of a
\* TenantBoard: however cycles fail, overlap and are retried, a status and the
\* incident of its outage appear together, and neither without the other.
THEOREM BoardRefinement == Spec => ImplementsBoard
<1>1. Init => Board!BoardInit
  <2> SUFFICES ASSUME Init PROVE Board!BoardInit
    OBVIOUS
  <2>1. \A i \in Incidents : inc[i].state = "none"
    BY DEF Init, NoIncident
  <2>2. PublicIncidents = [i \in Incidents |-> Board!Hidden]
    BY <2>1 DEF PublicIncidents, Board!Hidden
  <2>3. PublicStatus = [s \in Services |-> "not_configured"]
    BY DEF Init, PublicStatus
  <2> QED BY <2>2, <2>3 DEF Board!BoardInit
<1>2. BoardInv /\ [Next]_vars => [Board!BoardNext]_<<PublicStatus, PublicIncidents>>
  <2> SUFFICES ASSUME BoardInv, [Next]_vars
               PROVE  [Board!BoardNext]_<<PublicStatus, PublicIncidents>>
    OBVIOUS
  <2>1. CASE UNCHANGED vars
    BY <2>1 DEF vars, PublicStatus, PublicIncidents
  <2>2. ASSUME NEW p \in Pollers, Commit(p) PROVE Board!BoardNext
    BY <2>2, CommitPublishes
  <2>3. ASSUME NEW p \in Pollers,
               \/ Start(p) \/ Stop(p) \/ Abort(p) \/ Cycle(p)
               \/ \E key \in cooling[p] : CooldownOver(p, key)
        PROVE  [Board!BoardNext]_<<PublicStatus, PublicIncidents>>
    BY <2>2, <2>3, PollerBoard
  <2> QED BY <2>1, <2>3, EnrichBoard, OperatorBoard DEF Next
<1>3. Spec => Board!BoardInit /\ [][Board!BoardNext]_<<PublicStatus, PublicIncidents>>
  BY <1>1, <1>2, BoardInvariant, PTL DEF Spec
<1> QED BY <1>3 DEF ImplementsBoard, Board!BoardSpec

-----------------------------------------------------------------------------
(* LLMProvider: the key the enrichments call the vendor with.               *)

CONSTANTS LLMAdmins, LLMAnalyses, LLMKeys, LLMNone, LLMModels, LLMDefault
VARIABLES llmProvider, llmSettings, llmAccepted, llmRequest, llmCall

LLM == INSTANCE LLMProvider WITH
         Admins <- LLMAdmins, Analyses <- LLMAnalyses, Keys <- LLMKeys, Null <- LLMNone,
         Models <- LLMModels, DefaultModel <- LLMDefault,
         provider <- llmProvider, settings <- llmSettings, accepted <- llmAccepted,
         request <- llmRequest, call <- llmCall

\* The sentinel is no row, and a request that names no model gets one of the
\* list.
LLMConstants == LLMNone \notin LLM!Provider /\ LLMDefault \in LLMModels

\* A call has marked the row.
MarkedRow(c) == llmCall[c].pc = "marked" /\ llmCall[c].mark # LLMNone

\* A marked row is there and, until the call ends, nobody else's; and a call
\* that goes on to commit has marked it connected.
MarkInv ==
  /\ \A c \in LLMAnalyses :
       /\ llmCall[c].pc = "answered" => llmCall[c].answer # "none"
       /\ MarkedRow(c) => /\ llmProvider # LLMNone
                          /\ llmCall[c].answer = "ok" => llmCall[c].mark = "connected"
  /\ \A c, d \in LLMAnalyses : MarkedRow(c) /\ MarkedRow(d) => c = d

\* The key that a request brings was validated.
RequestInv == \A a \in LLMAdmins : llmRequest[a].op = "connect" => llmRequest[a].key \in LLMKeys

\* An active provider is a stored one (the foreign key).
ActiveIsStored == llmSettings.active => llmProvider # LLMNone

\* What an operator sees of a stored key.
AlwaysConnected == llmProvider # LLMNone => llmProvider.status = "connected"

LLMInv == LLM!TypeOK /\ MarkInv /\ RequestInv /\ ActiveIsStored /\ AlwaysConnected

\* A step that leaves the row and the marks alone, as every one of a call
\* does that neither marks nor commits.
LEMMA LLMCallStep ==
  ASSUME LLMInv, NEW c \in LLMAnalyses, NEW r \in LLM!Call,
         r.pc # "marked", r.pc = "answered" => r.answer # "none",
         llmCall' = [llmCall EXCEPT ![c] = r],
         UNCHANGED <<llmProvider, llmSettings, llmAccepted, llmRequest>>
  PROVE  LLMInv'
<1>1. llmCall' \in [LLMAnalyses -> LLM!Call]
  BY DEF LLMInv, LLM!TypeOK
<1>2. \A d \in LLMAnalyses : MarkedRow(d)' => MarkedRow(d) /\ llmCall'[d] = llmCall[d]
  BY DEF LLMInv, LLM!TypeOK, MarkedRow
<1>3. \A d \in LLMAnalyses : llmCall'[d].pc = "answered" => llmCall'[d].answer # "none"
  BY DEF LLMInv, LLM!TypeOK, MarkInv
<1>4. MarkInv'
  BY <1>2, <1>3 DEF LLMInv, MarkInv
<1> QED BY <1>1, <1>4 DEF LLMInv, LLM!TypeOK, RequestInv, ActiveIsStored, AlwaysConnected

\* Every step keeps the invariant; the commit of a call leaves the row as it
\* is, for it only ever sets the status it had.
LEMMA LLMStep ==
  ASSUME LLMConstants, LLMInv, [LLM!Next]_(LLM!vars)
  PROVE  LLMInv'
<1>type. /\ llmProvider \in LLM!Provider \cup {LLMNone}
         /\ llmSettings \in [active : BOOLEAN, enrichment : BOOLEAN]
         /\ llmAccepted \subseteq LLMKeys
         /\ llmRequest \in [LLMAdmins -> LLM!Request]
         /\ llmCall \in [LLMAnalyses -> LLM!Call]
  BY DEF LLMInv, LLM!TypeOK
<1>none. LLM!NoRequest \in LLM!Request /\ LLM!NoRequest.op = "none" /\ LLM!NoCall \in LLM!Call
         /\ LLM!NoCall.pc = "idle"
  BY DEF LLMConstants, LLM!NoRequest, LLM!NoCall, LLM!Request, LLM!Call
<1>0. CASE UNCHANGED LLM!vars
  BY <1>0 DEF LLM!vars, LLMInv, LLM!TypeOK, MarkInv, MarkedRow, RequestInv, ActiveIsStored,
              AlwaysConnected
\* A row that is free has no mark upon it, nor has one that is not there.
<1>free. ASSUME llmProvider # LLMNone => LLM!RowFree, NEW c \in LLMAnalyses
         PROVE  ~MarkedRow(c)
  BY <1>free DEF LLM!RowFree, LLMInv, MarkInv, MarkedRow
\* The requests, after one of them began or ended.
<1>end. ASSUME NEW a \in LLMAdmins, LLM!End(a)
        PROVE  llmRequest' \in [LLMAdmins -> LLM!Request] /\ RequestInv'
  BY <1>type, <1>none, <1>end DEF LLM!End, LLMInv, RequestInv
<1>begin. ASSUME NEW a \in LLMAdmins, NEW r \in LLM!Request, LLM!Begin(a, r),
                 r.op = "connect" => r.key \in LLMKeys
          PROVE  llmRequest' \in [LLMAdmins -> LLM!Request] /\ RequestInv'
  BY <1>type, <1>begin DEF LLM!Begin, LLMInv, RequestInv
\* Nothing but the requests, the settings and the vendor's keys changes.
<1>frame. ASSUME UNCHANGED <<llmProvider, llmCall>>, llmAccepted' \subseteq LLMKeys,
                 llmRequest' \in [LLMAdmins -> LLM!Request], RequestInv',
                 llmSettings' \in [active : BOOLEAN, enrichment : BOOLEAN],
                 llmSettings'.active => llmProvider # LLMNone
          PROVE  LLMInv'
  BY <1>type, <1>frame
  DEF LLMInv, LLM!TypeOK, MarkInv, MarkedRow, ActiveIsStored, AlwaysConnected
\* The row is written while nobody has a mark upon it.
<1>row. ASSUME UNCHANGED <<llmAccepted, llmCall>>, \A c \in LLMAnalyses : ~MarkedRow(c),
               llmRequest' \in [LLMAdmins -> LLM!Request], RequestInv',
               llmProvider' \in LLM!Provider \cup {LLMNone}, AlwaysConnected',
               llmSettings' \in [active : BOOLEAN, enrichment : BOOLEAN], ActiveIsStored'
        PROVE  LLMInv'
  BY <1>type, <1>row DEF LLMInv, LLM!TypeOK, MarkInv, MarkedRow
<1>1. ASSUME NEW a \in LLMAdmins, LLM!Connect(a) PROVE LLMInv'
  <2>1. PICK k \in llmAccepted, m \in LLMModels :
          LLM!Begin(a, [op |-> "connect", key |-> k, model |-> m])
    BY <1>1 DEF LLM!Connect
  <2> DEFINE r == [op |-> "connect", key |-> k, model |-> m]
  <2>2. r \in LLM!Request /\ r.key \in LLMKeys
    BY <1>type DEF LLM!Request
  <2>3. llmRequest' \in [LLMAdmins -> LLM!Request] /\ RequestInv'
    <3> HIDE DEF r
    <3> QED BY <1>begin, <2>1, <2>2 DEF r
  <2> QED BY <1>type, <1>frame, <1>1, <2>3 DEF LLM!Connect, LLMInv, ActiveIsStored
<1>2. ASSUME NEW a \in LLMAdmins, LLM!UpsertProvider(a) PROVE LLMInv'
  <2>1. /\ llmRequest[a] \in LLM!Request /\ llmRequest[a].key \in LLMKeys
        /\ llmProvider' = [key |-> llmRequest[a].key, model |-> llmRequest[a].model,
                           status |-> "connected"]
    BY <1>type, <1>2 DEF LLM!UpsertProvider, LLMInv, RequestInv
  <2>2. llmProvider' \in LLM!Provider /\ llmProvider'.status = "connected"
    BY <2>1 DEF LLM!Provider, LLM!Request
  <2>3. llmProvider' # LLMNone
    BY <2>2 DEF LLMConstants
  <2>4. \A c \in LLMAnalyses : ~MarkedRow(c)
    BY <1>2, <1>free DEF LLM!UpsertProvider
  <2>5. llmRequest' \in [LLMAdmins -> LLM!Request] /\ RequestInv'
    BY <1>2, <1>end DEF LLM!UpsertProvider
  <2>6. AlwaysConnected' /\ ActiveIsStored'
    BY <2>2, <2>3 DEF AlwaysConnected, ActiveIsStored
  <2> QED BY <1>type, <1>row, <1>2, <2>2, <2>4, <2>5, <2>6 DEF LLM!UpsertProvider
<1>3. ASSUME NEW a \in LLMAdmins, LLM!SetModel(a) PROVE LLMInv'
  <2>1. PICK m \in LLMModels : LLM!Begin(a, [op |-> "model", key |-> LLMNone, model |-> m])
    BY <1>3 DEF LLM!SetModel
  <2> DEFINE r == [op |-> "model", key |-> LLMNone, model |-> m]
  <2>2. r \in LLM!Request /\ r.op # "connect"
    BY DEF LLM!Request
  <2>3. llmRequest' \in [LLMAdmins -> LLM!Request] /\ RequestInv'
    <3> HIDE DEF r
    <3> QED BY <1>begin, <2>1, <2>2 DEF r
  <2> QED BY <1>type, <1>frame, <1>3, <2>3 DEF LLM!SetModel, LLMInv, ActiveIsStored
<1>4. ASSUME NEW a \in LLMAdmins, LLM!UpdateModel(a) PROVE LLMInv'
  <2>1. llmRequest[a].model \in LLMModels
    BY <1>type DEF LLM!Request
  <2>2. /\ llmProvider = LLMNone => llmProvider' = LLMNone
        /\ llmProvider # LLMNone =>
             /\ llmProvider' \in LLM!Provider /\ llmProvider'.status = llmProvider.status
    BY <1>type, <1>4, <2>1 DEF LLM!UpdateModel, LLM!Provider
  <2>3. llmProvider' = LLMNone <=> llmProvider = LLMNone
    BY <2>2 DEF LLMConstants
  <2>4. \A c \in LLMAnalyses : ~MarkedRow(c)
    BY <1>4, <1>free DEF LLM!UpdateModel
  <2>5. llmRequest' \in [LLMAdmins -> LLM!Request] /\ RequestInv'
    BY <1>4, <1>end DEF LLM!UpdateModel
  <2>6. AlwaysConnected' /\ ActiveIsStored' /\ llmSettings' = llmSettings
    BY <1>4, <2>2, <2>3 DEF LLM!UpdateModel, LLMInv, AlwaysConnected, ActiveIsStored
  <2> QED BY <1>type, <1>row, <1>4, <2>2, <2>4, <2>5, <2>6 DEF LLM!UpdateModel
<1>5. ASSUME NEW a \in LLMAdmins, LLM!Activate(a) PROVE LLMInv'
  <2> DEFINE r == [LLM!NoRequest EXCEPT !.op = "activate"]
  <2>1. r \in LLM!Request /\ r.op # "connect"
    BY <1>none DEF LLM!Request, LLM!NoRequest
  <2>2. LLM!Begin(a, r)
    BY <1>5 DEF LLM!Activate
  <2>3. llmRequest' \in [LLMAdmins -> LLM!Request] /\ RequestInv'
    <3> HIDE DEF r
    <3> QED BY <1>begin, <2>1, <2>2
  <2> QED BY <1>type, <1>frame, <1>5, <2>3 DEF LLM!Activate, LLMInv, ActiveIsStored
<1>6. ASSUME NEW a \in LLMAdmins, LLM!SetActiveProvider(a) PROVE LLMInv'
  <2>1. llmRequest' \in [LLMAdmins -> LLM!Request] /\ RequestInv'
    BY <1>6, <1>end DEF LLM!SetActiveProvider
  <2>2. /\ llmSettings' \in [active : BOOLEAN, enrichment : BOOLEAN]
        /\ llmSettings'.active => llmProvider # LLMNone
    BY <1>type, <1>6 DEF LLM!SetActiveProvider, LLMInv, ActiveIsStored
  <2> QED BY <1>type, <1>frame, <1>6, <2>1, <2>2 DEF LLM!SetActiveProvider
<1>7. ASSUME NEW a \in LLMAdmins, LLM!Fail(a) PROVE LLMInv'
  BY <1>type, <1>frame, <1>end, <1>7 DEF LLM!Fail, LLMInv, ActiveIsStored
<1>8. CASE LLM!Disconnect
  <2>1. llmProvider' = LLMNone /\ llmSettings' \in [active : BOOLEAN, enrichment : BOOLEAN]
        /\ ~llmSettings'.active
    BY <1>type, <1>8 DEF LLM!Disconnect, LLM!DeleteProvider
  <2>2. \A c \in LLMAnalyses : ~MarkedRow(c)
    BY <1>8, <1>free DEF LLM!Disconnect
  <2>3. llmRequest' \in [LLMAdmins -> LLM!Request] /\ RequestInv'
    BY <1>type, <1>8 DEF LLM!Disconnect, LLMInv, RequestInv
  <2>4. AlwaysConnected' /\ ActiveIsStored'
    BY <2>1 DEF AlwaysConnected, ActiveIsStored
  <2> QED BY <1>row, <1>8, <2>1, <2>2, <2>3, <2>4 DEF LLM!Disconnect
<1>9. CASE LLM!UpdateSettings
  <2>1. /\ llmSettings' \in [active : BOOLEAN, enrichment : BOOLEAN]
        /\ llmSettings'.active = llmSettings.active
    BY <1>type, <1>9 DEF LLM!UpdateSettings, LLM!SetRootCauseEnrichmentEnabled
  <2>2. llmRequest' \in [LLMAdmins -> LLM!Request] /\ RequestInv'
    BY <1>type, <1>9 DEF LLM!UpdateSettings, LLMInv, RequestInv
  <2> QED BY <1>type, <1>frame, <1>9, <2>1, <2>2 DEF LLM!UpdateSettings, LLMInv, ActiveIsStored
<1>10. ASSUME NEW k \in LLMKeys, LLM!Revoke(k) PROVE LLMInv'
  <2>1. llmRequest' \in [LLMAdmins -> LLM!Request] /\ RequestInv' /\ llmAccepted' \subseteq LLMKeys
    BY <1>type, <1>10 DEF LLM!Revoke, LLMInv, RequestInv
  <2> QED BY <1>type, <1>frame, <1>10, <2>1 DEF LLM!Revoke, LLMInv, ActiveIsStored
<1>11. ASSUME NEW c \in LLMAnalyses,
              LLM!Generate(c) \/ LLM!GetActiveProvider(c) \/ LLM!Get(c) \/ LLM!GenerateFailed(c)
                \/ LLM!Abandon(c) \/ \E answer \in {"ok", "unauthorized", "transient"} :
                                        LLM!Complete(c, answer)
       PROVE  LLMInv'
  <2>1. \E r \in LLM!Call : /\ r.pc # "marked" /\ (r.pc = "answered" => r.answer # "none")
                           /\ llmCall' = [llmCall EXCEPT ![c] = r]
    <3>1. llmCall[c] \in LLM!Call
      BY <1>type
    <3>2. CASE LLM!Generate(c)
      <4>1. [llmCall[c] EXCEPT !.pc = "begun"] \in LLM!Call
        BY <3>1 DEF LLM!Call
      <4> QED BY <3>1, <3>2, <4>1 DEF LLM!Generate, LLM!Call
    <3>3. CASE LLM!GetActiveProvider(c)
      <4> DEFINE r == [llmCall[c] EXCEPT !.pc = IF llmSettings.active THEN "active" ELSE "idle"]
      <4>1. r \in LLM!Call /\ r.pc \in {"active", "idle"}
        BY <3>1 DEF LLM!Call
      <4> QED BY <3>3, <4>1 DEF LLM!GetActiveProvider
    <3>4. CASE LLM!Get(c)
      <4>1. CASE llmProvider = LLMNone
        BY <1>none, <3>4, <4>1 DEF LLM!Get
      <4>2. CASE llmProvider # LLMNone
        <5> DEFINE r == [llmCall[c] EXCEPT !.pc = "sent", !.key = llmProvider.key]
        <5>1. llmProvider.key \in LLMKeys
          BY <1>type, <4>2 DEF LLM!Provider
        <5>2. r \in LLM!Call /\ r.pc = "sent"
          BY <3>1, <5>1 DEF LLM!Call
        <5>3. llmCall' = [llmCall EXCEPT ![c] = r]
          BY <3>4, <4>2 DEF LLM!Get
        <5> QED BY <5>2, <5>3
      <4> QED BY <4>1, <4>2
    <3>5. CASE LLM!GenerateFailed(c) \/ LLM!Abandon(c)
      BY <1>none, <3>5 DEF LLM!GenerateFailed, LLM!Abandon
    <3>6. ASSUME NEW answer \in {"ok", "unauthorized", "transient"}, LLM!Complete(c, answer)
          PROVE  \E r \in LLM!Call : /\ r.pc # "marked" /\ (r.pc = "answered" => r.answer # "none")
                           /\ llmCall' = [llmCall EXCEPT ![c] = r]
      <4> DEFINE r == [llmCall[c] EXCEPT !.pc = "answered", !.answer = answer, !.key = LLMNone]
      <4>1. r \in LLM!Call /\ r.pc = "answered" /\ r.answer # "none"
        BY <3>1 DEF LLM!Call
      <4>2. llmCall' = [llmCall EXCEPT ![c] = r]
        BY <1>type, <3>6 DEF LLM!Complete, LLM!Call
      <4> QED BY <4>1, <4>2
    <3> QED BY <1>11, <3>2, <3>3, <3>4, <3>5, <3>6
  <2>2. UNCHANGED <<llmProvider, llmSettings, llmAccepted, llmRequest>>
    BY <1>11
    DEF LLM!Generate, LLM!GetActiveProvider, LLM!Get, LLM!GenerateFailed, LLM!Abandon, LLM!Complete
  <2> QED BY <2>1, <2>2, LLMCallStep
<1>12. ASSUME NEW c \in LLMAnalyses, LLM!Mark(c) PROVE LLMInv'
  <2> DEFINE m == IF llmProvider = LLMNone THEN LLMNone ELSE LLM!Marked(llmCall[c].answer)
             r == [llmCall[c] EXCEPT !.pc = "marked", !.mark = m]
  <2>1. llmCall[c] \in LLM!Call /\ llmCall' = [llmCall EXCEPT ![c] = r]
    BY <1>type, <1>12 DEF LLM!Mark, LLM!Call
  <2>2. UNCHANGED <<llmProvider, llmSettings, llmAccepted, llmRequest>>
    BY <1>12 DEF LLM!Mark
  <2>3. \A d \in LLMAnalyses : ~MarkedRow(d)
    BY <1>12, <1>free DEF LLM!Mark
  <2>4. llmCall[c].answer \in {"ok", "unauthorized", "transient"}
    BY <1>12, <2>1 DEF LLM!Mark, LLMInv, MarkInv, LLM!Call
  <2>5. llmProvider # LLMNone => /\ m \in {"connected", "invalid"}
                                 /\ llmCall[c].answer = "ok" => m = "connected"
    BY <1>type, <2>4 DEF LLM!Marked, LLM!Provider
  <2>6. r \in LLM!Call /\ r.pc = "marked" /\ r.mark = m /\ r.answer = llmCall[c].answer
    <3>1. m \in {"connected", "invalid", LLMNone}
      BY <2>5
    <3> HIDE DEF m
    <3> QED BY <2>1, <3>1 DEF LLM!Call
  <2>7. m # LLMNone => llmProvider # LLMNone
    OBVIOUS
  <2> HIDE DEF m, r
  <2>8. llmCall' \in [LLMAnalyses -> LLM!Call]
    BY <1>type, <2>1, <2>6
  <2>9. \A d \in LLMAnalyses : IF d = c THEN llmCall'[d] = r ELSE llmCall'[d] = llmCall[d]
    BY <1>type, <2>1
  <2>10. \A d \in LLMAnalyses : MarkedRow(d)' => d = c
    BY <2>3, <2>9 DEF MarkedRow
  <2>11. MarkInv'
    BY <2>2, <2>5, <2>6, <2>7, <2>9, <2>10 DEF LLMInv, MarkInv, MarkedRow
  <2> QED BY <1>type, <2>2, <2>8, <2>11 DEF LLMInv, LLM!TypeOK, RequestInv, ActiveIsStored, AlwaysConnected
<1>13. ASSUME NEW c \in LLMAnalyses, LLM!Commit(c) PROVE LLMInv'
  <2>1. llmProvider' = llmProvider
    <3>1. CASE llmCall[c].mark = LLMNone
      BY <1>13, <3>1 DEF LLM!Commit
    <3>2. CASE llmCall[c].mark # LLMNone
      <4>1. llmProvider # LLMNone /\ llmCall[c].mark = "connected"
        BY <1>13, <3>2 DEF LLM!Commit, LLMInv, MarkInv, MarkedRow
      <4>2. llmProvider \in LLM!Provider /\ llmProvider.status = "connected"
        BY <1>type, <4>1 DEF LLMInv, AlwaysConnected
      <4>3. llmProvider' = [llmProvider EXCEPT !.status = "connected"]
        BY <1>13, <3>2, <4>1 DEF LLM!Commit
      <4> QED BY <4>2, <4>3 DEF LLM!Provider
    <3> QED BY <3>1, <3>2
  <2>2. /\ llmCall' = [llmCall EXCEPT ![c] = LLM!NoCall]
        /\ UNCHANGED <<llmSettings, llmAccepted, llmRequest>>
    BY <1>13 DEF LLM!Commit
  <2> QED BY <1>none, <2>1, <2>2, LLMCallStep
<1> QED
  BY <1>0, <1>1, <1>2, <1>3, <1>4, <1>5, <1>6, <1>7, <1>8, <1>9, <1>10, <1>11, <1>12, <1>13
  DEF LLM!Next, LLM!AdminStep, LLM!generate

\* The invariant holds while no provider is connected yet.
LEMMA LLMAlways == LLMConstants => (LLM!Spec => []LLMInv)
<1> SUFFICES ASSUME LLMConstants PROVE LLM!Spec => []LLMInv
  OBVIOUS
<1>1. LLM!Init => LLMInv
  <2> SUFFICES ASSUME LLM!Init PROVE LLMInv
    OBVIOUS
  <2>1. LLM!NoRequest \in LLM!Request /\ LLM!NoRequest.op = "none" /\ LLM!NoCall \in LLM!Call
        /\ LLM!NoCall.pc = "idle"
    BY DEF LLMConstants, LLM!NoRequest, LLM!NoCall, LLM!Request, LLM!Call
  <2>2. LLM!TypeOK
    BY <2>1 DEF LLM!Init, LLM!TypeOK
  <2>3. MarkInv /\ RequestInv
    BY <2>1 DEF LLM!Init, MarkInv, MarkedRow, RequestInv
  <2> QED BY <2>2, <2>3 DEF LLM!Init, LLMInv, ActiveIsStored, AlwaysConnected
<1>2. LLMInv /\ [LLM!Next]_(LLM!vars) => LLMInv'
  BY LLMStep
<1> QED BY <1>1, <1>2, PTL DEF LLM!Spec

\* The rows, the requests and the calls keep their types.
THEOREM LLMTypes == LLMConstants => (LLM!Spec => []LLM!TypeOK)
<1>1. LLMInv => LLM!TypeOK
  BY DEF LLMInv
<1> QED BY <1>1, LLMAlways, PTL

\* Whatever the races of activations and disconnections, the active provider
\* is one that is stored.
THEOREM ActiveProviderStored == LLMConstants => (LLM!Spec => []ActiveIsStored)
<1>1. LLMInv => ActiveIsStored
  BY DEF LLMInv
<1> QED BY <1>1, LLMAlways, PTL

\* No number of refused calls ever shows an operator the invalid status that
\* MarkInvalid writes: what a failing call marks is never what is committed,
\* so that what RevokedKeyShows asks for happens in no behaviour at all.
THEOREM NeverShownInvalid ==
  LLMConstants => (LLM!Spec => []~(llmProvider # LLMNone /\ llmProvider.status = "invalid"))
<1>1. LLMInv => ~(llmProvider # LLMNone /\ llmProvider.status = "invalid")
  BY DEF LLMInv, AlwaysConnected
<1> QED BY <1>1, LLMAlways, PTL
=============================================================================
