---------------------------- MODULE RateLimiter ----------------------------
(***************************************************************************)
(* The request limiter of the credential routes for one client address:    *)
(* a token bucket in PostgreSQL that every replica shares, one in each     *)
(* replica's memory for when PostgreSQL fails, and the breaker that        *)
(* chooses between them.                                                   *)
(*                                                                         *)
(* Every instant is kept as its age, so that time need not end.            *)
(***************************************************************************)
EXTENDS Integers, FiniteSets

CONSTANTS Servers,         \* the replicas that answer requests
          Calls, Nothing,
          Burst, Rate,     \* of the bucket: tokens, tokens a unit of time
          LockTimeout, Cooldown, IdleTTL,
          SweepThreshold,
          MaxAge,          \* bound on how long a call takes
          MaxFaults        \* bound on the failures of PostgreSQL

ASSUME LimiterAssumption ==
  /\ {Burst, Rate, LockTimeout, Cooldown, IdleTTL, SweepThreshold, MaxAge, MaxFaults} \subseteq Nat
  /\ Burst > 0 /\ Rate > 0 /\ LockTimeout <= MaxAge
  /\ Rate * (IdleTTL - MaxAge) >= Burst
  /\ Nothing \notin Calls \cup Servers \cup Nat \cup [tokens : Nat, age : Nat]
  /\ "pg" \notin Servers

\* From this age on an instant is as good as any older one.
Oldest == IdleTTL + MaxAge + 1

VARIABLES row,      \* the bucket in rate_limit_buckets
          rowLock,  \* the call whose transaction holds or has inserted it
          mem,      \* the bucket in each replica's memory
          breaker,  \* per replica: until (Nothing when closed, 0 when half open), probing
          count,    \* callCount
          call,     \* the requests being decided
          faults,
          spare,    \* what a reference bucket has left, by store
          upset     \* a call other than the probe has ended while it was out

limiterVars == <<row, rowLock, mem, breaker, count, call, faults, spare, upset>>

Stores == {"pg"} \cup Servers
Bucket == [tokens : 0..Burst, age : 0..Oldest] \cup {Nothing}
Phases == {"idle", "sweep", "begin", "seed", "select", "update", "ok", "failed", "fallback"}
\* age: of allow's clock; at: of the store's clock; mine: it inserted the row;
\* got: the row it read.
Call == [pc : Phases, on : Servers \cup {Nothing}, primary : BOOLEAN, probe : BOOLEAN,
         age : 0..MaxAge, at : 0..MaxAge, mine : BOOLEAN, got : Bucket]

InTransaction == {"seed", "select", "update"}

NoCall == [pc |-> "idle", on |-> Nothing, primary |-> FALSE, probe |-> FALSE,
           age |-> 0, at |-> 0, mine |-> FALSE, got |-> Nothing]

\* The reference buckets: the shared one may be as late as a call takes.
Capacity(s) == IF s = "pg" THEN Burst + Rate * MaxAge ELSE Burst

LimiterTypeOK ==
  /\ row \in Bucket /\ rowLock \in Calls \cup {Nothing} /\ mem \in [Servers -> Bucket]
  /\ breaker \in [Servers -> [until : 0..Cooldown \cup {Nothing}, probing : BOOLEAN]]
  /\ count \in [Servers -> 0..SweepThreshold]
  /\ call \in [Calls -> Call] /\ faults \in 0..MaxFaults
  /\ DOMAIN spare = Stores /\ \A s \in Stores : spare[s] <= Capacity(s)
  /\ upset \in [Servers -> BOOLEAN]

LimiterInit ==
  /\ row = Nothing /\ rowLock = Nothing /\ mem = [r \in Servers |-> Nothing]
  /\ breaker = [r \in Servers |-> [until |-> Nothing, probing |-> FALSE]]
  /\ count = [r \in Servers |-> 0] /\ call = [c \in Calls |-> NoCall] /\ faults = 0
  /\ spare = [s \in Stores |-> Capacity(s)] /\ upset = [r \in Servers |-> FALSE]

-----------------------------------------------------------------------------
Fault == faults < MaxFaults /\ faults' = faults + 1
AtMost(n, m) == IF n < m THEN n ELSE m
AtLeast(n, m) == IF n > m THEN n ELSE m

\* What is in the bucket at the instant of this age.  A bucket that is not
\* there yet is full; one last written later than that is not refilled.
Refilled(b, at) ==
  IF b = Nothing THEN Burst ELSE AtMost(Burst, b.tokens + Rate * AtLeast(0, b.age - at))

Allowed(b, at) == Refilled(b, at) >= 1
Taken(b, at) == [tokens |-> AtLeast(0, Refilled(b, at) - 1), age |-> at]

\* A reference bucket loses a token, and is credited the time by which the
\* write has moved last_refill back: that time is refilled once more.
Spend(s, b, at) ==
  LET back == IF b = Nothing THEN 0 ELSE AtLeast(0, at - b.age)
      spent == IF Allowed(b, at) THEN 1 ELSE 0 IN
  spare' = [spare EXCEPT ![s] = AtMost(Capacity(s), @ - spent + Rate * back)]

\* idle longer than idleTTL
Swept(b) == IF b = Nothing THEN b ELSE IF b.age > IdleTTL THEN Nothing ELSE b

-----------------------------------------------------------------------------
InFlight(r) == {c \in Calls : call[c].on = r /\ call[c].primary}
Probes(r) == {c \in InFlight(r) : call[c].probe}

Move(c, pc) == call' = [call EXCEPT ![c].pc = pc]

\* A unit of time: a call that waits for a lock is timed out by then.
Elapse ==
  LET older(b) == IF b = Nothing THEN b ELSE [b EXCEPT !.age = AtMost(Oldest, @ + 1)] IN
  /\ \A c \in Calls : call[c].pc # "idle" => call[c].age < MaxAge
  /\ \A c \in Calls : call[c].pc \in {"seed", "select"} => call[c].at < LockTimeout
  /\ row' = older(row) /\ mem' = [r \in Servers |-> older(mem[r])]
  /\ breaker' = [r \in Servers |-> [breaker[r] EXCEPT
                   !.until = IF @ = Nothing THEN Nothing ELSE AtLeast(0, @ - 1)]]
  /\ call' = [c \in Calls |->
       IF call[c].pc = "idle" THEN call[c]
       ELSE [call[c] EXCEPT !.age = @ + 1, !.got = older(@),
                            !.at = IF call[c].pc \in InTransaction THEN @ + 1 ELSE 0]]
  /\ spare' = [s \in Stores |-> AtMost(Capacity(s), spare[s] + Rate)]
  /\ UNCHANGED <<rowLock, count, faults, upset>>

\* Mutant: probing is not looked at.
pickPrimaryAny(b) == b.until \in {Nothing, 0}

\* Closed, or half open with nobody probing.
pickPrimary(b) == b.until \in {Nothing, 0} /\ ~b.probing

\* Middleware and allow, up to the choice of the store.
pickStore(c, r) ==
  LET sweep == count[r] + 1 > SweepThreshold
      primary == pickPrimary(breaker[r])
      probe == primary /\ breaker[r].until # Nothing IN
  /\ call[c].pc = "idle"
  /\ count' = [count EXCEPT ![r] = IF sweep THEN 0 ELSE @ + 1]
  /\ breaker' = [breaker EXCEPT ![r].probing = @ \/ probe]
  /\ upset' = [upset EXCEPT ![r] = @ /\ Probes(r) # {}]
  /\ call' = [call EXCEPT ![c] = [NoCall EXCEPT !.on = r, !.primary = primary, !.probe = probe,
                !.pc = IF sweep THEN "sweep" ELSE IF primary THEN "begin" ELSE "fallback"]]
  /\ UNCHANGED <<row, rowLock, mem, faults, spare>>

\* cleanup of the store that was picked; the DELETE waits for a locked row,
\* and its failure is logged.
cleanup(c) ==
  LET k == call[c] IN
  /\ k.pc = "sweep"
  /\ IF k.primary
     THEN /\ row # Nothing => rowLock = Nothing
          /\ \/ row' = Swept(row) /\ UNCHANGED faults
             \/ Fault /\ UNCHANGED row
          /\ UNCHANGED mem
     ELSE mem' = [mem EXCEPT ![k.on] = Swept(@)] /\ UNCHANGED <<row, faults>>
  /\ Move(c, IF k.primary THEN "begin" ELSE "fallback")
  /\ UNCHANGED <<rowLock, breaker, count, spare, upset>>

\* The transaction begins and reads its clock.
begin(c) ==
  /\ call[c].pc = "begin" /\ Move(c, "seed")
  /\ UNCHANGED <<row, rowLock, mem, breaker, count, faults, spare, upset>>

\* INSERT ... ON CONFLICT DO NOTHING waits for an insert that is not committed.
seed(c) ==
  /\ call[c].pc = "seed"
  /\ IF row # Nothing THEN Move(c, "select") /\ UNCHANGED rowLock
     ELSE /\ rowLock = Nothing /\ rowLock' = c
          /\ call' = [call EXCEPT ![c].pc = "select", ![c].mine = TRUE]
  /\ UNCHANGED <<row, mem, breaker, count, faults, spare, upset>>

\* Mutant: without FOR UPDATE.
selectUnlocked(c) ==
  /\ call[c].pc = "select"
  /\ IF row = Nothing /\ ~call[c].mine THEN Move(c, "failed")
     ELSE call' = [call EXCEPT ![c].pc = "update", ![c].got = row]
  /\ UNCHANGED <<row, rowLock, mem, breaker, count, faults, spare, upset>>

\* SELECT ... FOR UPDATE: no row when a sweep came in between.
selectForUpdate(c) ==
  /\ call[c].pc = "select" /\ rowLock \in {Nothing, c}
  /\ IF row = Nothing /\ ~call[c].mine THEN Move(c, "failed") /\ UNCHANGED rowLock
     ELSE call' = [call EXCEPT ![c].pc = "update", ![c].got = row] /\ rowLock' = c
  /\ UNCHANGED <<row, mem, breaker, count, faults, spare, upset>>

\* UPDATE and COMMIT, which end the row's lock; the answer may be lost.
update(c) ==
  LET k == call[c] IN
  /\ k.pc = "update"
  /\ row' = Taken(k.got, k.at) /\ Spend("pg", k.got, k.at)
  /\ rowLock' = IF rowLock = c THEN Nothing ELSE rowLock
  /\ \E pc \in {"ok", "failed"} :
       /\ call' = [call EXCEPT ![c].pc = pc, ![c].at = 0, ![c].got = Nothing, ![c].mine = FALSE]
       /\ IF pc = "ok" THEN UNCHANGED faults ELSE Fault
  /\ UNCHANGED <<mem, breaker, count, upset>>

\* lock_timeout, or the statement or the connection fails, or the client is
\* gone and its context cancelled: rolled back.
primaryFails(c) ==
  /\ \/ call[c].pc \in {"seed", "select"} /\ call[c].at >= LockTimeout /\ rowLock \notin {Nothing, c} /\ UNCHANGED faults
     \/ call[c].pc \in {"begin", "seed", "select", "update"} /\ Fault
  /\ rowLock' = IF rowLock = c THEN Nothing ELSE rowLock
  /\ call' = [call EXCEPT ![c].pc = "failed", ![c].at = 0, ![c].got = Nothing, ![c].mine = FALSE]
  /\ UNCHANGED <<row, mem, breaker, count, spare, upset>>

\* A call that is not the probe ends while the probe is out.
Disturbed(c) ==
  upset' = [upset EXCEPT ![call[c].on] = @ \/ (~call[c].probe /\ Probes(call[c].on) # {})]

onPrimarySuccess(c) ==
  /\ call[c].pc = "ok"
  /\ breaker' = [breaker EXCEPT ![call[c].on] = [until |-> Nothing, probing |-> FALSE]]
  /\ Disturbed(c)
  /\ call' = [call EXCEPT ![c] = NoCall]
  /\ UNCHANGED <<row, rowLock, mem, count, faults, spare>>

\* Mutant: the probe that failed stays the probe.
onPrimaryErrorProbing(c) ==
  /\ call[c].pc = "failed"
  /\ breaker' = [breaker EXCEPT ![call[c].on].until = AtLeast(0, Cooldown - call[c].age)]
  /\ Disturbed(c)
  /\ call' = [call EXCEPT ![c].pc = "fallback", ![c].primary = FALSE]
  /\ UNCHANGED <<row, rowLock, mem, count, faults, spare>>

\* The cooldown counts from the instant the call came in.
onPrimaryError(c) ==
  /\ call[c].pc = "failed"
  /\ breaker' = [breaker EXCEPT ![call[c].on] =
                   [until |-> AtLeast(0, Cooldown - call[c].age), probing |-> FALSE]]
  /\ Disturbed(c)
  /\ call' = [call EXCEPT ![c].pc = "fallback", ![c].primary = FALSE]
  /\ UNCHANGED <<row, rowLock, mem, count, faults, spare>>

\* memoryBucketStore.allow, under its mutex
fallbackAllow(c) ==
  LET r == call[c].on IN
  /\ call[c].pc = "fallback"
  /\ mem' = [mem EXCEPT ![r] = Taken(@, 0)] /\ Spend(r, mem[r], 0)
  /\ call' = [call EXCEPT ![c] = NoCall]
  /\ UNCHANGED <<row, rowLock, breaker, count, faults, upset>>

Step(c) ==
  \/ cleanup(c) \/ begin(c) \/ seed(c) \/ selectForUpdate(c) \/ update(c) \/ primaryFails(c)
  \/ onPrimarySuccess(c) \/ onPrimaryError(c) \/ fallbackAllow(c)

LimiterNext ==
  \/ Elapse
  \/ \E c \in Calls : Step(c) \/ \E r \in Servers : pickStore(c, r)

LimiterSpec == LimiterInit /\ [][LimiterNext]_limiterVars

-----------------------------------------------------------------------------
\* HA-09, AD-029: over calls of several replicas, waits for the row's lock,
\* failures, sweeps and the change to the fallback and back, no store lets
\* through a request that a bucket of the same rate, as late as a call may
\* be, would not: the only excess is the time by which a call that waited
\* for the lock moves last_refill back.
WithinLimit == \A s \in Stores : spare[s] >= 0

\* "The single half-open probe": no two are out at once, unless a call that
\* had started before the breaker opened has ended while the first was out.
ProbeAlone == \A r \in Servers : ~upset[r] => Cardinality(Probes(r)) <= 1

\* The breaker never keeps everybody on the fallback for an answer that will
\* not come: while it says that somebody probes, somebody does, whatever
\* other calls end in the meantime.
ProbeHeld == \A r \in Servers : breaker[r].probing => Probes(r) # {}
=============================================================================
