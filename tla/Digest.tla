------------------------------- MODULE Digest -------------------------------
(***************************************************************************)
(* The weekly digest of one tenant.  Every replica wakes up once an hour,  *)
(* tries the digest's advisory lock, and the one that gets it reads the    *)
(* tenant, decides whether its digest is due, commits the marker and then  *)
(* sends the mails.                                                        *)
(*                                                                         *)
(* Time is counted in ticks.  A zone is the tick of the week, in UTC, at   *)
(* which it is Monday 09:00 there; daylight saving is left out.            *)
(***************************************************************************)
EXTENDS Mail

CONSTANTS Replicas,
          Zones, Week,
          CatchUp,     \* digestCatchUpWindow
          MinInterval, \* digestMinInterval
          Horizon,     \* the last tick
          MaxMoves,    \* bound on the changes of the tenant's zone
          MaxFaults,   \* bound on the failed passes, missed ticks and crashes
          MaxLosses    \* bound on the losses of the lock's connection

ASSUME DigestAssumption ==
  /\ {Week, CatchUp, MinInterval, Horizon, MaxMoves, MaxFaults, MaxLosses} \subseteq Nat
  /\ Week > 0 /\ MinInterval + CatchUp <= Week
  /\ Zones \subseteq 0..Week - 1
  /\ Null \notin Replicas \cup Nat

VARIABLES now, zone,
          sent,    \* last_digest_sent_at
          lock,    \* who holds the digest leader lock
          pass,    \* what each replica is doing
          woken,   \* replicas that have had this tick
          mailed,  \* the sentAt of the last digest each user got
          moves, faults, losses

digestVars == <<now, zone, sent, lock, pass, woken, mailed, moves, faults, losses>>

NoPass == [pc |-> "idle", at |-> 0, to |-> {}]

DigestTypeOK ==
  /\ now \in 0..Horizon /\ zone \in Zones
  /\ sent \in 0..Horizon \cup {Null}
  /\ lock \in Replicas \cup {Null}
  /\ pass \in [Replicas -> [pc : {"idle", "list", "tenant", "send"}, at : 0..Horizon, to : SUBSET Users]]
  /\ woken \subseteq Replicas
  /\ mailed \in [Users -> 0..Horizon \cup {Null}]
  /\ moves \in 0..MaxMoves /\ faults \in 0..MaxFaults /\ losses \in 0..MaxLosses

\* The tenant is created at tick 0.
DigestInit ==
  /\ now = 0 /\ zone \in Zones /\ sent = Null
  /\ lock = Null /\ pass = [r \in Replicas |-> NoPass] /\ woken = {}
  /\ mailed = [u \in Users |-> Null]
  /\ moves = 0 /\ faults = 0 /\ losses = 0

-----------------------------------------------------------------------------
\* The last Monday 09:00 at or before t.
weeklyDigestFire(t, z) == t - ((t - z) % Week)

\* Mutant: without digestMinInterval.
digestDueUnspaced(t, z, last) ==
  LET fire == weeklyDigestFire(t, z) IN
  /\ t - fire < CatchUp
  /\ (IF last = Null THEN 0 ELSE last) < fire

\* Mutant: the interval is a whole week.
digestDueTooLong(t, z, last) ==
  LET fire == weeklyDigestFire(t, z) IN
  /\ t - fire < CatchUp
  /\ last # Null => t - last > Week
  /\ (IF last = Null THEN 0 ELSE last) < fire

\* Within the catch-up window, long enough after the last one, and not yet
\* sent for this Monday; a tenant that never got one counts from its creation.
digestDue(t, z, last) ==
  LET fire == weeklyDigestFire(t, z) IN
  /\ t - fire < CatchUp
  /\ last # Null => t - last >= MinInterval
  /\ (IF last = Null THEN 0 ELSE last) < fire

-----------------------------------------------------------------------------
Fault == faults < MaxFaults /\ faults' = faults + 1

\* Release the lock, unless its connection is already gone.
Finish(r) ==
  /\ pass' = [pass EXCEPT ![r] = NoPass]
  /\ lock' = IF lock = r THEN Null ELSE lock

\* The next hour: a replica that is still busy does not wake up in it, and
\* a pass that takes that long counts as a fault.
Tick ==
  LET busy == {r \in Replicas : pass[r].pc # "idle"} IN
  /\ now < Horizon /\ woken = Replicas
  /\ IF busy = {} THEN UNCHANGED faults ELSE Fault
  /\ now' = now + 1 /\ woken' = busy
  /\ UNCHANGED <<zone, sent, lock, pass, mailed, moves, losses, mailVars>>

\* A replica without the lock skips the tick; the one that gets it reads the
\* clock for the whole pass.
runCycle(r) ==
  /\ pass[r].pc = "idle" /\ r \notin woken
  /\ woken' = woken \cup {r}
  /\ IF lock = Null THEN lock' = r /\ pass' = [pass EXCEPT ![r].pc = "list", ![r].at = now]
                    ELSE UNCHANGED <<lock, pass>>
  /\ UNCHANGED <<now, zone, sent, mailed, moves, faults, losses, mailVars>>

\* The lock cannot be tried, or the replica is down.
Missed(r) ==
  /\ pass[r].pc = "idle" /\ r \notin woken /\ Fault
  /\ woken' = woken \cup {r}
  /\ UNCHANGED <<now, zone, sent, lock, pass, mailed, moves, losses, mailVars>>

\* tenants.List and digestDue for what it returned.
runOnce(r) ==
  /\ pass[r].pc = "list"
  /\ IF digestDue(pass[r].at, zone, sent)
     THEN pass' = [pass EXCEPT ![r].pc = "tenant"] /\ UNCHANGED lock
     ELSE Finish(r)
  /\ UNCHANGED <<now, zone, sent, woken, mailed, moves, faults, losses, mailVars>>

\* Mutant: the marker is left for after the mails.
runTenantUnmarked(r) ==
  /\ pass[r].pc = "tenant"
  /\ LET to == ResolveEnabledForUsers("weekly_digest") IN
     IF to = {} THEN Finish(r)
     ELSE pass' = [pass EXCEPT ![r].pc = "send", ![r].to = to] /\ UNCHANGED lock
  /\ UNCHANGED <<now, zone, sent, woken, mailed, moves, faults, losses, mailVars>>

\* The tenant transaction: the recipients, the digest and the marker; with
\* nobody to mail the week is settled all the same.
runTenant(r) ==
  /\ pass[r].pc = "tenant"
  /\ sent' = pass[r].at
  /\ LET to == ResolveEnabledForUsers("weekly_digest") IN
     IF to = {} THEN Finish(r)
     ELSE pass' = [pass EXCEPT ![r].pc = "send", ![r].to = to] /\ UNCHANGED lock
  /\ UNCHANGED <<now, zone, woken, mailed, moves, faults, losses, mailVars>>

\* Rolled back: no marker, and the next tick tries again.
runTenantFails(r) ==
  /\ pass[r].pc \in {"list", "tenant"} /\ Fault
  /\ Finish(r)
  /\ UNCHANGED <<now, zone, sent, woken, mailed, moves, losses, mailVars>>

\* The context of the sends no longer carries the tenant's transaction.  A
\* send that fails is logged and not repeated.
SendWeeklyDigest(r) ==
  /\ pass[r].pc = "send"
  /\ \E u \in pass[r].to :
       /\ IF pass[r].to = {u} THEN Finish(r)
          ELSE pass' = [pass EXCEPT ![r].to = @ \ {u}] /\ UNCHANGED lock
       /\ \/ /\ mailed' = IF CanSend(FALSE) THEN [mailed EXCEPT ![u] = pass[r].at] ELSE mailed
             /\ UNCHANGED faults
          \/ Fault /\ UNCHANGED mailed
  /\ UNCHANGED <<now, zone, sent, woken, moves, losses, mailVars>>

\* It dies; when it is back it waits for the next tick.
DigestCrash(r) ==
  /\ pass[r].pc # "idle" /\ Fault
  /\ Finish(r)
  /\ UNCHANGED <<now, zone, sent, woken, mailed, moves, losses, mailVars>>

\* The lock's own connection dies; the replica does not notice.
LoseLock ==
  /\ lock # Null /\ losses < MaxLosses
  /\ lock' = Null /\ losses' = losses + 1
  /\ UNCHANGED <<now, zone, sent, pass, woken, mailed, moves, faults, mailVars>>

SetTimezone ==
  /\ moves < MaxMoves /\ moves' = moves + 1
  /\ \E z \in Zones \ {zone} : zone' = z
  /\ UNCHANGED <<now, sent, lock, pass, woken, mailed, faults, losses, mailVars>>

DigestNext ==
  \/ Tick \/ LoseLock \/ SetTimezone
  \/ \E r \in Replicas : \/ runCycle(r) \/ Missed(r) \/ runOnce(r) \/ runTenant(r) \/ runTenantFails(r)
                         \/ SendWeeklyDigest(r) \/ DigestCrash(r)

-----------------------------------------------------------------------------
\* "Never double-sent", "whatever the zone does": two digests of a user are
\* at least digestMinInterval apart, over crashes, retries, zone changes and
\* several replicas, as long as nobody loses the lock unawares.
DigestsApart ==
  [][\A u \in Users : (mailed'[u] # mailed[u] /\ mailed[u] # Null /\ losses = 0)
                      => mailed'[u] - mailed[u] >= MinInterval]_<<mailed>>

\* "A timezone change costs at most one week, never a permanent skip": after
\* one change, and with faults that leave a tick in every window, the marker
\* is never older than two weeks and a catch-up window.
DigestNotSkipped ==
  moves <= 1 => now - (IF sent = Null THEN 0 ELSE sent) <= 2 * Week + CatchUp

\* A digest that is marked as sent has left, when a provider is active all
\* along and nothing failed: SendWeeklyDigest sends "through whichever
\* provider is currently active".
DigestLeaves ==
  (faults = 0 /\ ops = 0 /\ active # Null /\ \A r \in Replicas : pass[r] = NoPass)
  => \A u \in ResolveEnabledForUsers("weekly_digest") : mailed[u] = sent
=============================================================================
