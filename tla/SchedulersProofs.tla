-------------------------- MODULE SchedulersProofs --------------------------
(***************************************************************************)
(* Safety of the two schedulers, for every number of replicas, every zone, *)
(* interval, threshold and expiration date, and all bounds on faults.      *)
(***************************************************************************)
EXTENDS Schedulers, WellFoundedInduction, TLAPS

-----------------------------------------------------------------------------
(* The digest.  Who holds the lock works alone; the marker is committed     *)
(* before the mails, so what is mailed is never newer than the marker.      *)

Spaced(at, last) == last = Null \/ at - last >= MinInterval

DigestAlone == \A r \in Replicas : pass[r].pc # "idle" => lock = r

MailedInv == \A u \in Users : mailed[u] # Null => sent # Null /\ mailed[u] <= sent

PassInv ==
  \A r \in Replicas :
    /\ pass[r].pc = "tenant" => Spaced(pass[r].at, sent)
    /\ pass[r].pc = "send" => /\ sent = pass[r].at
                              /\ \A u \in pass[r].to : Spaced(pass[r].at, mailed[u])

DigestInv == DigestTypeOK /\ (losses = 0 => DigestAlone /\ MailedInv /\ PassInv)

-----------------------------------------------------------------------------
(* The domain check.                                                        *)

Band(t, d) == expirationThreshold(daysUntil(t, d))

\* What the next check takes for the last known band.
StoredBand == IF row.exp # Null /\ row.ok # Null THEN Band(row.ok, row.exp) ELSE 0

CheckAlone == \A r \in Checkers : check[r].pc # "idle" => hlock = r

RowInv == /\ row.exp # Null => row.exp <= regExp
          /\ row.ok # Null => row.ok <= unit

\* A check that has not stored its result works on the row as it is.
LookInv(r) ==
  /\ check[r].pc # "idle" => check[r].at <= unit
  /\ check[r].pc \in {"look", "persist"} => check[r].got = row
  /\ check[r].pc = "persist" =>
       /\ check[r].exp # Null => check[r].exp <= regExp
       /\ row.exp # Null => check[r].exp # Null /\ check[r].exp >= row.exp
       /\ check[r].err => check[r].exp = row.exp
       /\ check[r].alert = IF check[r].err \/ check[r].exp = Null THEN 0
                           ELSE expirationAlert(check[r].at, row.exp, row.ok, check[r].exp)

\* An alert that is about to go out is for the stored date and its first.
NotifyInv(r) ==
  check[r].pc = "notify" /\ check[r].alert # 0 =>
    /\ check[r].exp # Null /\ row.exp = check[r].exp /\ row.ok # Null
    /\ told[check[r].exp][check[r].alert] = 0
    /\ StoredBand # 0 /\ StoredBand <= check[r].alert
    /\ inBand = check[r].alert

\* Once alerted, the stored date is that one, at that threshold or closer, or
\* a later one.
ToldInv ==
  \A d \in Dates, k \in Thresholds : told[d][k] # 0 =>
    /\ told[d][k] = 1 /\ row.exp # Null /\ d <= row.exp
    /\ row.exp = d => StoredBand # 0 /\ StoredBand <= k

CrossingInv ==
  ~spoiled =>
    /\ inBand = StoredBand
    /\ (inBand # 0 /\ \A r \in Checkers : check[r].pc = "notify" => check[r].alert = 0)
       => \E k \in warned : k <= inBand

HealthInv ==
  /\ HealthTypeOK /\ CheckAlone /\ RowInv /\ ToldInv /\ CrossingInv
  /\ \A r \in Checkers : LookInv(r) /\ NotifyInv(r)

-----------------------------------------------------------------------------
(* Proofs: the digest.                                                      *)

LEMMA DigestConstants ==
  /\ Horizon \in Nat /\ MinInterval \in Nat /\ MaxMoves \in Nat /\ MaxFaults \in Nat /\ MaxLosses \in Nat
  /\ Null \notin Replicas /\ Null \notin Nat
  BY DigestAssumption

Passing == [pc : {"idle", "list", "tenant", "send"}, at : 0..Horizon, to : SUBSET Users]

\* A pass that ends.
LEMMA FinishKept ==
  ASSUME DigestInv, NEW r \in Replicas, Finish(r)
  PROVE  /\ pass' \in [Replicas -> Passing] /\ lock' \in Replicas \cup {Null}
         /\ pass'[r] = NoPass /\ pass'[r].pc = "idle" /\ \A q \in Replicas \ {r} : pass'[q] = pass[q]
         /\ losses = 0 => DigestAlone'
<1>1. pass \in [Replicas -> Passing] /\ lock \in Replicas \cup {Null} /\ Horizon \in Nat
  BY DigestConstants DEF DigestInv, DigestTypeOK, Passing
<1>2. NoPass \in Passing /\ NoPass.pc = "idle"
  BY <1>1 DEF NoPass, Passing
<1>3. pass'[r] = NoPass /\ \A q \in Replicas \ {r} : pass'[q] = pass[q]
  BY <1>1 DEF Finish
<1>4. losses = 0 => DigestAlone'
  BY <1>2, <1>3 DEF Finish, DigestAlone, DigestInv
<1> QED BY <1>1, <1>2, <1>3, <1>4 DEF Finish

LEMMA DigestFrame ==
  ASSUME DigestInv, DigestTypeOK', losses' = 0 => losses = 0 /\ DigestAlone',
         UNCHANGED <<sent, mailed>>,
         \A r \in Replicas : pass'[r].pc \in {"tenant", "send"} => pass'[r] = pass[r]
  PROVE  DigestInv'
<1>1. ASSUME losses' = 0 PROVE MailedInv' /\ PassInv'
  <2>1. MailedInv /\ PassInv
    BY <1>1 DEF DigestInv
  <2>2. MailedInv'
    BY <2>1 DEF MailedInv
  <2>3. ASSUME NEW r \in Replicas
        PROVE  /\ pass'[r].pc = "tenant" => Spaced(pass'[r].at, sent')
               /\ pass'[r].pc = "send" => /\ sent' = pass'[r].at
                                          /\ \A u \in pass'[r].to : Spaced(pass'[r].at, mailed'[u])
    <3>1. CASE pass'[r] = pass[r]
      BY <2>1, <3>1 DEF PassInv
    <3> QED BY <3>1
  <2> QED BY <2>2, <2>3 DEF PassInv, Spaced
<1> QED BY <1>1 DEF DigestInv

LEMMA DigestStep ==
  ASSUME DigestInv, DigestNext
  PROVE  DigestInv'
<1>t. /\ DigestTypeOK /\ pass \in [Replicas -> Passing] /\ now \in 0..Horizon /\ faults \in 0..MaxFaults
      /\ losses \in 0..MaxLosses /\ moves \in 0..MaxMoves /\ lock \in Replicas \cup {Null}
      /\ woken \subseteq Replicas
  BY DEF DigestInv, DigestTypeOK, Passing
<1>c. /\ Horizon \in Nat /\ MinInterval \in Nat /\ MaxMoves \in Nat /\ MaxFaults \in Nat
      /\ MaxLosses \in Nat /\ Null \notin Replicas /\ Null \notin Nat
  BY DigestConstants
<1>f. Fault => faults' \in 0..MaxFaults
  BY <1>t, <1>c DEF Fault
<1>1. CASE Tick
  <2>1. DigestTypeOK'
    <3>1. now' \in 0..Horizon
      BY <1>1, <1>t, <1>c DEF Tick
    <3>2. faults' \in 0..MaxFaults
      BY <1>1, <1>t, <1>f DEF Tick
    <3> QED BY <1>1, <1>t, <3>1, <3>2 DEF Tick, DigestTypeOK
  <2> QED BY <1>1, <2>1, DigestFrame DEF Tick, DigestInv, DigestAlone
<1>2. CASE LoseLock
  <2>1. losses' \in 0..MaxLosses /\ losses' # 0
    BY <1>2, <1>t, <1>c DEF LoseLock
  <2>2. DigestTypeOK'
    BY <1>2, <1>t, <2>1 DEF LoseLock, DigestTypeOK
  <2> QED BY <2>1, <2>2 DEF DigestInv
<1>3. CASE SetTimezone
  <2>1. moves' \in 0..MaxMoves
    BY <1>3, <1>t, <1>c DEF SetTimezone
  <2>2. DigestTypeOK'
    BY <1>3, <1>t, <2>1 DEF SetTimezone, DigestTypeOK
  <2> QED BY <1>3, <2>2, DigestFrame DEF SetTimezone, DigestInv, DigestAlone
<1>4. ASSUME NEW r \in Replicas, runCycle(r) PROVE DigestInv'
  <2>1. CASE UNCHANGED <<lock, pass>>
    <3>1. DigestTypeOK'
      BY <1>4, <1>t, <2>1 DEF runCycle, DigestTypeOK
    <3> QED BY <1>4, <2>1, <3>1, DigestFrame DEF runCycle, DigestInv, DigestAlone
  <2>2. CASE lock = Null /\ lock' = r /\ pass' = [pass EXCEPT ![r].pc = "list", ![r].at = now]
    <3>1. pass[r] \in Passing
      BY <1>t
    <3>2. /\ pass'[r] = [pass[r] EXCEPT !.pc = "list", !.at = now]
          /\ \A q \in Replicas \ {r} : pass'[q] = pass[q]
      BY <1>t, <2>2
    <3>3. pass'[r] \in Passing /\ pass'[r].pc = "list"
      BY <1>t, <3>1, <3>2 DEF Passing
    <3>4. pass' \in [Replicas -> Passing]
      BY <1>t, <2>2, <3>2, <3>3
    <3>5. DigestTypeOK'
      BY <1>4, <1>t, <2>2, <3>4 DEF runCycle, DigestTypeOK, Passing
    <3>6. losses = 0 => \A q \in Replicas : pass[q].pc = "idle"
      BY <1>c, <2>2 DEF DigestInv, DigestAlone
    <3>7. losses' = 0 => losses = 0 /\ DigestAlone'
      BY <1>4, <2>2, <3>2, <3>6 DEF runCycle, DigestAlone
    <3> QED BY <1>4, <3>2, <3>3, <3>5, <3>7, DigestFrame DEF runCycle
  <2> QED BY <1>4, <2>1, <2>2 DEF runCycle
<1>5. ASSUME NEW r \in Replicas, Missed(r) PROVE DigestInv'
  <2>1. DigestTypeOK'
    BY <1>5, <1>t, <1>f DEF Missed, DigestTypeOK
  <2> QED BY <1>5, <2>1, DigestFrame DEF Missed, DigestInv, DigestAlone
<1>e. ASSUME NEW r \in Replicas, Finish(r), UNCHANGED <<now, zone, sent, woken, mailed, moves, losses>>,
             faults' \in 0..MaxFaults
      PROVE  DigestInv'
  <2>1. DigestTypeOK'
    BY <1>e, <1>t, FinishKept DEF DigestTypeOK, Passing
  <2>2. losses' = 0 => losses = 0 /\ DigestAlone'
    BY <1>e, FinishKept
  <2>3. \A q \in Replicas : pass'[q].pc \in {"tenant", "send"} => pass'[q] = pass[q]
    BY <1>e, FinishKept
  <2> QED BY <1>e, <2>1, <2>2, <2>3, DigestFrame
<1>6. ASSUME NEW r \in Replicas, runOnce(r) PROVE DigestInv'
  <2>1. CASE Finish(r)
    BY <1>6, <1>t, <1>e, <2>1 DEF runOnce
  <2>2. CASE /\ digestDue(pass[r].at, zone, sent)
             /\ pass' = [pass EXCEPT ![r].pc = "tenant"] /\ UNCHANGED lock
    <3>1. pass[r] \in Passing
      BY <1>t
    <3>2. /\ pass'[r] = [pass[r] EXCEPT !.pc = "tenant"]
          /\ \A q \in Replicas \ {r} : pass'[q] = pass[q]
      BY <1>t, <2>2
    <3>3. pass'[r] \in Passing /\ pass'[r].pc = "tenant" /\ pass'[r].at = pass[r].at
      BY <3>1, <3>2 DEF Passing
    <3>4. pass' \in [Replicas -> Passing]
      BY <1>t, <2>2, <3>2, <3>3
    <3>5. DigestTypeOK'
      BY <1>6, <1>t, <2>2, <3>4 DEF runOnce, DigestTypeOK, Passing
    <3>6. Spaced(pass[r].at, sent)
      BY <2>2 DEF digestDue, Spaced
    <3>7. ASSUME losses' = 0 PROVE DigestAlone' /\ MailedInv' /\ PassInv'
      <4>1. losses = 0 /\ DigestAlone /\ MailedInv /\ PassInv /\ UNCHANGED <<sent, mailed, lock>>
        BY <1>6, <2>2, <3>7 DEF runOnce, DigestInv
      <4>2. DigestAlone'
        BY <1>6, <3>2, <4>1 DEF DigestAlone, runOnce
      <4>3. MailedInv'
        BY <4>1 DEF MailedInv
      <4>4. ASSUME NEW q \in Replicas
            PROVE  /\ pass'[q].pc = "tenant" => Spaced(pass'[q].at, sent')
                   /\ pass'[q].pc = "send" => /\ sent' = pass'[q].at
                                              /\ \A u \in pass'[q].to : Spaced(pass'[q].at, mailed'[u])
        <5>1. CASE q = r
          BY <3>3, <3>6, <4>1, <5>1
        <5>2. CASE q # r
          BY <3>2, <4>1, <5>2 DEF PassInv
        <5> QED BY <5>1, <5>2
      <4> QED BY <4>2, <4>3, <4>4 DEF PassInv, Spaced
    <3> QED BY <3>5, <3>7 DEF DigestInv
  <2> QED BY <1>6, <2>1, <2>2 DEF runOnce
<1>7. ASSUME NEW r \in Replicas, runTenant(r) PROVE DigestInv'
  <2> DEFINE to == ResolveEnabledForUsers("weekly_digest")
  <2>1. /\ pass[r].pc = "tenant" /\ sent' = pass[r].at
        /\ \/ Finish(r)
           \/ pass' = [pass EXCEPT ![r].pc = "send", ![r].to = to] /\ UNCHANGED lock
        /\ UNCHANGED <<now, zone, woken, mailed, moves, faults, losses>>
    BY <1>7 DEF runTenant
  <2>2. to \subseteq Users
    BY DEF ResolveEnabledForUsers
  <2> HIDE DEF to
  <2>3. pass[r] \in Passing /\ pass[r].at \in 0..Horizon /\ sent' \in 0..Horizon
    BY <1>t, <2>1 DEF Passing
  <2>4. ASSUME losses = 0
        PROVE  /\ \A u \in Users : Spaced(pass[r].at, mailed[u])
               /\ MailedInv' /\ \A q \in Replicas \ {r} : pass[q].pc = "idle"
    <3>1. DigestAlone /\ MailedInv /\ PassInv /\ Spaced(pass[r].at, sent)
      BY <2>1, <2>4 DEF DigestInv, PassInv
    <3>2. sent \in 0..Horizon \cup {Null} /\ mailed \in [Users -> 0..Horizon \cup {Null}]
      BY <1>t DEF DigestTypeOK
    <3>3. ASSUME NEW u \in Users, mailed[u] # Null
          PROVE  pass[r].at - mailed[u] >= MinInterval /\ mailed[u] <= pass[r].at
      <4>1. sent # Null /\ mailed[u] <= sent /\ pass[r].at - sent >= MinInterval
        BY <3>1, <3>3 DEF MailedInv, Spaced
      <4>2. sent \in Int /\ mailed[u] \in Int /\ pass[r].at \in Int
        BY <1>c, <2>3, <3>2, <3>3, <4>1
      <4> QED BY <1>c, <4>1, <4>2
    <3>4. sent' # Null
      BY <1>c, <2>3
    <3>5. MailedInv'
      BY <2>1, <3>3, <3>4 DEF MailedInv
    <3>6. \A q \in Replicas \ {r} : pass[q].pc = "idle"
      BY <2>1, <3>1 DEF DigestAlone
    <3> QED BY <3>3, <3>5, <3>6 DEF Spaced
  <2>5. CASE Finish(r)
    <3>1. DigestTypeOK'
      BY <1>t, <2>1, <2>3, <2>5, FinishKept DEF DigestTypeOK, Passing
    <3>2. losses = 0 => \A q \in Replicas : pass'[q].pc = "idle"
      BY <2>4, <2>5, FinishKept
    <3>3. losses = 0 => DigestAlone' /\ PassInv'
      BY <2>5, <3>2, FinishKept DEF PassInv
    <3> QED BY <2>1, <2>4, <3>1, <3>3 DEF DigestInv
  <2>6. CASE pass' = [pass EXCEPT ![r].pc = "send", ![r].to = to] /\ UNCHANGED lock
    <3>2. /\ pass'[r] = [pass[r] EXCEPT !.pc = "send", !.to = to]
          /\ \A q \in Replicas \ {r} : pass'[q] = pass[q]
      BY <1>t, <2>6
    <3>3. /\ pass'[r] \in Passing /\ pass'[r].pc = "send" /\ pass'[r].at = pass[r].at
          /\ pass'[r].to = to
      BY <2>2, <2>3, <3>2 DEF Passing
    <3>4. pass' \in [Replicas -> Passing]
      BY <1>t, <2>6, <3>2, <3>3
    <3>5. DigestTypeOK'
      BY <1>t, <2>1, <2>3, <2>6, <3>4 DEF DigestTypeOK, Passing
    <3>6. ASSUME losses = 0 PROVE DigestAlone' /\ PassInv'
      <4>1. lock = r
        BY <2>1, <3>6 DEF DigestInv, DigestAlone
      <4>2. DigestAlone'
        BY <2>4, <2>6, <3>2, <3>6, <4>1 DEF DigestAlone
      <4>3. ASSUME NEW q \in Replicas
            PROVE  /\ pass'[q].pc = "tenant" => Spaced(pass'[q].at, sent')
                   /\ pass'[q].pc = "send" => /\ sent' = pass'[q].at
                                              /\ \A u \in pass'[q].to : Spaced(pass'[q].at, mailed'[u])
        <5>1. CASE q = r
          <6>1. \A u \in to : Spaced(pass[r].at, mailed[u])
            BY <2>2, <2>4, <3>6
          <6> QED BY <2>1, <3>3, <5>1, <6>1
        <5>2. CASE q # r
          BY <2>4, <3>2, <3>6, <5>2
        <5> QED BY <5>1, <5>2
      <4> QED BY <4>2, <4>3 DEF PassInv, Spaced
    <3> QED BY <2>1, <2>4, <3>5, <3>6 DEF DigestInv
  <2> QED BY <2>1, <2>5, <2>6
<1>8. ASSUME NEW r \in Replicas, runTenantFails(r) \/ DigestCrash(r) PROVE DigestInv'
  BY <1>8, <1>e, <1>f DEF runTenantFails, DigestCrash
<1>9. ASSUME NEW r \in Replicas, SendWeeklyDigest(r) PROVE DigestInv'
  <2>1. PICK u \in pass[r].to :
          /\ \/ pass[r].to = {u} /\ Finish(r)
             \/ pass' = [pass EXCEPT ![r].to = @ \ {u}] /\ UNCHANGED lock
          /\ mailed' \in {mailed, [mailed EXCEPT ![u] = pass[r].at]}
          /\ faults' \in 0..MaxFaults
    BY <1>9, <1>t, <1>f DEF SendWeeklyDigest
  <2>2. pass[r].pc = "send" /\ UNCHANGED <<now, zone, sent, woken, moves, losses>>
    BY <1>9 DEF SendWeeklyDigest
  <2>3. /\ pass[r] \in Passing /\ pass[r].at \in 0..Horizon /\ u \in Users /\ pass[r].to \subseteq Users
        /\ mailed \in [Users -> 0..Horizon \cup {Null}]
    BY <1>t, <2>1 DEF Passing, DigestTypeOK
  <2>4. /\ mailed' \in [Users -> 0..Horizon \cup {Null}]
        /\ \A v \in Users : mailed'[v] = mailed[v] \/ (v = u /\ mailed'[v] = pass[r].at)
    BY <2>1, <2>3
  <2>5. ASSUME losses = 0
        PROVE  /\ MailedInv' /\ sent = pass[r].at /\ \A q \in Replicas \ {r} : pass[q].pc = "idle"
               /\ \A v \in pass[r].to : Spaced(pass[r].at, mailed[v])
    <3>1. DigestAlone /\ MailedInv /\ PassInv
      BY <2>5 DEF DigestInv
    <3>2. sent = pass[r].at /\ \A v \in pass[r].to : Spaced(pass[r].at, mailed[v])
      BY <2>2, <3>1 DEF PassInv
    <3>3. \A q \in Replicas \ {r} : pass[q].pc = "idle"
      BY <2>2, <3>1 DEF DigestAlone
    <3>4. sent # Null /\ sent <= sent /\ sent' = sent
      BY <1>c, <2>2, <2>3, <3>2
    <3>5. MailedInv'
      BY <2>4, <3>1, <3>2, <3>4 DEF MailedInv
    <3> QED BY <3>2, <3>3, <3>5
  <2>6. CASE Finish(r)
    <3>1. DigestTypeOK'
      BY <1>t, <2>1, <2>2, <2>4, <2>6, FinishKept DEF DigestTypeOK, Passing
    <3>2. losses = 0 => \A q \in Replicas : pass'[q].pc = "idle"
      BY <2>5, <2>6, FinishKept
    <3>3. losses = 0 => DigestAlone' /\ PassInv'
      BY <2>6, <3>2, FinishKept DEF PassInv
    <3> QED BY <2>2, <2>5, <3>1, <3>3 DEF DigestInv
  <2>7. CASE pass' = [pass EXCEPT ![r].to = @ \ {u}] /\ UNCHANGED lock
    <3>2. /\ pass'[r] = [pass[r] EXCEPT !.to = pass[r].to \ {u}]
          /\ \A q \in Replicas \ {r} : pass'[q] = pass[q]
      BY <1>t, <2>7
    <3>3. /\ pass'[r] \in Passing /\ pass'[r].pc = "send" /\ pass'[r].at = pass[r].at
          /\ pass'[r].to = pass[r].to \ {u}
      BY <2>2, <2>3, <3>2 DEF Passing
    <3>4. pass' \in [Replicas -> Passing]
      BY <1>t, <2>7, <3>2, <3>3
    <3>5. DigestTypeOK'
      BY <1>t, <2>1, <2>2, <2>4, <2>7, <3>4 DEF DigestTypeOK, Passing
    <3>6. ASSUME losses = 0 PROVE DigestAlone' /\ PassInv'
      <4>1. lock = r
        BY <2>2, <3>6 DEF DigestInv, DigestAlone
      <4>2. DigestAlone'
        BY <2>5, <2>7, <3>2, <3>6, <4>1 DEF DigestAlone
      <4>3. ASSUME NEW q \in Replicas
            PROVE  /\ pass'[q].pc = "tenant" => Spaced(pass'[q].at, sent')
                   /\ pass'[q].pc = "send" => /\ sent' = pass'[q].at
                                              /\ \A v \in pass'[q].to : Spaced(pass'[q].at, mailed'[v])
        <5>1. CASE q = r
          <6>1. \A v \in pass[r].to \ {u} : Spaced(pass[r].at, mailed'[v])
            BY <2>3, <2>4, <2>5, <3>6
          <6>2. sent' = pass[r].at
            BY <2>2, <2>5, <3>6
          <6> QED BY <3>3, <5>1, <6>1, <6>2
        <5>2. CASE q # r
          BY <2>5, <3>2, <3>6, <5>2
        <5> QED BY <5>1, <5>2
      <4> QED BY <4>2, <4>3 DEF PassInv, Spaced
    <3> QED BY <2>2, <2>5, <3>5, <3>6 DEF DigestInv
  <2> QED BY <2>1, <2>6, <2>7
<1> QED BY <1>1, <1>2, <1>3, <1>4, <1>5, <1>6, <1>7, <1>8, <1>9 DEF DigestNext

-----------------------------------------------------------------------------
(* Proofs: bands.                                                           *)

LEMMA HealthConstants ==
  /\ Day \in Nat /\ Day > 0 /\ LastUnit \in Nat /\ MaxChanges \in Nat /\ MaxMishaps \in Nat
  /\ Thresholds \subseteq Nat \ {0} /\ Dates \subseteq Nat
  /\ Null \notin Checkers /\ Null \notin Dates /\ Null \notin NSets /\ Null \notin Nat
  BY HealthAssumption

\* A set of numbers has its smallest.
LEMMA LeastExists ==
  ASSUME NEW S, S \subseteq Nat, S # {}
  PROVE  Min(S) \in S /\ \A y \in S : Min(S) <= y
<1>1. PICK x \in S : \A y \in S : ~(<<y, x>> \in OpToRel(<, Nat))
  BY NatLessThanWellFounded, WFMin
<1>2. \A y \in S : ~(y < x)
  BY <1>1 DEF OpToRel
<1>3. \E z \in S : \A y \in S : z <= y
  BY <1>2
<1> QED BY <1>3 DEF Min

LEMMA DivGrows ==
  ASSUME NEW a \in Nat, NEW b \in Nat, a <= b
  PROVE  a \div Day <= b \div Day /\ a \div Day \in Nat /\ b \div Day \in Nat
<1> DEFINE x == a \div Day
           y == b \div Day
<1>1. Day \in Nat /\ Day > 0
  BY HealthConstants
<1>2. x \in Nat /\ y \in Nat
  BY <1>1
<1>3. Day * x <= a /\ b < Day * (y + 1)
  BY <1>1
<1> HIDE DEF x, y
<1>4. CASE x >= y + 1
  <2>1. Day * x >= Day * (y + 1)
    BY <1>1, <1>2, <1>4
  <2>2. Day * x \in Int /\ Day * (y + 1) \in Int
    BY <1>1, <1>2
  <2> QED BY <1>3, <2>1, <2>2
<1> QED BY <1>2, <1>4 DEF x, y

\* Days only run down.
LEMMA DaysRunDown ==
  ASSUME NEW s \in Nat, NEW t \in Nat, s <= t, NEW d \in Nat
  PROVE  daysUntil(t, d) <= daysUntil(s, d) /\ daysUntil(s, d) \in Int /\ daysUntil(t, d) \in Int
<1>1. CASE d >= t
  <2>1. d - t \in Nat /\ d - s \in Nat /\ d - t <= d - s
    BY <1>1
  <2> QED BY <1>1, <2>1, DivGrows DEF daysUntil
<1>2. CASE d < t /\ d >= s
  <2>1. t - d \in Nat /\ d - s \in Nat
    BY <1>2
  <2>2. (t - d) \div Day \in Nat /\ (d - s) \div Day \in Nat
    BY <2>1, DivGrows
  <2> QED BY <1>2, <2>2 DEF daysUntil
<1>3. CASE d < t /\ d < s
  <2>1. t - d \in Nat /\ s - d \in Nat /\ s - d <= t - d
    BY <1>3
  <2>2. (s - d) \div Day <= (t - d) \div Day /\ (s - d) \div Day \in Nat /\ (t - d) \div Day \in Nat
    BY <2>1, DivGrows
  <2> QED BY <1>3, <2>2 DEF daysUntil
<1> QED BY <1>1, <1>2, <1>3

LEMMA BandType ==
  ASSUME NEW days \in Int
  PROVE  /\ expirationThreshold(days) \in Bands /\ expirationThreshold(days) \in Nat
         /\ expirationThreshold(days) # 0 =>
              /\ expirationThreshold(days) \in Thresholds /\ days <= expirationThreshold(days)
              /\ \A k \in Thresholds : days <= k => expirationThreshold(days) <= k
         /\ expirationThreshold(days) = 0 => \A k \in Thresholds : ~(days <= k)
<1> DEFINE W == {k \in Thresholds : days <= k}
<1>1. W \subseteq Nat /\ 0 \notin W /\ W \subseteq Thresholds
  BY HealthConstants
<1>2. CASE W = {}
  BY <1>2 DEF expirationThreshold, Bands
<1>3. CASE W # {}
  <2>1. Min(W) \in W /\ \A y \in W : Min(W) <= y
    BY <1>1, <1>3, LeastExists
  <2>2. expirationThreshold(days) = Min(W)
    BY <1>3 DEF expirationThreshold
  <2> HIDE DEF expirationThreshold
  <2>3. Min(W) \in Thresholds /\ Min(W) \in Nat /\ days <= Min(W) /\ Min(W) # 0
    BY <1>1, <2>1
  <2>4. \A k \in Thresholds : days <= k => Min(W) <= k
    BY <2>1
  <2> QED BY <2>2, <2>3, <2>4 DEF Bands
<1> QED BY <1>2, <1>3

\* A band is only left for a narrower one.
LEMMA BandNarrows ==
  ASSUME NEW s \in Nat, NEW t \in Nat, s <= t, NEW d \in Nat
  PROVE  /\ Band(s, d) \in Bands /\ Band(t, d) \in Bands /\ Band(s, d) \in Nat /\ Band(t, d) \in Nat
         /\ Band(s, d) # 0 => Band(t, d) # 0 /\ Band(t, d) <= Band(s, d)
<1>1. daysUntil(t, d) <= daysUntil(s, d) /\ daysUntil(s, d) \in Int /\ daysUntil(t, d) \in Int
  BY DaysRunDown
<1> HIDE DEF daysUntil
<1>2. PICK m \in Int, n \in Int : m = daysUntil(s, d) /\ n = daysUntil(t, d)
  BY <1>1
<1>3. expirationThreshold(m) # 0 => expirationThreshold(m) \in Thresholds /\ n <= expirationThreshold(m)
  <2>1. n <= m
    BY <1>1, <1>2
  <2>2. expirationThreshold(m) \in Nat
    BY BandType
  <2> QED BY <2>1, <2>2, BandType
<1>4. expirationThreshold(m) # 0 => expirationThreshold(n) # 0 /\ expirationThreshold(n) <= expirationThreshold(m)
  BY <1>3, BandType
<1> QED BY <1>2, <1>4, BandType DEF Band

-----------------------------------------------------------------------------
(* Proofs: the domain check.                                                *)

LEMMA BlankCheck == NoRow \in Row /\ NoCheck \in Check
<1>1. NoRow \in Row
  BY DEF NoRow, Row
<1>2. 0 \in 0..LastUnit /\ 0 \in Bands
  BY HealthConstants DEF Bands
<1> QED BY <1>1, <1>2 DEF NoCheck, Check

\* What a check carries.
LEMMA CheckFields ==
  ASSUME HealthTypeOK, NEW r \in Checkers
  PROVE  /\ check \in [Checkers -> Check] /\ check[r] \in Check
         /\ check[r].pc \in {"idle", "list", "look", "persist", "notify"}
         /\ check[r].at \in 0..LastUnit /\ check[r].got \in Row /\ check[r].exp \in Dates \cup {Null}
         /\ check[r].err \in BOOLEAN /\ check[r].cur \in NSets \cup {Null} /\ check[r].alert \in Bands
         /\ check[r].drift \in BOOLEAN
  BY DEF HealthTypeOK, Check

LEMMA RowFields ==
  ASSUME NEW rw \in Row
  PROVE  /\ rw.exp \in Dates \cup {Null} /\ rw.ok \in 0..LastUnit \cup {Null}
         /\ rw.base \in NSets \cup {Null} /\ rw.cur \in NSets \cup {Null} /\ rw.drift \in BOOLEAN
  BY DEF Row

\* Instants and dates that are not nil.
LEMMA Instants ==
  /\ \A x \in Dates \cup {Null} : x # Null => x \in Dates /\ x \in Nat /\ x <= x /\ x >= x
  /\ \A x \in 0..LastUnit \cup {Null} : x # Null => x \in Nat /\ x <= x
  /\ \A x \in 0..LastUnit : x \in Nat /\ x <= x
  BY HealthConstants

\* The band of two instants that were stored.
LEMMA StoredBandType ==
  ASSUME row \in Row
  PROVE  StoredBand \in Bands /\ StoredBand \in Nat
<1>1. CASE row.exp # Null /\ row.ok # Null
  <2>0. row.exp \in Dates \cup {Null} /\ row.ok \in 0..LastUnit \cup {Null}
    BY RowFields
  <2>1. row.exp \in Nat /\ row.ok \in Nat /\ row.ok <= row.ok
    BY <1>1, <2>0, Instants
  <2>2. Band(row.ok, row.exp) \in Bands /\ Band(row.ok, row.exp) \in Nat
    BY <2>1, BandNarrows
  <2> QED BY <1>1, <2>2 DEF StoredBand
<1>2. CASE ~(row.exp # Null /\ row.ok # Null)
  BY <1>2 DEF StoredBand, Bands
<1> QED BY <1>1, <1>2

\* Steps that leave the row and the alerts alone.
LEMMA HealthFrame ==
  ASSUME HealthInv, HealthTypeOK', CheckAlone', UNCHANGED <<row, told, inBand, warned>>,
         unit <= unit', regExp <= regExp', spoiled => spoiled',
         \A r \in Checkers : \/ check'[r] = check[r]
                             \/ /\ check'[r].pc # "notify" /\ LookInv(r)'
                                /\ check[r].pc = "notify" /\ check[r].alert # 0 => spoiled'
  PROVE  HealthInv'
<1>t. /\ HealthTypeOK /\ RowInv /\ ToldInv /\ CrossingInv /\ row \in Row
      /\ unit \in Nat /\ unit' \in Nat /\ regExp \in Nat /\ regExp' \in Nat
      /\ \A r \in Checkers : LookInv(r) /\ NotifyInv(r)
  BY HealthConstants DEF HealthInv, HealthTypeOK
<1>1. StoredBand' = StoredBand
  BY DEF StoredBand
<1>2. RowInv'
  <2>1. row.exp # Null => row.exp \in Nat
    BY <1>t, RowFields, HealthConstants
  <2>2. row.ok # Null => row.ok \in Nat
    BY <1>t, RowFields
  <2> QED BY <1>t, <2>1, <2>2 DEF RowInv
<1>3. ToldInv'
  BY <1>t, <1>1 DEF ToldInv
<1>4. ASSUME NEW r \in Checkers PROVE LookInv(r)' /\ NotifyInv(r)'
  <2>1. CASE check'[r] = check[r]
    <3>1. NotifyInv(r)'
      BY <1>t, <1>1, <2>1 DEF NotifyInv
    <3>2. check[r].exp # Null => check[r].exp \in Nat
      BY <1>t, CheckFields, HealthConstants
    <3>3. check[r].at \in Nat
      BY <1>t, CheckFields
    <3>4. LookInv(r)
      BY <1>t
    <3>5. check[r].pc # "idle" => check[r].at <= unit'
      BY <1>t, <3>3, <3>4 DEF LookInv
    <3>6. check[r].pc = "persist" /\ check[r].exp # Null => check[r].exp <= regExp'
      BY <1>t, <3>2, <3>4 DEF LookInv
    <3>7. LookInv(r)'
      BY <2>1, <3>4, <3>5, <3>6 DEF LookInv
    <3> QED BY <3>1, <3>7
  <2>2. CASE check'[r].pc # "notify" /\ LookInv(r)'
    BY <2>2 DEF NotifyInv
  <2> QED BY <2>1, <2>2
<1>5. CrossingInv'
  <2> SUFFICES ASSUME ~spoiled' PROVE CrossingInv'
    BY DEF CrossingInv
  <2>1. /\ ~spoiled /\ inBand = StoredBand
        /\ (inBand # 0 /\ \A r \in Checkers : check[r].pc = "notify" => check[r].alert = 0)
           => \E k \in warned : k <= inBand
    BY <1>t DEF CrossingInv
  <2>2. (\A r \in Checkers : check'[r].pc = "notify" => check'[r].alert = 0)
        => \A r \in Checkers : check[r].pc = "notify" => check[r].alert = 0
    OBVIOUS
  <2> QED BY <1>1, <2>1, <2>2 DEF CrossingInv
<1> QED BY <1>2, <1>3, <1>4, <1>5 DEF HealthInv

\* A check that ends.
LEMMA EndCheckKept ==
  ASSUME HealthInv, NEW r \in Checkers, EndCheck(r)
  PROVE  /\ check' \in [Checkers -> Check] /\ hlock' \in Checkers \cup {Null} /\ CheckAlone'
         /\ check'[r] = NoCheck /\ check'[r].pc = "idle" /\ \A q \in Checkers \ {r} : check'[q] = check[q]
<1>1. check \in [Checkers -> Check] /\ hlock \in Checkers \cup {Null} /\ CheckAlone
  BY DEF HealthInv, HealthTypeOK
<1>2. check'[r] = NoCheck /\ \A q \in Checkers \ {r} : check'[q] = check[q]
  BY <1>1 DEF EndCheck
<1>3. NoCheck.pc = "idle"
  BY DEF NoCheck
<1>4. CheckAlone'
  BY <1>1, <1>2, <1>3 DEF EndCheck, ReleaseLock, CheckAlone
<1> QED BY <1>1, <1>2, <1>3, <1>4, BlankCheck DEF EndCheck, ReleaseLock

LEMMA IdleLooks ==
  ASSUME NEW r \in Checkers, check'[r].pc = "idle"
  PROVE  check'[r].pc # "notify" /\ LookInv(r)'
  BY DEF LookInv

\* The clock, the registry, and checks up to what they store.
LEMMA LookingKept ==
  ASSUME HealthInv,
         \/ UnitPasses \/ Renew \/ MoveNS
         \/ \E r \in Checkers : \/ HealthCycle(r) \/ listDomains(r) \/ checkAndPersist(r)
                                \/ persistFails(r) \/ HealthCrash(r)
  PROVE  HealthInv'
<1>t. /\ HealthTypeOK /\ CheckAlone /\ RowInv /\ check \in [Checkers -> Check] /\ row \in Row
      /\ unit \in 0..LastUnit /\ unit \in Nat /\ unit <= unit /\ regExp \in Dates /\ regExp \in Nat
      /\ regExp <= regExp /\ hlock \in Checkers \cup {Null} /\ awake \subseteq Checkers
      /\ changes \in 0..MaxChanges /\ mishaps \in 0..MaxMishaps /\ spoiled \in BOOLEAN
      /\ \A r \in Checkers : LookInv(r)
  BY HealthConstants DEF HealthInv, HealthTypeOK
<1>c. /\ LastUnit \in Nat /\ MaxChanges \in Nat /\ MaxMishaps \in Nat /\ Dates \subseteq Nat
      /\ Null \notin Checkers /\ Null \notin Dates
  BY HealthConstants
<1>m. Mishap => mishaps' \in 0..MaxMishaps
  BY <1>t, <1>c DEF Mishap
<1>1. CASE UnitPasses
  <2>1. unit' \in 0..LastUnit /\ unit <= unit'
    BY <1>1, <1>t, <1>c DEF UnitPasses
  <2>2. HealthTypeOK'
    BY <1>1, <1>t, <2>1 DEF UnitPasses, HealthTypeOK
  <2>3. CheckAlone'
    BY <1>1, <1>t DEF UnitPasses, CheckAlone
  <2> QED BY <1>1, <1>t, <2>1, <2>2, <2>3, HealthFrame DEF UnitPasses
<1>2. CASE Renew \/ MoveNS
  <2>1. changes' \in 0..MaxChanges /\ regExp' \in Dates /\ regExp <= regExp' /\ ns' \in NSets
    BY <1>2, <1>t, <1>c DEF Renew, MoveNS, HealthTypeOK
  <2>2. HealthTypeOK'
    BY <1>2, <1>t, <2>1 DEF Renew, MoveNS, HealthTypeOK
  <2>3. CheckAlone'
    BY <1>2, <1>t DEF Renew, MoveNS, CheckAlone
  <2> QED BY <1>2, <1>t, <2>1, <2>2, <2>3, HealthFrame DEF Renew, MoveNS
<1>3. ASSUME NEW r \in Checkers, HealthCycle(r) PROVE HealthInv'
  <2>1. CASE UNCHANGED <<hlock, check>>
    <3>1. HealthTypeOK'
      BY <1>3, <1>t, <2>1 DEF HealthCycle, HealthTypeOK
    <3>2. CheckAlone'
      BY <1>t, <2>1 DEF CheckAlone
    <3> QED BY <1>3, <1>t, <2>1, <3>1, <3>2, HealthFrame DEF HealthCycle
  <2>2. CASE /\ hlock = Null /\ hlock' = r
             /\ check' = [check EXCEPT ![r] = [NoCheck EXCEPT !.pc = "list", !.at = unit]]
    <3>1. /\ check'[r] = [NoCheck EXCEPT !.pc = "list", !.at = unit]
          /\ \A q \in Checkers \ {r} : check'[q] = check[q]
      BY <1>t, <2>2
    <3>2. [NoCheck EXCEPT !.pc = "list", !.at = unit] \in Check
      BY <1>t, BlankCheck DEF Check
    <3>3. check'[r].pc = "list" /\ check'[r].at = unit
      BY <3>1 DEF NoCheck
    <3>4. HealthTypeOK'
      <4>1. check' \in [Checkers -> Check]
        BY <1>t, <2>2, <3>2
      <4> QED BY <1>3, <1>t, <2>2, <4>1 DEF HealthCycle, HealthTypeOK
    <3>5. \A q \in Checkers : check[q].pc = "idle"
      BY <1>t, <1>c, <2>2 DEF CheckAlone
    <3>6. CheckAlone'
      BY <2>2, <3>1, <3>5 DEF CheckAlone
    <3>7. unit' = unit /\ UNCHANGED <<row, regExp, told, warned, inBand, spoiled>>
      BY <1>3 DEF HealthCycle
    <3>8. LookInv(r)'
      BY <1>t, <3>3, <3>7 DEF LookInv
    <3> QED BY <1>t, <3>1, <3>3, <3>4, <3>5, <3>6, <3>7, <3>8, HealthFrame
  <2> QED BY <1>3, <2>1, <2>2 DEF HealthCycle
<1>4. ASSUME NEW r \in Checkers, listDomains(r) PROVE HealthInv'
  <2>1. /\ check[r].pc = "list" /\ check' = [check EXCEPT ![r].pc = "look", ![r].got = row]
        /\ UNCHANGED <<unit, regExp, ns, row, hlock, awake, told, warned, inBand, spoiled, changes, mishaps>>
    BY <1>4 DEF listDomains
  <2>2. /\ check'[r] = [check[r] EXCEPT !.pc = "look", !.got = row]
        /\ \A q \in Checkers \ {r} : check'[q] = check[q]
    BY <1>t, <2>1
  <2>3. check[r] \in Check
    BY <1>t
  <2>4. check'[r] \in Check /\ check'[r].pc = "look" /\ check'[r].got = row /\ check'[r].at = check[r].at
    BY <1>t, <2>2, <2>3 DEF Check
  <2>5. check' \in [Checkers -> Check]
    BY <1>t, <2>1, <2>2, <2>4
  <2>6. HealthTypeOK'
    BY <1>t, <2>1, <2>5 DEF HealthTypeOK
  <2>7. CheckAlone'
    BY <1>t, <2>1, <2>2 DEF CheckAlone
  <2>8. check[r].at <= unit
    BY <1>t, <2>1 DEF LookInv
  <2>9. LookInv(r)'
    BY <2>1, <2>4, <2>8 DEF LookInv
  <2> QED BY <1>t, <2>1, <2>2, <2>4, <2>6, <2>7, <2>9, HealthFrame
<1>5. ASSUME NEW r \in Checkers, checkAndPersist(r) PROVE HealthInv'
  <2>1. PICK rdap \in RDAPAnswers, cur \in {ns, Null} :
          LET exp == IF rdap.exp = Null THEN check[r].got.exp ELSE rdap.exp IN
          check' = [check EXCEPT ![r] =
            [@ EXCEPT !.pc = "persist", !.exp = exp, !.err = rdap.err, !.cur = cur,
                      !.alert = IF rdap.err \/ exp = Null THEN 0
                                ELSE expirationAlert(check[r].at, check[r].got.exp, check[r].got.ok, exp),
                      !.drift = cur # Null /\ nsDrift(check[r].got.base, cur)]]
    BY <1>5 DEF checkAndPersist
  <2>2. /\ check[r].pc = "look" /\ check[r].got = row /\ check[r].at <= unit
        /\ UNCHANGED <<unit, regExp, ns, row, hlock, awake, told, warned, inBand, spoiled, changes, mishaps>>
    BY <1>5, <1>t DEF checkAndPersist, LookInv
  <2> DEFINE exp == IF rdap.exp = Null THEN row.exp ELSE rdap.exp
             alert == IF rdap.err \/ exp = Null THEN 0
                      ELSE expirationAlert(check[r].at, row.exp, row.ok, exp)
             drift == cur # Null /\ nsDrift(row.base, cur)
  <2>3. check' = [check EXCEPT ![r] = [check[r] EXCEPT !.pc = "persist", !.exp = exp, !.err = rdap.err,
                                         !.cur = cur, !.alert = alert, !.drift = drift]]
    BY <1>t, <2>1, <2>2
  <2>4. /\ rdap.err \in BOOLEAN /\ rdap.exp \in {regExp, Null} /\ (rdap.err => rdap.exp = Null)
    <3>1. CASE rdap = [err |-> FALSE, exp |-> regExp]
      BY <3>1
    <3>2. CASE rdap = [err |-> FALSE, exp |-> Null]
      BY <3>2
    <3>3. CASE rdap = [err |-> TRUE, exp |-> Null]
      BY <3>3
    <3> QED BY <3>1, <3>2, <3>3 DEF RDAPAnswers
  <2>5. row.exp \in Dates \cup {Null} /\ row.ok \in 0..LastUnit \cup {Null} /\ check[r].at \in 0..LastUnit
    BY <1>t, RowFields, CheckFields
  <2>6. exp \in Dates \cup {Null} /\ (exp # Null => exp <= regExp)
    BY <1>t, <2>4, <2>5 DEF RowInv
  <2>7. /\ row.exp # Null => exp # Null /\ exp >= row.exp
        /\ rdap.err => exp = row.exp
    <3>1. row.exp # Null => row.exp <= regExp /\ row.exp \in Nat /\ row.exp >= row.exp
      BY <1>t, <2>5, Instants DEF RowInv
    <3>2. exp = row.exp \/ (exp = regExp /\ ~rdap.err)
      BY <2>4
    <3>3. regExp # Null
      BY <1>t, <1>c
    <3> QED BY <1>t, <3>1, <3>2, <3>3
  <2>8. alert \in Bands
    <3>1. CASE rdap.err \/ exp = Null
      BY <3>1 DEF Bands
    <3>2. CASE ~(rdap.err \/ exp = Null)
      <4>1. exp \in Nat /\ check[r].at \in Nat /\ check[r].at <= check[r].at
        BY <2>5, <2>6, <3>2, Instants
      <4>2. Band(check[r].at, exp) \in Bands
        BY <4>1, BandNarrows
      <4>3. alert \in {0, Band(check[r].at, exp)}
        BY <3>2 DEF expirationAlert, Band
      <4> QED BY <4>2, <4>3 DEF Bands
    <3> QED BY <3>1, <3>2
  <2>9. cur \in NSets \cup {Null} /\ drift \in BOOLEAN
    BY <1>t DEF HealthTypeOK
  <2> HIDE DEF exp, alert, drift
  <2>b. PICK err \in BOOLEAN, apart \in BOOLEAN : err = rdap.err /\ apart = drift
    BY <2>4, <2>9
  <2>10. /\ check'[r] = [check[r] EXCEPT !.pc = "persist", !.exp = exp, !.err = err,
                                         !.cur = cur, !.alert = alert, !.drift = apart]
         /\ \A q \in Checkers \ {r} : check'[q] = check[q]
    BY <1>t, <2>3, <2>b
  <2>11. check[r] \in Check
    BY <1>t
  <2>12. /\ check'[r] \in Check /\ check'[r].pc = "persist" /\ check'[r].exp = exp
         /\ check'[r].err = rdap.err /\ check'[r].alert = alert /\ check'[r].got = check[r].got
         /\ check'[r].at = check[r].at
    <3>1. /\ check'[r] \in Check /\ check'[r].pc = "persist" /\ check'[r].exp = exp
          /\ check'[r].err = err /\ check'[r].alert = alert /\ check'[r].got = check[r].got
          /\ check'[r].at = check[r].at
      BY <2>6, <2>8, <2>9, <2>10, <2>11, ZenonT(30) DEF Check
    <3> QED BY <2>b, <3>1
  <2>13. check' \in [Checkers -> Check]
    BY <1>t, <2>3, <2>10, <2>12
  <2>14. HealthTypeOK'
    BY <1>t, <2>2, <2>13 DEF HealthTypeOK
  <2>15. CheckAlone'
    BY <1>t, <2>2, <2>10 DEF CheckAlone
  <2>16. alert = IF rdap.err \/ exp = Null THEN 0 ELSE expirationAlert(check[r].at, row.exp, row.ok, exp)
    BY DEF alert
  <2>17. LookInv(r)'
    BY <2>2, <2>6, <2>7, <2>12, <2>16 DEF LookInv
  <2> QED BY <1>t, <2>2, <2>10, <2>12, <2>14, <2>15, <2>17, HealthFrame
<1>6. ASSUME NEW r \in Checkers, persistFails(r) \/ HealthCrash(r) PROVE HealthInv'
  <2>1. /\ EndCheck(r) /\ mishaps' \in 0..MaxMishaps
        /\ UNCHANGED <<unit, regExp, ns, row, awake, told, warned, inBand, changes>>
    BY <1>6, <1>m DEF persistFails, HealthCrash
  <2>2. spoiled' \in BOOLEAN /\ (spoiled => spoiled')
    BY <1>6, <1>t DEF persistFails, HealthCrash
  <2>3. check[r].pc = "notify" /\ check[r].alert # 0 => spoiled'
    BY <1>6 DEF persistFails, HealthCrash
  <2>4. HealthTypeOK'
    BY <1>t, <2>1, <2>2, EndCheckKept DEF HealthTypeOK
  <2>5. /\ CheckAlone' /\ check'[r].pc # "notify" /\ LookInv(r)'
        /\ \A q \in Checkers \ {r} : check'[q] = check[q]
    BY <2>1, EndCheckKept, IdleLooks
  <2> QED BY <1>t, <2>1, <2>2, <2>3, <2>4, <2>5, HealthFrame
<1> QED BY <1>1, <1>2, <1>3, <1>4, <1>5, <1>6

\* What expirationAlert answers, in terms of bands.
LEMMA AlertBand ==
  ASSUME NEW at, NEW exp
  PROVE  LET alert == expirationAlert(at, row.exp, row.ok, exp) IN
         /\ alert # 0 => alert = Band(at, exp) /\ ~(StoredBand # 0 /\ Band(at, exp) >= StoredBand)
         /\ alert = 0 => Band(at, exp) = 0 \/ (StoredBand # 0 /\ Band(at, exp) >= StoredBand)
  BY DEF expirationAlert, Band, StoredBand

\* The row a check stores.
LEMMA StoredRow ==
  ASSUME HealthTypeOK, NEW r \in Checkers, row' = setHealthCheckResult(check[r])
  PROVE  /\ row' \in Row /\ row'.exp = check[r].exp
         /\ row'.ok = IF check[r].err THEN row.ok ELSE unit
<1>1. /\ row \in Row /\ unit \in 0..LastUnit
  BY DEF HealthTypeOK
<1>2. /\ row.ok \in 0..LastUnit \cup {Null} /\ row.base \in NSets \cup {Null}
      /\ row.cur \in NSets \cup {Null} /\ row.drift \in BOOLEAN
  BY <1>1, RowFields
<1>3. /\ check[r].exp \in Dates \cup {Null} /\ check[r].cur \in NSets \cup {Null}
      /\ check[r].err \in BOOLEAN /\ check[r].drift \in BOOLEAN
  BY CheckFields
<1> DEFINE ok == IF check[r].err THEN row.ok ELSE unit
           cur == IF check[r].cur = Null THEN row.cur ELSE check[r].cur
           base == IF row.base = Null THEN check[r].cur ELSE row.base
           drift == IF check[r].cur = Null THEN row.drift ELSE check[r].drift
<1>4. ok \in 0..LastUnit \cup {Null} /\ cur \in NSets \cup {Null} /\ base \in NSets \cup {Null}
  BY <1>1, <1>2, <1>3
<1>5. drift \in BOOLEAN
  BY <1>2, <1>3
<1>6. row' = [row EXCEPT !.exp = check[r].exp, !.ok = ok, !.cur = cur, !.base = base, !.drift = drift]
  BY <1>1 DEF setHealthCheckResult, Row
<1>7. ok = IF check[r].err THEN row.ok ELSE unit
  OBVIOUS
<1> HIDE DEF ok, cur, base, drift
<1>8. PICK b \in BOOLEAN : b = drift
  BY <1>5
<1>9. row' \in Row /\ row'.exp = check[r].exp /\ row'.ok = ok
  BY <1>1, <1>3, <1>4, <1>6, <1>8 DEF Row
<1> QED BY <1>7, <1>9

\* The result is stored: the alert that follows is for a date and a threshold
\* that had none, and a crossing without one was alerted about before.
LEMMA PersistKept ==
  ASSUME HealthInv, NEW r \in Checkers, persist(r)
  PROVE  HealthInv'
<1> DEFINE c == check[r]
           fresh == ~c.err /\ c.exp # Null
           band == Band(c.at, c.exp)
           new == Band(unit, c.exp)
<1>s. /\ c.pc = "persist" /\ row' = setHealthCheckResult(c)
      /\ inBand' = (IF fresh THEN band ELSE inBand)
      /\ warned' = (IF fresh /\ band = 0 THEN {} ELSE warned)
      /\ spoiled' = (spoiled \/ (fresh /\ new # band))
      /\ check' = [check EXCEPT ![r].pc = "notify"]
      /\ UNCHANGED <<unit, regExp, ns, hlock, awake, told, changes, mishaps>>
  BY DEF persist, Band
<1>t. /\ HealthTypeOK /\ CheckAlone /\ RowInv /\ ToldInv /\ CrossingInv /\ LookInv(r)
      /\ check \in [Checkers -> Check] /\ row \in Row /\ unit \in 0..LastUnit /\ unit \in Nat
      /\ unit <= unit /\ regExp \in Nat /\ told \in [Dates -> [Thresholds -> 0..2]]
      /\ inBand \in Bands /\ spoiled \in BOOLEAN /\ warned \subseteq Thresholds
  BY HealthConstants DEF HealthInv, HealthTypeOK
<1>f. /\ c \in Check /\ c.at \in 0..LastUnit /\ c.at \in Nat /\ c.exp \in Dates \cup {Null}
      /\ c.err \in BOOLEAN /\ c.alert \in Bands
      /\ c.exp # Null => c.exp \in Dates /\ c.exp \in Nat
  <2>1. /\ c \in Check /\ c.at \in 0..LastUnit /\ c.exp \in Dates \cup {Null}
        /\ c.err \in BOOLEAN /\ c.alert \in Bands
    BY <1>t, CheckFields
  <2> QED BY <2>1, Instants
<1>w. /\ row.exp \in Dates \cup {Null} /\ row.ok \in 0..LastUnit \cup {Null}
      /\ row.exp # Null => row.exp \in Nat
      /\ row.ok # Null => row.ok \in Nat /\ row.ok <= unit
  <2>1. row.exp \in Dates \cup {Null} /\ row.ok \in 0..LastUnit \cup {Null}
    BY <1>t, RowFields
  <2> QED BY <1>t, <2>1, Instants DEF RowInv
<1>l. /\ c.at <= unit
      /\ c.exp # Null => c.exp <= regExp
      /\ row.exp # Null => c.exp # Null /\ c.exp >= row.exp
      /\ c.err => c.exp = row.exp
      /\ c.alert = IF c.err \/ c.exp = Null THEN 0 ELSE expirationAlert(c.at, row.exp, row.ok, c.exp)
  BY <1>s, <1>t DEF LookInv
<1>r. row' \in Row /\ row'.exp = c.exp /\ row'.ok = IF c.err THEN row.ok ELSE unit
  BY <1>s, <1>t, StoredRow
<1>o. \A q \in Checkers \ {r} : check[q].pc = "idle"
  BY <1>s, <1>t DEF CheckAlone
<1>n. /\ check'[r].pc = "notify" /\ check'[r].exp = c.exp /\ check'[r].alert = c.alert
      /\ check'[r].at = c.at /\ check'[r] \in Check
      /\ \A q \in Checkers \ {r} : check'[q] = check[q]
  <2>1. /\ check'[r] = [c EXCEPT !.pc = "notify"]
        /\ \A q \in Checkers \ {r} : check'[q] = check[q]
    BY <1>s, <1>t
  <2> HIDE DEF c
  <2> QED BY <1>f, <2>1 DEF Check
<1>b. StoredBand \in Nat
  BY <1>t, StoredBandType
<1>g. ASSUME fresh
      PROVE  /\ band \in Bands /\ band \in Nat /\ new \in Nat /\ StoredBand' = new
             /\ band # 0 => new # 0 /\ new <= band
             /\ row.exp = c.exp /\ StoredBand # 0 => new # 0 /\ new <= StoredBand
  <2>1. c.exp \in Nat /\ c.exp # Null /\ unit # Null
    BY <1>f, <1>g, <1>t, HealthConstants
  <2>2. band \in Bands /\ band \in Nat /\ new \in Nat /\ (band # 0 => new # 0 /\ new <= band)
    <3>1. c.at \in Nat /\ c.at <= unit /\ unit \in Nat /\ c.exp \in Nat
      BY <1>f, <1>l, <1>t, <2>1
    <3> HIDE DEF c
    <3> QED BY <3>1, BandNarrows
  <2>3. StoredBand' = new
    BY <1>g, <1>r, <1>s, <2>1 DEF StoredBand
  <2>4. ASSUME row.exp = c.exp, StoredBand # 0 PROVE new # 0 /\ new <= StoredBand
    <3>1. row.ok # Null /\ StoredBand = Band(row.ok, c.exp)
      BY <2>4 DEF StoredBand
    <3>2. row.ok \in Nat /\ row.ok <= unit
      BY <1>w, <3>1
    <3> QED BY <1>t, <2>1, <2>4, <3>1, <3>2, BandNarrows
  <2> QED BY <2>2, <2>3, <2>4
<1>h. ASSUME ~fresh
      PROVE  StoredBand' = StoredBand /\ c.alert = 0
  <2>1. CASE c.err
    BY <1>l, <1>r, <2>1 DEF StoredBand
  <2>2. CASE ~c.err /\ c.exp = Null
    BY <1>l, <1>r, <2>2 DEF StoredBand
  <2> QED BY <1>h, <2>1, <2>2
<1> HIDE DEF band, new
<1>1. HealthTypeOK'
  <2>1. check' \in [Checkers -> Check]
    BY <1>n, <1>s, <1>t
  <2>2. inBand' \in Bands
    BY <1>g, <1>s, <1>t
  <2>3. warned' \subseteq Thresholds
    BY <1>s, <1>t
  <2>4. spoiled' \in BOOLEAN
    BY <1>s
  <2> QED BY <1>r, <1>s, <1>t, <2>1, <2>2, <2>3, <2>4 DEF HealthTypeOK
<1>2. CheckAlone'
  BY <1>n, <1>s, <1>t DEF CheckAlone
<1>3. RowInv'
  <2>1. row'.ok # Null => row'.ok <= unit
    BY <1>r, <1>t, <1>w
  <2>2. row'.exp # Null => row'.exp <= regExp
    BY <1>l, <1>r
  <2>3. UNCHANGED <<unit, regExp>>
    BY <1>s
  <2> QED BY <2>1, <2>2, <2>3 DEF RowInv
<1>4. ToldInv'
  <2> SUFFICES ASSUME NEW d \in Dates, NEW k \in Thresholds, told[d][k] # 0
               PROVE  /\ told[d][k] = 1 /\ row'.exp # Null /\ d <= row'.exp
                      /\ row'.exp = d => StoredBand' # 0 /\ StoredBand' <= k
    BY <1>s DEF ToldInv, StoredBand
  <2>1. /\ told[d][k] = 1 /\ row.exp # Null /\ d <= row.exp
        /\ row.exp = d => StoredBand # 0 /\ StoredBand <= k
    BY <1>t DEF ToldInv
  <2>2. d \in Nat /\ k \in Nat /\ row.exp \in Nat /\ c.exp \in Nat
    BY <1>f, <1>l, <1>w, <2>1, HealthConstants
  <2>3. c.exp # Null /\ c.exp >= row.exp
    BY <1>l, <2>1
  <2>4. row'.exp # Null /\ d <= row'.exp /\ (row'.exp = d => row.exp = d)
    <3> HIDE DEF c
    <3> QED BY <1>r, <2>1, <2>2, <2>3
  <2>5. ASSUME row'.exp = d PROVE StoredBand' # 0 /\ StoredBand' <= k
    <3>1. row.exp = d /\ row.exp = c.exp /\ StoredBand # 0 /\ StoredBand <= k
      BY <1>r, <2>1, <2>4, <2>5
    <3>2. CASE fresh
      BY <1>b, <1>g, <2>2, <3>1, <3>2
    <3>3. CASE ~fresh
      BY <1>h, <3>1, <3>3
    <3> QED BY <3>2, <3>3
  <2> QED BY <2>1, <2>4, <2>5
<1>5. ASSUME NEW q \in Checkers PROVE LookInv(q)' /\ NotifyInv(q)'
  <2>1. CASE q # r
    <3>1. check'[q].pc = "idle"
      BY <1>n, <1>o, <2>1
    <3> QED BY <3>1 DEF LookInv, NotifyInv
  <2>2. CASE q = r
    <3>1. LookInv(q)'
      <4>1. check'[q].pc = "notify" /\ check'[q].at <= unit'
        BY <1>l, <1>n, <1>s, <2>2
      <4> QED BY <4>1 DEF LookInv
    <3>2. ASSUME c.alert # 0
          PROVE  /\ c.exp # Null /\ row'.exp = c.exp /\ row'.ok # Null
                 /\ told[c.exp][c.alert] = 0
                 /\ StoredBand' # 0 /\ StoredBand' <= c.alert
                 /\ inBand' = c.alert
      <4>1. fresh /\ c.alert = expirationAlert(c.at, row.exp, row.ok, c.exp)
        BY <1>l, <3>2
      <4>2. c.alert = band /\ ~(StoredBand # 0 /\ band >= StoredBand)
        BY <3>2, <4>1, AlertBand DEF band
      <4>3. row'.ok # Null
        BY <1>r, <1>t, <4>1, HealthConstants
      <4>4. StoredBand' # 0 /\ StoredBand' <= c.alert /\ inBand' = c.alert
        BY <1>g, <1>s, <3>2, <4>1, <4>2
      <4>5. told[c.exp][c.alert] = 0
        <5>1. c.alert \in Thresholds /\ c.exp \in Dates
          BY <1>f, <3>2, <4>1 DEF Bands
        <5>2. ASSUME told[c.exp][c.alert] # 0 PROVE FALSE
          <6>1. /\ row.exp # Null /\ c.exp <= row.exp
                /\ row.exp = c.exp => StoredBand # 0 /\ StoredBand <= c.alert
            BY <1>t, <5>1, <5>2 DEF ToldInv
          <6>2. row.exp = c.exp
            BY <1>f, <1>l, <1>w, <4>1, <6>1
          <6> QED BY <1>b, <1>g, <4>1, <4>2, <6>1, <6>2
        <5> QED BY <5>2
      <4> QED BY <1>r, <4>1, <4>3, <4>4, <4>5
    <3>3. NotifyInv(q)'
      BY <1>n, <1>s, <2>2, <3>2 DEF NotifyInv
    <3> QED BY <3>1, <3>3
  <2> QED BY <2>1, <2>2
<1>6. CrossingInv'
  <2> SUFFICES ASSUME ~spoiled'
               PROVE  /\ inBand' = StoredBand'
                      /\ inBand' # 0 /\ c.alert = 0 => \E k \in warned' : k <= inBand'
    BY <1>n DEF CrossingInv
  <2>1. ~spoiled /\ (fresh => new = band)
    BY <1>s
  <2>2. inBand = StoredBand /\ (inBand # 0 => \E k \in warned : k <= inBand)
    BY <1>o, <1>s, <1>t, <2>1 DEF CrossingInv
  <2>3. CASE fresh
    <3>1. inBand' = StoredBand'
      BY <1>g, <1>s, <2>1, <2>3
    <3>2. ASSUME inBand' # 0, c.alert = 0 PROVE \E k \in warned' : k <= inBand'
      <4>1. band # 0 /\ inBand' = band /\ warned' = warned
        BY <1>s, <2>3, <3>2
      <4>2. c.alert = expirationAlert(c.at, row.exp, row.ok, c.exp)
        BY <1>l, <2>3
      <4>3. StoredBand # 0 /\ band >= StoredBand
        BY <3>2, <4>1, <4>2, AlertBand DEF band
      <4>4. PICK k \in warned : k <= inBand
        BY <2>2, <4>3
      <4>5. k \in Nat
        BY <1>t, HealthConstants
      <4>6. k <= band
        BY <1>b, <1>g, <2>2, <2>3, <4>3, <4>4, <4>5
      <4> QED BY <4>1, <4>6
    <3> QED BY <3>1, <3>2
  <2>4. CASE ~fresh
    BY <1>h, <1>s, <2>2, <2>4
  <2> QED BY <2>3, <2>4
<1> QED BY <1>1, <1>2, <1>3, <1>4, <1>5, <1>6 DEF HealthInv

\* The alert leaves, or is lost and accounted for.
LEMMA NotifyKept ==
  ASSUME HealthInv, NEW r \in Checkers, notify(r)
  PROVE  HealthInv'
<1>t. /\ HealthTypeOK /\ CheckAlone /\ RowInv /\ ToldInv /\ CrossingInv /\ NotifyInv(r)
      /\ row \in Row /\ unit \in Nat /\ unit <= unit /\ regExp \in Nat /\ regExp <= regExp
      /\ told \in [Dates -> [Thresholds -> 0..2]] /\ warned \subseteq Thresholds
      /\ spoiled \in BOOLEAN
  BY HealthConstants DEF HealthInv, HealthTypeOK
<1>s. /\ check[r].pc = "notify" /\ EndCheck(r)
      /\ UNCHANGED <<unit, regExp, ns, row, awake, inBand, changes, mishaps>>
  BY DEF notify
<1>f. check[r].exp \in Dates \cup {Null} /\ check[r].alert \in Bands
  BY <1>t, CheckFields
<1>e. /\ check' \in [Checkers -> Check] /\ hlock' \in Checkers \cup {Null} /\ CheckAlone'
      /\ check'[r].pc = "idle" /\ \A q \in Checkers \ {r} : check'[q] = check[q]
  BY <1>s, EndCheckKept
<1>i. \A q \in Checkers : check'[q].pc = "idle"
  BY <1>s, <1>t, <1>e DEF CheckAlone
<1>1. CASE /\ check[r].alert # 0
           /\ told' = [told EXCEPT ![check[r].exp][check[r].alert] = IF @ < 2 THEN @ + 1 ELSE @]
           /\ warned' = warned \cup {check[r].alert}
           /\ UNCHANGED spoiled
  <2> DEFINE e == check[r].exp
             a == check[r].alert
  <2>1. /\ e # Null /\ row.exp = e /\ row.ok # Null /\ told[e][a] = 0
        /\ StoredBand # 0 /\ StoredBand <= a /\ inBand = a
    BY <1>1, <1>s, <1>t DEF NotifyInv
  <2>2. e \in Dates /\ a \in Thresholds /\ a \in Nat /\ e \in Nat
    BY <1>1, <1>f, <2>1, HealthConstants DEF Bands
  <2>3. told' = [told EXCEPT ![e] = [told[e] EXCEPT ![a] = IF told[e][a] < 2 THEN told[e][a] + 1 ELSE told[e][a]]]
    BY <1>1, <1>t, <2>2
  <2> HIDE DEF e, a
  <2>4. told' = [told EXCEPT ![e] = [told[e] EXCEPT ![a] = 1]]
    BY <2>1, <2>3
  <2>5. told[e] \in [Thresholds -> 0..2] /\ 1 \in 0..2
    BY <1>t, <2>2
  <2>6. /\ told' \in [Dates -> [Thresholds -> 0..2]]
        /\ \A d \in Dates, k \in Thresholds :
             told'[d][k] = IF d = e /\ k = a THEN 1 ELSE told[d][k]
    BY <1>t, <2>2, <2>4, <2>5
  <2>7. StoredBand' = StoredBand
    BY <1>s DEF StoredBand
  <2>8. HealthTypeOK'
    <3>1. warned' \subseteq Thresholds
      BY <1>1, <1>t, <2>2 DEF a
    <3> QED BY <1>1, <1>e, <1>s, <1>t, <2>6, <3>1 DEF HealthTypeOK
  <2>9. RowInv'
    BY <1>s, <1>t DEF RowInv
  <2>10. ToldInv'
    <3> SUFFICES ASSUME NEW d \in Dates, NEW k \in Thresholds, told'[d][k] # 0
                 PROVE  /\ told'[d][k] = 1 /\ row'.exp # Null /\ d <= row'.exp
                        /\ row'.exp = d => StoredBand' # 0 /\ StoredBand' <= k
      BY DEF ToldInv
    <3>1. CASE d = e /\ k = a
      BY <1>s, <2>1, <2>2, <2>6, <2>7, <3>1
    <3>2. CASE ~(d = e /\ k = a)
      <4>1. told'[d][k] = told[d][k]
        BY <2>6, <3>2
      <4> QED BY <1>s, <1>t, <2>7, <4>1 DEF ToldInv
    <3> QED BY <3>1, <3>2
  <2>11. CrossingInv'
    <3> SUFFICES ASSUME ~spoiled' PROVE inBand' = StoredBand' /\ \E k \in warned' : k <= inBand'
      BY DEF CrossingInv
    <3>1. inBand = StoredBand
      BY <1>1, <1>t DEF CrossingInv
    <3>2. a \in warned' /\ a <= inBand'
      BY <1>1, <1>s, <2>1, <2>2 DEF a
    <3> QED BY <1>s, <2>7, <3>1, <3>2
  <2>12. \A q \in Checkers : LookInv(q)' /\ NotifyInv(q)'
    BY <1>i DEF LookInv, NotifyInv
  <2> QED BY <1>e, <2>8, <2>9, <2>10, <2>11, <2>12 DEF HealthInv
<1>2. CASE spoiled' = (spoiled \/ check[r].alert # 0) /\ UNCHANGED <<told, warned>>
  <2>1. HealthTypeOK'
    BY <1>2, <1>e, <1>s, <1>t DEF HealthTypeOK
  <2>2. check'[r].pc # "notify" /\ LookInv(r)'
    BY <1>e, IdleLooks
  <2> QED BY <1>2, <1>e, <1>s, <1>t, <2>1, <2>2, HealthFrame
<1> QED BY <1>1, <1>2 DEF notify

LEMMA HealthStep ==
  ASSUME HealthInv, HealthNext
  PROVE  HealthInv'
  BY LookingKept, PersistKept, NotifyKept DEF HealthNext

-----------------------------------------------------------------------------
(* Proofs: both duties.                                                     *)

SchedulersInv == DigestInv /\ HealthInv

LEMMA DigestStarts == DigestInit => DigestInv
<1> SUFFICES ASSUME DigestInit PROVE DigestInv
  OBVIOUS
<1>1. NoPass \in Passing /\ NoPass.pc = "idle"
  BY DigestConstants DEF NoPass, Passing
<1>2. pass \in [Replicas -> Passing] /\ \A r \in Replicas : pass[r].pc = "idle"
  BY <1>1 DEF DigestInit
<1>3. DigestTypeOK
  BY <1>2, DigestConstants DEF DigestInit, DigestTypeOK, Passing
<1>4. DigestAlone /\ PassInv
  BY <1>2 DEF DigestAlone, PassInv
<1>5. MailedInv
  BY DEF DigestInit, MailedInv
<1> QED BY <1>3, <1>4, <1>5 DEF DigestInv

LEMMA HealthStarts == HealthInit => HealthInv
<1> SUFFICES ASSUME HealthInit PROVE HealthInv
  OBVIOUS
<1>1. \A r \in Checkers : check[r].pc = "idle"
  BY DEF HealthInit, NoCheck
<1>2. row.exp = Null /\ row.ok = Null
  BY DEF HealthInit, NoRow
<1>3. HealthTypeOK
  <2>1. told \in [Dates -> [Thresholds -> 0..2]] /\ check \in [Checkers -> Check]
    BY BlankCheck DEF HealthInit
  <2>2. unit \in 0..LastUnit /\ changes \in 0..MaxChanges /\ mishaps \in 0..MaxMishaps
    BY HealthConstants DEF HealthInit
  <2>3. inBand \in Bands /\ spoiled \in BOOLEAN /\ warned \subseteq Thresholds /\ awake \subseteq Checkers
    BY DEF HealthInit, Bands
  <2> QED BY <2>1, <2>2, <2>3, BlankCheck DEF HealthInit, HealthTypeOK
<1>4. StoredBand = 0
  BY <1>2 DEF StoredBand
<1>5. CheckAlone /\ RowInv /\ \A r \in Checkers : LookInv(r) /\ NotifyInv(r)
  BY <1>1, <1>2 DEF CheckAlone, RowInv, LookInv, NotifyInv
<1>6. ToldInv /\ CrossingInv
  BY <1>4 DEF HealthInit, ToldInv, CrossingInv
<1> QED BY <1>3, <1>5, <1>6 DEF HealthInv

LEMMA DigestStands ==
  ASSUME DigestInv, UNCHANGED digestVars
  PROVE  DigestInv'
<1>1. DigestTypeOK'
  BY DEF DigestInv, DigestTypeOK, digestVars
<1> QED BY <1>1, DigestFrame DEF DigestInv, DigestAlone, digestVars

LEMMA HealthStands ==
  ASSUME HealthInv, UNCHANGED healthVars
  PROVE  HealthInv'
<1>1. HealthTypeOK' /\ CheckAlone'
  BY DEF HealthInv, HealthTypeOK, CheckAlone, healthVars
<1>2. unit <= unit' /\ regExp <= regExp'
  BY HealthConstants DEF HealthInv, HealthTypeOK, healthVars
<1> QED BY <1>1, <1>2, HealthFrame DEF healthVars

LEMMA SchedulersKept ==
  ASSUME SchedulersInv, [Next]_vars
  PROVE  SchedulersInv'
<1>1. CASE Settings \/ UNCHANGED vars
  BY <1>1, DigestStands, HealthStands DEF SchedulersInv, Settings, vars, digestVars, healthVars
<1>2. CASE DigestNext /\ UNCHANGED healthVars
  BY <1>2, DigestStep, HealthStands DEF SchedulersInv
<1>3. CASE HealthNext /\ UNCHANGED digestVars
  BY <1>3, HealthStep, DigestStands DEF SchedulersInv
<1> QED BY <1>1, <1>2, <1>3 DEF Next

LEMMA SchedulersAlways == Spec => []SchedulersInv
<1>1. Init => SchedulersInv
  BY DigestStarts, HealthStarts DEF Init, SchedulersInv
<1>2. SchedulersInv /\ [Next]_vars => SchedulersInv'
  BY SchedulersKept
<1> QED BY <1>1, <1>2, PTL DEF Spec

\* Every marker, lock, stored row and alert count has its type, whatever the
\* replicas do.
THEOREM SchedulerTypes == Spec => [](DigestTypeOK /\ HealthTypeOK)
<1>1. SchedulersInv => DigestTypeOK /\ HealthTypeOK
  BY DEF SchedulersInv, DigestInv, HealthInv
<1> QED BY <1>1, SchedulersAlways, PTL

\* No user gets two digests less than digestMinInterval apart: the marker
\* committed before the mails and the leader lock keep them apart over
\* crashes, retries, changes of zone and any number of replicas.
THEOREM DigestsSpaced == Spec => DigestsApart
<1> DEFINE A == [\A u \in Users : (mailed'[u] # mailed[u] /\ mailed[u] # Null /\ losses = 0)
                                  => mailed'[u] - mailed[u] >= MinInterval]_<<mailed>>
<1>1. ASSUME SchedulersInv, [Next]_vars PROVE A
  <2> SUFFICES ASSUME NEW u \in Users, mailed'[u] # mailed[u], mailed[u] # Null, losses = 0
               PROVE  mailed'[u] - mailed[u] >= MinInterval
    OBVIOUS
  <2>1. PICK r \in Replicas : SendWeeklyDigest(r)
    BY <1>1 DEF Next, vars, Settings, digestVars, DigestNext, Tick, LoseLock, SetTimezone, runCycle,
                Missed, runOnce, runTenant, runTenantFails, DigestCrash
  <2>2. pass[r].pc = "send" /\ pass \in [Replicas -> Passing] /\ PassInv
    BY <1>1, <2>1 DEF SendWeeklyDigest, SchedulersInv, DigestInv, DigestTypeOK, Passing
  <2>3. PICK v \in pass[r].to : mailed' \in {mailed, [mailed EXCEPT ![v] = pass[r].at]}
    BY <2>1 DEF SendWeeklyDigest
  <2>4. mailed \in [Users -> 0..Horizon \cup {Null}]
    BY <1>1 DEF SchedulersInv, DigestInv, DigestTypeOK
  <2>5. u = v /\ mailed'[u] = pass[r].at
    BY <2>3, <2>4
  <2>6. Spaced(pass[r].at, mailed[u])
    BY <2>2, <2>5 DEF PassInv
  <2> QED BY <2>5, <2>6 DEF Spaced
<1>2. SchedulersInv /\ [Next]_vars => A
  BY <1>1
<1> QED BY <1>2, SchedulersAlways, PTL DEF Spec, DigestsApart

\* DHM-02: one alert for an expiration date and a threshold, whatever fails
\* and however often the night's cycle is run, since the stored result is what
\* the next check compares with.
THEOREM AlertsOnce == Spec => []AlertedOnce
<1>1. ASSUME SchedulersInv PROVE AlertedOnce
  <2> SUFFICES ASSUME NEW d \in Dates, NEW k \in Thresholds PROVE told[d][k] <= 1
    BY DEF AlertedOnce
  <2>1. told[d][k] = 0 \/ told[d][k] = 1
    BY <1>1 DEF SchedulersInv, HealthInv, ToldInv
  <2> QED BY <2>1
<1>2. SchedulersInv => AlertedOnce
  BY <1>1
<1> QED BY <1>2, SchedulersAlways, PTL

\* No crossing of a threshold stays unannounced, apart from the losses the
\* code accepts.
THEOREM CrossingsAlerted == Spec => []CrossingAlerted
<1>1. SchedulersInv => CrossingAlerted
  BY DEF SchedulersInv, HealthInv, CrossingInv, CrossingAlerted
<1> QED BY <1>1, SchedulersAlways, PTL

-----------------------------------------------------------------------------
(* The digest is not skipped.  A tenant always has a Monday 09:00 to come   *)
(* or just past, G, in whose window its digest is due; the passes reach it  *)
(* unless each tick since G has cost a fault of its own.                    *)

LastSent == IF sent = Null THEN 0 ELSE sent

\* A pass under way that will mark the digest of G, if it does not fail.
Marking(G) == \E r \in Replicas : pass[r].pc \in {"list", "tenant"} /\ pass[r].at >= G

\* The first replica that still wakes up in this tick gets the lock.
Fresh == lock = Null /\ woken # Replicas

\* b: the faults before G was the Monday to look for.
Chased(G, b) ==
  /\ now <= G + (faults - b)
  /\ now >= G => Marking(G) \/ Fresh \/ now + 1 <= G + (faults - b)

Target(G, b) ==
  /\ b <= faults /\ G > LastSent /\ (G - zone) % Week = 0
  /\ sent # Null => G - sent >= MinInterval
  /\ G <= LastSent + (IF moves = 0 THEN Week ELSE 2 * Week + b)
  /\ Chased(G, b)

\* Every tick that a pass lasts over costs a fault.
PassAges ==
  \A r \in Replicas : pass[r].pc # "idle" => pass[r].at <= now /\ now - pass[r].at <= faults

HolderBusy == lock # Null => pass[lock].pc # "idle"

InWindow(t) == t - weeklyDigestFire(t, zone) < CatchUp

DecidedInWindow ==
  moves = 0 => \A r \in Replicas : pass[r].pc = "tenant" => InWindow(pass[r].at)

PassTimes == PassAges /\ HolderBusy /\ DecidedInWindow

CatchInv == PassTimes /\ (moves <= 1 => \E G \in Int, b \in Nat : Target(G, b))

-----------------------------------------------------------------------------
LEMMA WeekConstants ==
  /\ Week \in Nat /\ Week > 0 /\ CatchUp \in Nat /\ MinInterval \in Nat /\ MinInterval + CatchUp <= Week
  /\ \A z \in Zones : z \in Int /\ 0 <= z /\ z < Week
<1>1. Week \in Nat
  BY DigestAssumption
<1> QED BY <1>1, DigestAssumption

LEMMA Remainder ==
  ASSUME NEW a \in Int
  PROVE  \E d, m \in Int : 0 <= m /\ m < Week /\ a = Week * d + m /\ m = a % Week
<1> DEFINE d == a \div Week
           m == a % Week
<1>1. Week \in Nat /\ Week > 0
  BY WeekConstants
<1>2. d \in Int /\ m \in Int /\ 0 <= m /\ m < Week /\ a = Week * d + m /\ m = a % Week
  BY <1>1
<1> HIDE DEF d, m
<1> QED BY <1>2

LEMMA RemainderIs ==
  ASSUME NEW a \in Int, NEW k \in Int, NEW r \in Int, 0 <= r, r < Week, a = k * Week + r
  PROVE  a % Week = r
<1>1. Week \in Nat /\ Week > 0
  BY WeekConstants
<1>2. PICK d \in Int, m \in Int : 0 <= m /\ m < Week /\ a = Week * d + m /\ m = a % Week
  BY Remainder
<1>3. CASE d >= k + 1
  <2>1. Week * d >= Week * (k + 1) /\ Week * (k + 1) = k * Week + Week
    BY <1>1, <1>2, <1>3
  <2>2. Week * d \in Int /\ k * Week \in Int
    BY <1>1, <1>2
  <2> QED BY <1>1, <1>2, <2>1, <2>2
<1>4. CASE k >= d + 1
  <2>1. Week * k >= Week * (d + 1) /\ Week * (d + 1) = Week * d + Week /\ Week * k = k * Week
    BY <1>1, <1>2, <1>4
  <2>2. Week * d \in Int /\ k * Week \in Int
    BY <1>1, <1>2
  <2> QED BY <1>1, <1>2, <2>1, <2>2
<1>5. CASE d = k
  <2>1. Week * d = k * Week /\ k * Week \in Int
    BY <1>1, <1>5
  <2>2. m = r
    BY <1>2, <2>1
  <2> QED BY <1>2, <2>2
<1> QED BY <1>2, <1>3, <1>4, <1>5

\* The Mondays of a zone are a week apart.
LEMMA MondaysApart ==
  ASSUME NEW z \in Int, NEW g \in Int
  PROVE  (g - z) % Week = 0 <=> \E k \in Int : g - z = k * Week
<1>1. Week \in Nat /\ Week > 0
  BY WeekConstants
<1>2. ASSUME (g - z) % Week = 0 PROVE \E k \in Int : g - z = k * Week
  <2>1. PICK a \in Int : a = g - z
    OBVIOUS
  <2>2. PICK d \in Int, m \in Int : a = Week * d + m /\ m = a % Week
    BY Remainder
  <2>3. a = Week * d + 0
    BY <1>2, <2>1, <2>2
  <2>4. a = d * Week
    BY <1>1, <2>3
  <2> QED BY <2>1, <2>4
<1>3. ASSUME NEW k \in Int, g - z = k * Week PROVE (g - z) % Week = 0
  <2>1. g - z \in Int /\ k * Week \in Int /\ g - z = k * Week + 0
    BY <1>1, <1>3
  <2> QED BY <1>1, <2>1, RemainderIs
<1> QED BY <1>2, <1>3

LEMMA FireIs ==
  ASSUME NEW z \in Int, NEW g \in Int, (g - z) % Week = 0, NEW t \in Int, g <= t, t < g + Week
  PROVE  weeklyDigestFire(t, z) = g
<1>1. PICK k \in Int : g - z = k * Week
  BY MondaysApart
<1>2. k * Week \in Int /\ t - z = k * Week + (t - g)
  BY <1>1, WeekConstants
<1>3. (t - z) % Week = t - g
  BY <1>2, RemainderIs, WeekConstants
<1> QED BY <1>3 DEF weeklyDigestFire

LEMMA FireBefore ==
  ASSUME NEW z \in Int, NEW t \in Int
  PROVE  \E f, g \in Int : /\ weeklyDigestFire(t, z) = f /\ f <= t /\ t < f + Week
                           /\ g = f + Week /\ (g - z) % Week = 0
<1>1. Week \in Nat /\ Week > 0
  BY WeekConstants
<1>2. PICK a \in Int : a = t - z
  OBVIOUS
<1>3. PICK d \in Int, m \in Int : 0 <= m /\ m < Week /\ a = Week * d + m /\ m = a % Week
  BY Remainder
<1>4. weeklyDigestFire(t, z) = t - m
  BY <1>2, <1>3 DEF weeklyDigestFire
<1>5. PICK n \in Int : n = (t - m) + Week
  BY <1>1
<1>6. d + 1 \in Int /\ n - z = (d + 1) * Week
  <2>1. (d + 1) * Week = Week * d + Week /\ Week * d \in Int
    BY <1>1
  <2> QED BY <1>1, <1>2, <1>3, <1>5, <2>1
<1>7. (n - z) % Week = 0
  BY <1>6, MondaysApart
<1>8. t - m \in Int /\ t - m <= t /\ t < (t - m) + Week
  BY <1>1, <1>3
<1> QED BY <1>4, <1>5, <1>7, <1>8

\* The first Monday from x on.
LEMMA NextFire ==
  ASSUME NEW z \in Int, NEW x \in Int
  PROVE  \E g \in Int : g >= x /\ g < x + Week /\ (g - z) % Week = 0
<1>1. PICK y \in Int : y = x - 1
  OBVIOUS
<1>2. PICK f \in Int, g \in Int : f <= y /\ y < f + Week /\ g = f + Week /\ (g - z) % Week = 0
  BY FireBefore
<1>3. g >= x /\ g < x + Week
  BY <1>1, <1>2, WeekConstants
<1> QED BY <1>2, <1>3

-----------------------------------------------------------------------------
LEMMA CatchTypes ==
  ASSUME DigestTypeOK
  PROVE  /\ pass \in [Replicas -> Passing] /\ now \in Nat /\ faults \in Nat /\ faults <= MaxFaults
         /\ MaxFaults \in Nat /\ moves \in Nat /\ zone \in Int /\ lock \in Replicas \cup {Null}
         /\ sent \in Nat \cup {Null} /\ LastSent \in Nat /\ Null \notin Nat /\ Null \notin Replicas
         /\ \A r \in Replicas : pass[r].at \in Nat
<1>1. pass \in [Replicas -> Passing] /\ \A r \in Replicas : pass[r].at \in 0..Horizon
  BY DEF DigestTypeOK, Passing
<1>2. /\ now \in 0..Horizon /\ faults \in 0..MaxFaults /\ moves \in 0..MaxMoves /\ zone \in Zones
      /\ lock \in Replicas \cup {Null} /\ sent \in 0..Horizon \cup {Null}
  BY DEF DigestTypeOK
<1>3. /\ now \in Nat /\ faults \in Nat /\ faults <= MaxFaults /\ MaxFaults \in Nat
      /\ moves \in Nat /\ zone \in Int
  BY <1>2, DigestConstants, WeekConstants
<1>4. sent \in Nat \cup {Null} /\ LastSent \in Nat
  BY <1>2, DigestConstants DEF LastSent
<1>5. \A r \in Replicas : pass[r].at \in Nat
  BY <1>1, DigestConstants
<1>6. Null \notin Nat /\ Null \notin Replicas
  BY DigestAssumption
<1> QED BY <1>1, <1>2, <1>3, <1>4, <1>5, <1>6

\* What the target asks of a step that neither marks nor moves the clock or
\* the zone.
LEMMA CatchFrame ==
  ASSUME DigestTypeOK, DigestTypeOK', CatchInv, UNCHANGED <<now, zone, sent, moves>>,
         HolderBusy',
         \A r \in Replicas : pass'[r].pc # "idle" =>
           (pass[r].pc # "idle" /\ pass'[r].at = pass[r].at) \/ pass'[r].at = now,
         \A r \in Replicas : pass'[r].pc = "tenant" =>
           (pass[r].pc = "tenant" /\ pass'[r].at = pass[r].at) \/ InWindow(pass'[r].at),
         \/ faults' = faults + 1
         \/ /\ faults' = faults
            /\ \A G \in Int, b \in Nat :
                 (Target(G, b) /\ now >= G /\ (Marking(G) \/ Fresh)) => Marking(G)' \/ Fresh'
  PROVE  CatchInv'
<1>1. /\ now \in Nat /\ faults \in Nat /\ faults' \in Nat /\ faults <= faults'
      /\ \A r \in Replicas : pass[r].at \in Nat
  BY CatchTypes
<1>2. PassAges'
  BY <1>1 DEF PassAges, PassTimes, CatchInv
<1>3. DecidedInWindow'
  BY DEF DecidedInWindow, InWindow, PassTimes, CatchInv
<1>4. ASSUME NEW G \in Int, NEW b \in Nat, Target(G, b) PROVE Target(G, b)'
  <2>1. Chased(G, b)'
    BY <1>1, <1>4 DEF Target, Chased
  <2> QED BY <1>1, <1>4, <2>1 DEF Target, LastSent
<1>5. moves' <= 1 => \E G \in Int, b \in Nat : Target(G, b)'
  BY <1>4 DEF CatchInv
<1> QED BY <1>2, <1>3, <1>5 DEF CatchInv, PassTimes

\* A digest is due in the window of its target.
LEMMA DueInWindow ==
  ASSUME DigestTypeOK, MaxFaults < CatchUp, NEW G \in Int, NEW b \in Nat, Target(G, b),
         NEW t \in Nat, t >= G, t <= now
  PROVE  digestDue(t, zone, sent) /\ InWindow(t)
<1>1. /\ now \in Nat /\ faults \in Nat /\ faults <= MaxFaults /\ MaxFaults \in Nat /\ zone \in Int
      /\ sent \in Nat \cup {Null} /\ LastSent \in Nat
  BY CatchTypes
<1>2. now <= G + (faults - b) /\ (G - zone) % Week = 0 /\ G > LastSent /\ (sent # Null => G - sent >= MinInterval)
  BY DEF Target, Chased
<1>3. t - G < CatchUp /\ t < G + Week
  BY <1>1, <1>2, WeekConstants
<1>4. weeklyDigestFire(t, zone) = G
  BY <1>1, <1>2, <1>3, FireIs
<1>5. InWindow(t)
  BY <1>3, <1>4 DEF InWindow
<1>6. sent # Null => t - sent >= MinInterval
  BY <1>1, <1>2, WeekConstants
<1> QED BY <1>2, <1>3, <1>4, <1>5, <1>6 DEF digestDue, LastSent

\* A pass that ends takes nothing else with it.
LEMMA FinishFrees ==
  ASSUME DigestTypeOK, HolderBusy, NEW r \in Replicas, Finish(r)
  PROVE  /\ HolderBusy' /\ pass'[r].pc = "idle" /\ \A q \in Replicas \ {r} : pass'[q] = pass[q]
         /\ lock = Null => lock' = Null
<1>1. pass \in [Replicas -> Passing] /\ Null \notin Replicas /\ lock \in Replicas \cup {Null}
  BY CatchTypes
<1>2. pass'[r].pc = "idle" /\ \A q \in Replicas \ {r} : pass'[q] = pass[q]
  BY <1>1 DEF Finish, NoPass
<1>3. lock' = IF lock = r THEN Null ELSE lock
  BY DEF Finish
<1>4. HolderBusy'
  BY <1>1, <1>2, <1>3 DEF HolderBusy
<1> QED BY <1>1, <1>2, <1>3, <1>4

LEMMA TickCatches ==
  ASSUME DigestTypeOK, DigestTypeOK', CatchInv, Replicas # {}, Tick
  PROVE  CatchInv'
<1> DEFINE busy == {r \in Replicas : pass[r].pc # "idle"}
<1>1. /\ woken = Replicas /\ now' = now + 1 /\ woken' = busy
      /\ UNCHANGED <<zone, sent, lock, pass, moves>>
      /\ IF busy = {} THEN faults' = faults ELSE faults' = faults + 1
  BY DEF Tick, Fault
<1>2. /\ now \in Nat /\ faults \in Nat /\ lock \in Replicas \cup {Null}
      /\ \A r \in Replicas : pass[r].at \in Nat
  BY CatchTypes
<1>3. PassAges'
  BY <1>1, <1>2 DEF PassAges, PassTimes, CatchInv
<1>4. HolderBusy' /\ DecidedInWindow'
  BY <1>1 DEF HolderBusy, DecidedInWindow, InWindow, PassTimes, CatchInv
<1>5. busy = {} => Fresh'
  BY <1>1, <1>2 DEF Fresh, HolderBusy, PassTimes, CatchInv
<1>6. ASSUME NEW G \in Int, NEW b \in Nat, Target(G, b) PROVE Target(G, b)'
  <2>1. b <= faults /\ Chased(G, b) /\ ~Fresh /\ (Marking(G) => Marking(G)' /\ busy # {})
    BY <1>1, <1>6 DEF Target, Fresh, Marking
  <2> HIDE DEF busy
  <2>2. now' <= G + (faults' - b)
    BY <1>1, <1>2, <2>1 DEF Chased
  <2>3. now' >= G => Marking(G)' \/ Fresh' \/ now' + 1 <= G + (faults' - b)
    <3>1. CASE busy = {}
      BY <1>5, <3>1
    <3>2. CASE busy # {}
      BY <1>1, <1>2, <2>1, <3>2 DEF Chased
    <3> QED BY <3>1, <3>2
  <2>4. Chased(G, b)'
    BY <2>2, <2>3 DEF Chased
  <2>5. b <= faults'
    BY <1>1, <1>2, <2>1
  <2> QED BY <1>1, <1>6, <2>4, <2>5 DEF Target, LastSent
<1>7. moves' <= 1 => \E G \in Int, b \in Nat : Target(G, b)'
  BY <1>1, <1>6 DEF CatchInv
<1> QED BY <1>3, <1>4, <1>7 DEF CatchInv, PassTimes

LEMMA MoveCatches ==
  ASSUME DigestTypeOK, DigestTypeOK', CatchInv, SetTimezone
  PROVE  CatchInv'
<1>1. moves' = moves + 1 /\ UNCHANGED <<now, sent, lock, pass, woken, faults>>
  BY DEF SetTimezone
<1>2. /\ now \in Nat /\ faults \in Nat /\ moves \in Nat /\ zone' \in Int
      /\ sent \in Nat \cup {Null} /\ LastSent \in Nat /\ Null \notin Nat
  BY CatchTypes, WeekConstants DEF DigestTypeOK
<1>3. PassAges' /\ HolderBusy' /\ DecidedInWindow'
  BY <1>1, <1>2 DEF PassAges, HolderBusy, DecidedInWindow, PassTimes, CatchInv
<1>4. ASSUME moves' <= 1 PROVE \E G \in Int, b \in Nat : Target(G, b)'
  <2>1. moves = 0 /\ moves' # 0
    BY <1>1, <1>2, <1>4
  <2>2. now <= LastSent + Week + faults
    BY <1>2, <2>1, WeekConstants DEF CatchInv, Target, Chased
  <2>3. PICK x \in Int : /\ x > now /\ x > LastSent /\ x >= LastSent + MinInterval
                         /\ x <= LastSent + Week + faults + 1
    <3>1. PICK y \in Int : /\ y >= LastSent + 1 /\ y >= LastSent + MinInterval /\ y <= LastSent + Week + faults + 1
      <4>1. CASE MinInterval = 0
        <5>1. LastSent + 1 \in Int /\ LastSent + 1 >= LastSent + MinInterval /\ LastSent + 1 <= LastSent + Week + faults + 1
          BY <1>2, <4>1, WeekConstants
        <5> QED BY <5>1
      <4>2. CASE MinInterval # 0
        <5>1. /\ LastSent + MinInterval \in Int /\ LastSent + MinInterval >= LastSent + 1
              /\ LastSent + MinInterval <= LastSent + Week + faults + 1
          BY <1>2, <4>2, WeekConstants
        <5> QED BY <5>1
      <4> QED BY <4>1, <4>2
    <3>2. PICK t \in Int : t = now + 1
      BY <1>2
    <3>3. CASE y >= t
      BY <1>2, <3>1, <3>2, <3>3
    <3>4. CASE y < t
      <4>1. t > now /\ t > LastSent /\ t >= LastSent + MinInterval /\ t <= LastSent + Week + faults + 1
        BY <1>2, <2>2, <3>1, <3>2, <3>4, WeekConstants
      <4> QED BY <4>1
    <3> QED BY <3>1, <3>2, <3>3, <3>4
  <2>4. PICK G \in Int : G >= x /\ G < x + Week /\ (G - zone') % Week = 0
    BY <1>2, NextFire
  <2>5. G > now /\ G > LastSent /\ G - LastSent >= MinInterval /\ G <= LastSent + (2 * Week + faults)
    BY <1>2, <2>3, <2>4, WeekConstants
  <2>6. LastSent' = LastSent /\ (sent # Null => LastSent = sent)
    BY <1>1 DEF LastSent
  <2>7. PICK b \in Nat : b = faults
    BY <1>2
  <2>8. Target(G, b)'
    BY <1>1, <1>2, <2>1, <2>4, <2>5, <2>6, <2>7 DEF Target, Chased
  <2> QED BY <2>8
<1> QED BY <1>3, <1>4 DEF CatchInv, PassTimes

\* A new marker: the target is the Monday after it, or the first one far
\* enough from it.
LEMMA MarkCatches ==
  ASSUME DigestTypeOK, DigestTypeOK', CatchInv, NEW r \in Replicas, runTenant(r)
  PROVE  CatchInv'
<1> DEFINE to == ResolveEnabledForUsers("weekly_digest")
<1>1. /\ pass[r].pc = "tenant" /\ sent' = pass[r].at
      /\ \/ Finish(r)
         \/ pass' = [pass EXCEPT ![r].pc = "send", ![r].to = to] /\ UNCHANGED lock
      /\ UNCHANGED <<now, zone, woken, moves, faults>>
  BY DEF runTenant
<1> HIDE DEF to
<1>2. /\ now \in Nat /\ faults \in Nat /\ moves \in Nat /\ zone \in Int /\ Null \notin Nat
      /\ lock \in Replicas \cup {Null} /\ pass \in [Replicas -> Passing] /\ pass[r].at \in Nat
  BY CatchTypes
<1>3. \A q \in Replicas : /\ pass'[q].pc # "idle" => pass[q].pc # "idle" /\ pass'[q].at = pass[q].at
                          /\ pass'[q].pc = "tenant" => pass[q].pc = "tenant"
  <2>1. CASE Finish(r)
    BY <2>1, FinishFrees DEF CatchInv, PassTimes
  <2>2. CASE pass' = [pass EXCEPT ![r].pc = "send", ![r].to = to]
    <3>1. pass'[r] = [pass[r] EXCEPT !.pc = "send", !.to = to]
          /\ \A q \in Replicas \ {r} : pass'[q] = pass[q]
      BY <1>2, <2>2
    <3>2. pass[r] \in Passing
      BY <1>2
    <3>3. pass'[r].pc = "send" /\ pass'[r].at = pass[r].at
      BY <3>1, <3>2 DEF Passing
    <3> QED BY <1>1, <3>1, <3>3
  <2> QED BY <1>1, <2>1, <2>2
<1>4. HolderBusy'
  <2>1. CASE Finish(r)
    BY <2>1, FinishFrees DEF CatchInv, PassTimes
  <2>2. CASE pass' = [pass EXCEPT ![r].pc = "send", ![r].to = to] /\ UNCHANGED lock
    <3>1. \A q \in Replicas : pass[q].pc # "idle" => pass'[q].pc # "idle"
      BY <1>2, <2>2 DEF Passing
    <3> QED BY <1>2, <2>2, <3>1 DEF HolderBusy, CatchInv, PassTimes
  <2> QED BY <1>1, <2>1, <2>2
<1>5. PassAges' /\ DecidedInWindow'
  BY <1>1, <1>3 DEF PassAges, DecidedInWindow, InWindow, PassTimes, CatchInv
<1>6. PICK s \in Nat : s = pass[r].at
  BY <1>2
<1>7. s <= now /\ now - s <= faults /\ LastSent' = s /\ sent' = s
  BY <1>1, <1>2, <1>6 DEF PassAges, PassTimes, CatchInv, LastSent
<1>8. ASSUME NEW G \in Int, G > s, G - s >= MinInterval, (G - zone) % Week = 0,
             G <= s + (IF moves = 0 THEN Week ELSE 2 * Week)
      PROVE  Target(G, 0)'
  <2>1. G <= s + (IF moves' = 0 THEN Week ELSE 2 * Week + 0)
    BY <1>1, <1>8, WeekConstants
  <2>2. Chased(G, 0)'
    BY <1>1, <1>2, <1>7, <1>8 DEF Chased
  <2>3. 0 <= faults'
    BY <1>1, <1>2
  <2> QED BY <1>1, <1>7, <1>8, <2>1, <2>2, <2>3 DEF Target
<1>9. CASE moves = 0
  <2>1. InWindow(s)
    BY <1>1, <1>6, <1>9 DEF DecidedInWindow, PassTimes, CatchInv
  <2>2. PICK f \in Int, G \in Int : /\ weeklyDigestFire(s, zone) = f /\ f <= s /\ s < f + Week
                                   /\ G = f + Week /\ (G - zone) % Week = 0
    <3>1. s \in Int /\ zone \in Int
      BY <1>2
    <3> QED BY <3>1, FireBefore
  <2>3. G > s /\ G <= s + Week /\ G - s >= MinInterval
    BY <2>1, <2>2, WeekConstants DEF InWindow
  <2>4. Target(G, 0)'
    BY <1>8, <1>9, <2>2, <2>3
  <2> QED BY <1>4, <1>5, <2>4 DEF CatchInv, PassTimes
<1>10. CASE moves # 0
  <2>1. PICK x \in Int : x > s /\ x - s >= MinInterval /\ x <= s + Week
    <3>1. CASE MinInterval = 0
      <4>1. s + 1 \in Int /\ s + 1 > s /\ (s + 1) - s >= MinInterval /\ s + 1 <= s + Week
        BY <3>1, WeekConstants
      <4> QED BY <4>1
    <3>2. CASE MinInterval # 0
      <4>1. /\ s + MinInterval \in Int /\ s + MinInterval > s /\ (s + MinInterval) - s >= MinInterval
            /\ s + MinInterval <= s + Week
        BY <3>2, WeekConstants
      <4> QED BY <4>1
    <3> QED BY <3>1, <3>2
  <2>2. PICK G \in Int : G >= x /\ G < x + Week /\ (G - zone) % Week = 0
    BY <1>2, NextFire
  <2>3. G > s /\ G - s >= MinInterval /\ G <= s + 2 * Week
    BY <2>1, <2>2, WeekConstants
  <2>4. Target(G, 0)'
    BY <1>8, <1>10, <2>2, <2>3
  <2> QED BY <1>4, <1>5, <2>4 DEF CatchInv, PassTimes
<1> QED BY <1>9, <1>10

LEMMA CatchStep ==
  ASSUME DigestTypeOK, DigestTypeOK', CatchInv, DigestNext, MaxFaults < CatchUp, Replicas # {}
  PROVE  CatchInv'
<1>1. /\ pass \in [Replicas -> Passing] /\ now \in Nat /\ Null \notin Replicas
      /\ lock \in Replicas \cup {Null} /\ \A r \in Replicas : pass[r].at \in Nat
  BY CatchTypes
<1>2. PassAges /\ HolderBusy /\ DecidedInWindow
  BY DEF CatchInv, PassTimes
<1>3. CASE Tick
  BY <1>3, TickCatches
<1>4. CASE SetTimezone
  BY <1>4, MoveCatches
<1>5. ASSUME NEW r \in Replicas, runTenant(r) PROVE CatchInv'
  BY <1>5, MarkCatches
<1>6. CASE LoseLock
  <2>1. UNCHANGED <<now, zone, sent, moves, faults, pass, woken>> /\ lock' = Null /\ HolderBusy'
    BY <1>6 DEF LoseLock, HolderBusy
  <2>2. \A G \in Int : Marking(G) \/ Fresh => Marking(G)' \/ Fresh'
    BY <2>1 DEF Marking, Fresh
  <2> QED BY <2>1, <2>2, CatchFrame
<1>7. ASSUME NEW r \in Replicas, runCycle(r) PROVE CatchInv'
  <2>1. UNCHANGED <<now, zone, sent, moves, faults>>
    BY <1>7 DEF runCycle
  <2>2. CASE lock = Null /\ lock' = r /\ pass' = [pass EXCEPT ![r].pc = "list", ![r].at = now]
    <3>1. pass[r] \in Passing
      BY <1>1
    <3>2. /\ pass'[r].pc = "list" /\ pass'[r].at = now
          /\ \A q \in Replicas \ {r} : pass'[q] = pass[q]
      BY <1>1, <2>2, <3>1 DEF Passing
    <3>3. HolderBusy'
      BY <2>2, <3>2 DEF HolderBusy
    <3>4. \A G \in Int : now >= G => Marking(G)'
      BY <3>2 DEF Marking
    <3>5. \A q \in Replicas :
            /\ pass'[q].pc # "idle" => (pass[q].pc # "idle" /\ pass'[q].at = pass[q].at) \/ pass'[q].at = now
            /\ pass'[q].pc = "tenant" => pass[q].pc = "tenant" /\ pass'[q].at = pass[q].at
      BY <3>2
    <3> QED BY <2>1, <3>3, <3>4, <3>5, CatchFrame
  <2>3. CASE lock # Null /\ UNCHANGED <<lock, pass>>
    <3>1. HolderBusy'
      BY <1>2, <2>3 DEF HolderBusy
    <3>2. \A G \in Int : Marking(G) \/ Fresh => Marking(G)'
      BY <2>3 DEF Marking, Fresh
    <3> QED BY <2>1, <2>3, <3>1, <3>2, CatchFrame
  <2> QED BY <1>7, <2>2, <2>3 DEF runCycle
<1>8. ASSUME NEW r \in Replicas, Missed(r) PROVE CatchInv'
  <2>1. UNCHANGED <<now, zone, sent, moves, pass, lock>> /\ faults' = faults + 1
    BY <1>8 DEF Missed, Fault
  <2>2. HolderBusy'
    BY <1>2, <2>1 DEF HolderBusy
  <2> QED BY <2>1, <2>2, CatchFrame
<1>9. ASSUME NEW r \in Replicas, Finish(r), UNCHANGED <<now, zone, sent, moves>>, faults' = faults + 1
      PROVE  CatchInv'
  <2>1. HolderBusy' /\ pass'[r].pc = "idle" /\ \A q \in Replicas \ {r} : pass'[q] = pass[q]
    BY <1>2, <1>9, FinishFrees
  <2> QED BY <1>9, <2>1, CatchFrame
<1>10. ASSUME NEW r \in Replicas, Finish(r), UNCHANGED <<now, zone, sent, moves, woken, faults>>,
              \A G \in Int, b \in Nat :
                Target(G, b) => ~(pass[r].pc \in {"list", "tenant"} /\ pass[r].at >= G)
       PROVE  CatchInv'
  <2>1. /\ HolderBusy' /\ pass'[r].pc = "idle" /\ \A q \in Replicas \ {r} : pass'[q] = pass[q]
        /\ lock = Null => lock' = Null
    BY <1>2, <1>10, FinishFrees
  <2>2. ASSUME NEW G \in Int, NEW b \in Nat, Target(G, b), Marking(G) \/ Fresh
        PROVE  Marking(G)' \/ Fresh'
    <3>1. ASSUME Marking(G) PROVE Marking(G)'
      <4>1. PICK q \in Replicas : pass[q].pc \in {"list", "tenant"} /\ pass[q].at >= G
        BY <3>1 DEF Marking
      <4>2. q # r
        BY <1>10, <2>2, <4>1
      <4> QED BY <2>1, <4>1, <4>2 DEF Marking
    <3>2. ASSUME Fresh PROVE Fresh'
      BY <1>10, <2>1, <3>2 DEF Fresh
    <3> QED BY <2>2, <3>1, <3>2
  <2> QED BY <1>10, <2>1, <2>2, CatchFrame
<1>11. ASSUME NEW r \in Replicas, runOnce(r) PROVE CatchInv'
  <2>1. pass[r].pc = "list" /\ UNCHANGED <<now, zone, sent, moves, woken, faults>>
    BY <1>11 DEF runOnce
  <2>2. CASE digestDue(pass[r].at, zone, sent) /\ pass' = [pass EXCEPT ![r].pc = "tenant"] /\ UNCHANGED lock
    <3>1. pass[r] \in Passing
      BY <1>1
    <3>2. /\ pass'[r].pc = "tenant" /\ pass'[r].at = pass[r].at
          /\ \A q \in Replicas \ {r} : pass'[q] = pass[q]
      BY <1>1, <2>2, <3>1 DEF Passing
    <3>3. HolderBusy'
      BY <1>2, <2>2, <3>2 DEF HolderBusy
    <3>4. InWindow(pass[r].at)
      BY <2>2 DEF digestDue, InWindow
    <3>5. \A G \in Int : Marking(G) \/ Fresh => Marking(G)' \/ Fresh'
      BY <2>1, <2>2, <3>2 DEF Marking, Fresh
    <3>6. \A q \in Replicas :
            /\ pass'[q].pc # "idle" => pass[q].pc # "idle" /\ pass'[q].at = pass[q].at
            /\ pass'[q].pc = "tenant" => \/ pass[q].pc = "tenant" /\ pass'[q].at = pass[q].at
                                         \/ InWindow(pass'[q].at)
      BY <2>1, <3>2, <3>4
    <3> QED BY <2>1, <3>3, <3>5, <3>6, CatchFrame
  <2>3. CASE ~digestDue(pass[r].at, zone, sent) /\ Finish(r)
    <3>1. pass[r].at \in Nat /\ pass[r].at <= now
      BY <1>1, <1>2, <2>1 DEF PassAges
    <3>2. \A G \in Int, b \in Nat : Target(G, b) => ~(pass[r].at >= G)
      BY <2>3, <3>1, DueInWindow
    <3> QED BY <1>10, <2>1, <2>3, <3>2
  <2> QED BY <1>11, <2>2, <2>3 DEF runOnce
<1>12. ASSUME NEW r \in Replicas, runTenantFails(r) \/ DigestCrash(r) PROVE CatchInv'
  BY <1>9, <1>12 DEF runTenantFails, DigestCrash, Fault
<1>13. ASSUME NEW r \in Replicas, SendWeeklyDigest(r) PROVE CatchInv'
  <2>1. PICK u \in pass[r].to : \/ Finish(r)
                                \/ pass' = [pass EXCEPT ![r].to = @ \ {u}] /\ UNCHANGED lock
    BY <1>13 DEF SendWeeklyDigest
  <2>2. /\ pass[r].pc = "send" /\ UNCHANGED <<now, zone, sent, moves, woken>>
        /\ faults' = faults \/ faults' = faults + 1
    BY <1>13 DEF SendWeeklyDigest, Fault
  <2>3. CASE Finish(r)
    BY <1>9, <1>10, <2>2, <2>3
  <2>4. CASE pass' = [pass EXCEPT ![r].to = @ \ {u}] /\ UNCHANGED lock
    <3>1. pass[r] \in Passing
      BY <1>1
    <3>2. \A q \in Replicas : pass'[q].pc = pass[q].pc /\ pass'[q].at = pass[q].at
      BY <1>1, <2>4, <3>1 DEF Passing
    <3>3. HolderBusy'
      BY <1>1, <1>2, <2>4, <3>2 DEF HolderBusy
    <3>4. \A G \in Int : Marking(G) \/ Fresh => Marking(G)' \/ Fresh'
      BY <2>2, <2>4, <3>2 DEF Marking, Fresh
    <3> QED BY <2>2, <3>2, <3>3, <3>4, CatchFrame
  <2> QED BY <2>1, <2>3, <2>4
<1> QED BY <1>3, <1>4, <1>5, <1>6, <1>7, <1>8, <1>11, <1>12, <1>13 DEF DigestNext

LEMMA CatchStands ==
  ASSUME DigestTypeOK, DigestTypeOK', CatchInv, UNCHANGED digestVars
  PROVE  CatchInv'
<1>1. UNCHANGED <<now, zone, sent, moves, faults, pass, woken, lock>>
  BY DEF digestVars
<1>2. HolderBusy'
  BY <1>1 DEF HolderBusy, CatchInv, PassTimes
<1>3. \A G \in Int : Marking(G) \/ Fresh => Marking(G)' \/ Fresh'
  BY <1>1 DEF Marking, Fresh
<1> QED BY <1>1, <1>2, <1>3, CatchFrame

LEMMA CatchStarts ==
  ASSUME DigestInit
  PROVE  CatchInv
<1>1. now = 0 /\ zone \in Int /\ sent = Null /\ lock = Null /\ moves = 0 /\ faults = 0
  BY WeekConstants DEF DigestInit
<1>2. \A r \in Replicas : pass[r].pc = "idle"
  BY DEF DigestInit, NoPass
<1>3. PassTimes
  BY <1>1, <1>2 DEF PassTimes, PassAges, HolderBusy, DecidedInWindow
<1>4. PICK G \in Int : G >= 1 /\ G < 1 + Week /\ (G - zone) % Week = 0
  BY <1>1, NextFire
<1>5. LastSent = 0
  BY <1>1 DEF LastSent
<1>6. Target(G, 0)
  BY <1>1, <1>4, <1>5, WeekConstants DEF Target, Chased
<1> QED BY <1>3, <1>6 DEF CatchInv

\* "A timezone change costs at most one week, never a permanent skip": as
\* long as fewer passes and ticks fail than a catch-up window has ticks, the
\* marker of a tenant whose zone changes once is never older than two weeks
\* and a window, for any week, window, zones, number of replicas and losses of
\* the lock.
THEOREM DigestComes ==
  (MaxFaults < CatchUp /\ Replicas # {}) => (Spec => []DigestNotSkipped)
<1> SUFFICES ASSUME MaxFaults < CatchUp, Replicas # {} PROVE Spec => []DigestNotSkipped
  OBVIOUS
<1>1. Init => CatchInv
  BY CatchStarts DEF Init
<1>2. ASSUME SchedulersInv, SchedulersInv', CatchInv, [Next]_vars PROVE CatchInv'
  <2>1. DigestTypeOK /\ DigestTypeOK'
    BY <1>2 DEF SchedulersInv, DigestInv
  <2>2. CASE UNCHANGED digestVars
    BY <1>2, <2>1, <2>2, CatchStands
  <2>3. CASE DigestNext
    BY <1>2, <2>1, <2>3, CatchStep
  <2> QED BY <1>2, <2>2, <2>3 DEF Next, Settings, vars
<1>3. SchedulersInv /\ SchedulersInv' /\ CatchInv /\ [Next]_vars => CatchInv'
  BY <1>2
<1>4. ASSUME SchedulersInv, CatchInv PROVE DigestNotSkipped
  <2> SUFFICES ASSUME moves <= 1 PROVE now - LastSent <= 2 * Week + CatchUp
    BY DEF DigestNotSkipped, LastSent
  <2>1. /\ now \in Nat /\ faults \in Nat /\ faults <= MaxFaults /\ MaxFaults \in Nat /\ LastSent \in Nat
    BY <1>4, CatchTypes DEF SchedulersInv, DigestInv
  <2>2. PICK G \in Int, b \in Nat : Target(G, b)
    BY <1>4 DEF CatchInv
  <2>3. /\ now <= G + (faults - b) /\ b <= faults
        /\ G <= LastSent + Week \/ G <= LastSent + (2 * Week + b)
    BY <2>2 DEF Target, Chased
  <2> QED BY <2>1, <2>3, WeekConstants
<1>5. SchedulersInv /\ CatchInv => DigestNotSkipped
  BY <1>4
<1> QED BY <1>1, <1>3, <1>5, SchedulersAlways, PTL DEF Spec
=============================================================================
