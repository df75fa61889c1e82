----------------------- MODULE CredentialRoutesProofs -----------------------
(***************************************************************************)
(* Safety of RateLimiter and of Accounts for every number of replicas,     *)
(* calls, requests, sessions and tokens, and every size and rate of the    *)
(* bucket.                                                                 *)
(***************************************************************************)
EXTENDS Accounts, RateLimiter, FiniteSetTheorems, TLAPS

-----------------------------------------------------------------------------
(* RateLimiter: the buckets.                                                *)

\* Where a call is with which store, and what the lock on the row means.
CallInv(c) ==
  /\ call[c].pc = "idle" => call[c] = NoCall
  /\ call[c].pc # "idle" => call[c].on \in Servers
  /\ call[c].pc \in {"begin", "seed", "select", "update", "ok", "failed"} => call[c].primary
  /\ call[c].pc = "fallback" => ~call[c].primary
  /\ call[c].at <= call[c].age
  /\ call[c].pc = "update" => rowLock = c /\ call[c].got = row

\* What a bucket can still let through, counted like its reference bucket:
\* nothing of the time since it was last written is lost.
Level(b, cap) == IF b = Nothing THEN cap ELSE AtMost(cap, b.tokens + Rate * b.age)

\* The reference has at least that much left.
LevelInv ==
  /\ spare \in [Stores -> Int]
  /\ spare["pg"] >= Level(row, Capacity("pg"))
  /\ \A r \in Servers : spare[r] >= Level(mem[r], Capacity(r))

BucketInv == LimiterTypeOK /\ LevelInv /\ \A c \in Calls : CallInv(c)

\* A probe that nothing has disturbed is the only one, and noted as such.
ProbeInv(r) ==
  /\ breaker[r].probing => Probes(r) # {}
  /\ ~upset[r] => /\ \A p, q \in Probes(r) : p = q
                  /\ Probes(r) # {} => breaker[r].probing

-----------------------------------------------------------------------------
\* The constants, one by one.
LEMMA LimiterConstants ==
  /\ Burst \in Nat /\ Burst > 0 /\ Rate \in Nat /\ Rate > 0 /\ LockTimeout \in Nat
  /\ Cooldown \in Nat /\ IdleTTL \in Nat /\ SweepThreshold \in Nat /\ MaxAge \in Nat
  /\ MaxFaults \in Nat /\ Rate * (IdleTTL - MaxAge) >= Burst
  /\ Oldest \in Nat /\ Nothing \notin Calls /\ Nothing \notin Servers /\ Nothing \notin Nat
  /\ Nothing \notin [tokens : Nat, age : Nat] /\ "pg" \notin Servers
  BY LimiterAssumption DEF Oldest

\* Products with the rate, as far as the proofs need them.
LEMMA RateTimes ==
  ASSUME NEW a \in Int, NEW b \in Int
  PROVE  /\ Rate * a \in Int
         /\ Rate * (a + b) = Rate * a + Rate * b
         /\ Rate * (a - b) = Rate * a - Rate * b
         /\ a <= b => Rate * a <= Rate * b
<1> USE LimiterConstants
<1>1. Rate * a \in Int /\ Rate * b \in Int
  OBVIOUS
<1>2. Rate * (a + b) = Rate * a + Rate * b /\ Rate * (a - b) = Rate * a - Rate * b
  OBVIOUS
<1>3. ASSUME a <= b PROVE Rate * a <= Rate * b
  <2>1. Rate * (b - a) >= 0
    BY <1>3
  <2>2. Rate * (b - a) = Rate * b - Rate * a
    OBVIOUS
  <2> QED BY <1>1, <2>1, <2>2
<1> QED BY <1>1, <1>2, <1>3

\* A bucket is a record or nothing.
LEMMA BucketCases ==
  ASSUME NEW b \in Bucket, b # Nothing
  PROVE  b \in [tokens : 0..Burst, age : 0..Oldest]
  BY DEF Bucket

\* The capacities are whole, and a store's bucket fits.
LEMMA CapacityType ==
  /\ Capacity("pg") = Burst + Rate * MaxAge /\ Capacity("pg") \in Nat /\ Capacity("pg") >= Burst
  /\ \A r \in Servers : Capacity(r) = Burst
  /\ \A s \in Stores : Capacity(s) \in Nat
<1>1. Rate * MaxAge \in Nat
  BY LimiterConstants
<1> QED BY <1>1, LimiterConstants DEF Capacity, Stores

LEMMA LevelType ==
  ASSUME NEW b \in Bucket, NEW cap \in Nat
  PROVE  Level(b, cap) \in Nat /\ Level(b, cap) <= cap
<1>1. CASE b = Nothing
  BY <1>1 DEF Level
<1>2. CASE b # Nothing
  <2>1. b.tokens \in Nat /\ b.age \in Nat
    BY <1>2, BucketCases, LimiterConstants
  <2>2. Rate * b.age \in Nat
    BY <2>1, LimiterConstants
  <2> QED BY <1>2, <2>1, <2>2 DEF Level, AtMost
<1> QED BY <1>1, <1>2

\* A call that reads the bucket at its clock finds no more than its level.
LEMMA RefilledType ==
  ASSUME NEW b \in Bucket, NEW at \in 0..MaxAge
  PROVE  /\ Refilled(b, at) \in 0..Burst
         /\ Taken(b, at) \in Bucket /\ Taken(b, at) # Nothing
<1> USE LimiterConstants
<1>1. Refilled(b, at) \in 0..Burst
  <2>1. CASE b = Nothing
    BY <2>1 DEF Refilled
  <2>2. CASE b # Nothing
    <3>1. b.tokens \in 0..Burst /\ b.age \in Nat
      BY <2>2, BucketCases
    <3>2. AtLeast(0, b.age - at) \in Nat
      BY <3>1 DEF AtLeast
    <3>3. Rate * AtLeast(0, b.age - at) \in Nat
      BY <3>2
    <3> QED BY <2>2, <3>1, <3>3 DEF Refilled, AtMost
  <2> QED BY <2>1, <2>2
<1>2. AtLeast(0, Refilled(b, at) - 1) \in 0..Burst
  BY <1>1 DEF AtLeast
<1>3. at \in 0..Oldest
  BY DEF Oldest
<1>4. Taken(b, at) \in [tokens : 0..Burst, age : 0..Oldest]
  BY <1>2, <1>3 DEF Taken
<1>5. [tokens : 0..Burst, age : 0..Oldest] \subseteq [tokens : Nat, age : Nat]
  OBVIOUS
<1> QED BY <1>1, <1>4, <1>5 DEF Bucket

\* The reference bucket keeps up with a call: what the call lets through is
\* in it, and what it gives back for a clock behind the bucket's is enough.
LEMMA SpendLevel ==
  ASSUME NEW b \in Bucket, NEW at \in 0..MaxAge, NEW cap \in Nat, NEW v \in Int,
         cap >= Burst + Rate * at, v >= Level(b, cap)
  PROVE  LET back == IF b = Nothing THEN 0 ELSE AtLeast(0, at - b.age)
             spent == IF Allowed(b, at) THEN 1 ELSE 0
             left == AtMost(cap, v - spent + Rate * back)
         IN left \in Int /\ left <= cap /\ left >= Level(Taken(b, at), cap)
<1> DEFINE back == IF b = Nothing THEN 0 ELSE AtLeast(0, at - b.age)
           spent == IF Allowed(b, at) THEN 1 ELSE 0
           R == Refilled(b, at)
<1> USE LimiterConstants
<1>r. R \in 0..Burst /\ Taken(b, at) # Nothing
  BY RefilledType
<1>s. spent \in 0..1 /\ (R >= 1 => spent = 1) /\ (R = 0 => spent = 0)
  BY <1>r DEF Allowed
<1>t. /\ Taken(b, at).tokens = R - spent /\ Taken(b, at).age = at
  BY <1>r, <1>s DEF Taken, AtLeast
<1>b. back \in Nat
  <2>1. CASE b = Nothing
    BY <2>1
  <2>2. CASE b # Nothing
    BY <2>2, BucketCases DEF AtLeast
  <2> QED BY <2>1, <2>2
<1>p. Rate * at \in Int /\ Rate * back \in Int
  BY <1>b, RateTimes
<1>lev. Level(Taken(b, at), cap) = AtMost(cap, R - spent + Rate * at)
  BY <1>r, <1>t DEF Level
<1>1. v + Rate * back >= R + Rate * at
  <2>1. CASE b = Nothing
    <3>1. v >= cap /\ R = Burst /\ back = 0
      BY <2>1 DEF Level, Refilled
    <3>2. Rate * back = 0
      BY <3>1
    <3> QED BY <1>p, <3>1, <3>2
  <2>2. CASE b # Nothing
    <3>1. b.tokens \in 0..Burst /\ b.age \in Nat
      BY <2>2, BucketCases
    <3>p. Rate * b.age \in Int
      BY <3>1, RateTimes
    <3>2. CASE at <= b.age
      <4>1. back = 0
        BY <2>2, <3>1, <3>2 DEF AtLeast
      <4>2. AtLeast(0, b.age - at) = b.age - at
        BY <3>1, <3>2 DEF AtLeast
      <4>3. Rate * (b.age - at) = Rate * b.age - Rate * at
        BY <3>1, RateTimes
      <4>4. R = AtMost(Burst, b.tokens + Rate * b.age - Rate * at)
        BY <2>2, <3>1, <3>p, <1>p, <4>2, <4>3 DEF Refilled
      <4>5. R + Rate * at <= Burst + Rate * at /\ R + Rate * at <= b.tokens + Rate * b.age
        BY <1>p, <1>r, <3>1, <3>p, <4>4 DEF AtMost
      <4>6. v >= AtMost(cap, b.tokens + Rate * b.age)
        BY <2>2 DEF Level
      <4>7. Rate * back = 0
        BY <4>1
      <4> QED BY <1>p, <1>r, <3>1, <3>p, <4>5, <4>6, <4>7 DEF AtMost
    <3>3. CASE at > b.age
      <4>1. back = at - b.age
        BY <2>2, <3>1, <3>3 DEF AtLeast
      <4>2. Rate * back = Rate * at - Rate * b.age
        BY <3>1, <4>1, RateTimes
      <4>3. AtLeast(0, b.age - at) = 0
        BY <3>1, <3>3 DEF AtLeast
      <4>4. R = b.tokens
        BY <2>2, <3>1, <4>3 DEF Refilled, AtMost
      <4>5. Rate * b.age <= Rate * at
        BY <3>1, <3>3, RateTimes
      <4>6. v >= b.tokens + Rate * b.age
        BY <1>p, <2>2, <3>1, <3>p, <4>5 DEF Level, AtMost
      <4> QED BY <1>p, <1>r, <3>1, <3>p, <4>2, <4>4, <4>6
    <3> QED BY <3>1, <3>2, <3>3
  <2> QED BY <2>1, <2>2
<1>2. AtMost(cap, v - spent + Rate * back) >= AtMost(cap, R - spent + Rate * at)
  BY <1>p, <1>r, <1>s, <1>1 DEF AtMost
<1>3. AtMost(cap, v - spent + Rate * back) \in Int /\ AtMost(cap, v - spent + Rate * back) <= cap
  BY <1>p, <1>s DEF AtMost
<1> QED BY <1>lev, <1>2, <1>3

\* A bucket that a sweep removes is full, late calls included.
LEMMA SweptLevel ==
  ASSUME NEW b \in Bucket, NEW s \in Stores
  PROVE  Swept(b) \in Bucket /\ Level(Swept(b), Capacity(s)) = Level(b, Capacity(s))
<1> USE LimiterConstants, CapacityType
<1>1. CASE b = Nothing \/ b.age <= IdleTTL
  <2>1. Swept(b) = b
    BY <1>1, BucketCases DEF Swept
  <2> QED BY <2>1
<1>2. CASE b # Nothing /\ ~(b.age <= IdleTTL)
  <2>1. b.tokens \in Nat /\ b.age \in Nat /\ b.age > IdleTTL
    BY <1>2, BucketCases
  <2>2. Swept(b) = Nothing
    BY <1>2, <2>1 DEF Swept
  <2>3. Rate * IdleTTL <= Rate * b.age /\ Rate * (IdleTTL - MaxAge) = Rate * IdleTTL - Rate * MaxAge
    BY <2>1, RateTimes
  <2>4. Rate * IdleTTL \in Int /\ Rate * b.age \in Int /\ Rate * MaxAge \in Nat
    BY <2>1
  <2>5. b.tokens + Rate * b.age >= Burst + Rate * MaxAge
    BY <2>1, <2>3, <2>4
  <2>6. Capacity(s) <= Burst + Rate * MaxAge /\ Capacity(s) \in Nat
    BY <2>4 DEF Capacity
  <2>7. Level(b, Capacity(s)) = Capacity(s)
    BY <1>2, <2>1, <2>4, <2>5, <2>6 DEF Level, AtMost
  <2> QED BY <2>2, <2>7 DEF Bucket, Level
<1> QED BY <1>1, <1>2

\* A unit of time adds at most the rate to a level, and the reference bucket
\* gains the rate.
LEMMA AgedLevel ==
  ASSUME NEW b \in Bucket, NEW cap \in Nat, NEW v \in Int, v >= Level(b, cap)
  PROVE  LET aged == IF b = Nothing THEN b ELSE [b EXCEPT !.age = AtMost(Oldest, @ + 1)]
             left == AtMost(cap, v + Rate)
         IN aged \in Bucket /\ left \in Int /\ left <= cap /\ left >= Level(aged, cap)
<1> USE LimiterConstants
<1>l. AtMost(cap, v + Rate) \in Int /\ AtMost(cap, v + Rate) <= cap
  BY DEF AtMost
<1>1. CASE b = Nothing
  BY <1>1, <1>l DEF Level, AtMost
<1>2. CASE b # Nothing
  <2> DEFINE aged == [b EXCEPT !.age = AtMost(Oldest, @ + 1)]
  <2>1. b \in [tokens : 0..Burst, age : 0..Oldest]
    BY <1>2, BucketCases
  <2>2. aged.tokens = b.tokens /\ aged.age = AtMost(Oldest, b.age + 1)
        /\ aged \in [tokens : 0..Burst, age : 0..Oldest]
    BY <2>1 DEF AtMost
  <2>3. aged # Nothing
    BY <2>2
  <2>4. aged.age \in Nat /\ aged.age <= b.age + 1 /\ b.age \in Nat /\ b.tokens \in Nat
    BY <2>1, <2>2 DEF AtMost
  <2>5. /\ Rate * aged.age <= Rate * (b.age + 1)
        /\ Rate * (b.age + 1) = Rate * b.age + Rate * 1
    <3>1. aged.age \in Int /\ b.age + 1 \in Int /\ b.age \in Int /\ 1 \in Int
      BY <2>4
    <3> HIDE DEF aged
    <3> QED BY <2>4, <3>1, RateTimes
  <2>6. Rate * aged.age \in Int /\ Rate * b.age \in Int /\ Rate * 1 = Rate
    BY <2>4
  <2>7. AtMost(cap, v + Rate) >= AtMost(cap, aged.tokens + Rate * aged.age)
    BY <1>2, <2>2, <2>4, <2>5, <2>6 DEF Level, AtMost
  <2> QED BY <1>2, <1>l, <2>2, <2>3, <2>7 DEF Level, Bucket
<1> QED BY <1>1, <1>2

LEMMA BucketInit == LimiterInit => BucketInv
<1> SUFFICES ASSUME LimiterInit PROVE BucketInv
  OBVIOUS
<1> USE LimiterConstants, CapacityType
<1>0. NoCall \in Call /\ NoCall.pc = "idle" /\ NoCall.at = 0 /\ NoCall.age = 0
  BY DEF NoCall, Call, Phases, Bucket
<1>1. LimiterTypeOK
  BY <1>0 DEF LimiterInit, LimiterTypeOK, Bucket
<1>2. LevelInv
  BY DEF LimiterInit, LevelInv, Level, Stores
<1>3. \A c \in Calls : CallInv(c)
  BY <1>0 DEF LimiterInit, CallInv
<1> QED BY <1>1, <1>2, <1>3 DEF BucketInv

\* A step of a call that leaves the buckets and the reference alone.
LEMMA LevelKept ==
  ASSUME LevelInv, UNCHANGED <<row, mem, spare>>
  PROVE  LevelInv'
  BY DEF LevelInv, Level

\* Time passes: ages of calls keep their order and the row and the copies of
\* it age alike.
LEMMA BucketElapse ==
  ASSUME BucketInv, Elapse
  PROVE  BucketInv'
<1> USE LimiterConstants, CapacityType
<1> DEFINE older(b) == IF b = Nothing THEN b ELSE [b EXCEPT !.age = AtMost(Oldest, @ + 1)]
<1>type. LimiterTypeOK
  BY DEF BucketInv
<1>lev. LevelInv
  BY DEF BucketInv
<1>call. \A c \in Calls : CallInv(c)
  BY DEF BucketInv
<1>e. /\ row' = older(row) /\ mem' = [r \in Servers |-> older(mem[r])]
      /\ breaker' = [r \in Servers |-> [breaker[r] EXCEPT
                   !.until = IF @ = Nothing THEN Nothing ELSE AtLeast(0, @ - 1)]]
      /\ call' = [c \in Calls |->
           IF call[c].pc = "idle" THEN call[c]
           ELSE [call[c] EXCEPT !.age = @ + 1, !.got = older(@),
                                !.at = IF call[c].pc \in InTransaction THEN @ + 1 ELSE 0]]
      /\ spare' = [s \in Stores |-> AtMost(Capacity(s), spare[s] + Rate)]
      /\ UNCHANGED <<rowLock, count, faults, upset>>
      /\ \A c \in Calls : call[c].pc # "idle" => call[c].age < MaxAge
  BY DEF Elapse
<1>sp. spare' = [s \in Stores |-> AtMost(Capacity(s), spare[s] + Rate)]
  BY <1>e
<1>left. ASSUME NEW s \in Stores
         PROVE  /\ AtMost(Capacity(s), spare[s] + Rate) \in Int
                /\ AtMost(Capacity(s), spare[s] + Rate) <= Capacity(s)
  <2>1. spare[s] \in Int /\ Capacity(s) \in Nat
    BY <1>lev DEF LevelInv
  <2> QED BY <2>1 DEF AtMost
<1>guard. \A c \in Calls : call[c].pc # "idle" => call[c].age < MaxAge
  BY <1>e
<1>older. ASSUME NEW b \in Bucket PROVE older(b) \in Bucket
  <2>1. 0 >= Level(b, 0) /\ 0 \in Int /\ 0 \in Nat
    BY LevelType
  <2> QED BY <2>1, AgedLevel
<1>1. LevelInv'
  <2>1. row \in Bucket /\ \A r \in Servers : mem[r] \in Bucket
    BY <1>type DEF LimiterTypeOK
  <2>s. "pg" \in Stores /\ \A r \in Servers : r \in Stores
    BY DEF Stores
  <2>i. \A s \in Stores : spare[s] \in Int
    BY <1>lev DEF LevelInv
  <2>2. spare'["pg"] >= Level(row', Capacity("pg"))
    <3>1. spare["pg"] >= Level(row, Capacity("pg")) /\ spare["pg"] \in Int
      BY <1>lev, <2>i, <2>s DEF LevelInv
    <3>2. AtMost(Capacity("pg"), spare["pg"] + Rate) >= Level(older(row), Capacity("pg"))
      BY <2>1, <3>1, AgedLevel
    <3> QED BY <1>e, <2>s, <3>2
  <2>3. ASSUME NEW r \in Servers PROVE spare'[r] >= Level(mem'[r], Capacity(r))
    <3>1. spare[r] >= Level(mem[r], Capacity(r)) /\ spare[r] \in Int /\ Capacity(r) \in Nat
      BY <1>lev, <2>i, <2>s DEF LevelInv
    <3>2. AtMost(Capacity(r), spare[r] + Rate) >= Level(older(mem[r]), Capacity(r))
      BY <2>1, <3>1, AgedLevel
    <3> QED BY <1>e, <2>s, <3>2
  <2>4. spare' \in [Stores -> Int]
    BY <1>sp, <1>left
  <2>5. /\ Capacity("pg")' = Capacity("pg")
        /\ \A r \in Servers : Capacity(r)' = Capacity(r)
    BY DEF Capacity
  <2> QED BY <2>2, <2>3, <2>4 DEF LevelInv, Level
<1>2. LimiterTypeOK'
  <2>1. row' \in Bucket /\ mem' \in [Servers -> Bucket]
    BY <1>e, <1>type, <1>older DEF LimiterTypeOK
  <2>2. breaker' \in [Servers -> [until : 0..Cooldown \cup {Nothing}, probing : BOOLEAN]]
    <3>1. breaker' = [r \in Servers |-> [breaker[r] EXCEPT
                   !.until = IF @ = Nothing THEN Nothing ELSE AtLeast(0, @ - 1)]]
      BY <1>e
    <3>2. ASSUME NEW r \in Servers
          PROVE  [breaker[r] EXCEPT !.until = IF @ = Nothing THEN Nothing ELSE AtLeast(0, @ - 1)]
                   \in [until : 0..Cooldown \cup {Nothing}, probing : BOOLEAN]
      <4>1. breaker[r] \in [until : 0..Cooldown \cup {Nothing}, probing : BOOLEAN]
        BY <1>type DEF LimiterTypeOK
      <4>2. (IF breaker[r].until = Nothing THEN Nothing ELSE AtLeast(0, breaker[r].until - 1))
              \in 0..Cooldown \cup {Nothing}
        BY <4>1 DEF AtLeast
      <4> QED BY <4>1, <4>2
    <3> QED BY <3>1, <3>2
  <2>3. call' \in [Calls -> Call]
    <3> SUFFICES ASSUME NEW c \in Calls PROVE call'[c] \in Call
      BY <1>e
    <3>1. call[c] \in Call /\ call[c].age \in 0..MaxAge /\ call[c].at \in 0..MaxAge
          /\ call[c].got \in Bucket
      BY <1>type DEF LimiterTypeOK, Call
    <3>2. CASE call[c].pc = "idle"
      BY <1>e, <3>1, <3>2
    <3>3. CASE call[c].pc # "idle"
      <4>1. call[c].age + 1 \in 0..MaxAge /\ call[c].at + 1 \in 0..MaxAge
        BY <1>guard, <1>call, <3>1, <3>3 DEF CallInv
      <4>2. older(call[c].got) \in Bucket
        BY <1>older, <3>1
      <4>3. (IF call[c].pc \in InTransaction THEN call[c].at + 1 ELSE 0) \in 0..MaxAge
        BY <4>1
      <4>4. call'[c] = [call[c] EXCEPT !.age = @ + 1, !.got = older(@),
                            !.at = IF call[c].pc \in InTransaction THEN @ + 1 ELSE 0]
        BY <1>e, <3>3
      <4> HIDE DEF older
      <4> QED BY <3>1, <4>1, <4>2, <4>3, <4>4 DEF Call
    <3> QED BY <3>2, <3>3
  <2>4. DOMAIN spare' = Stores /\ \A s \in Stores : spare'[s] <= Capacity(s)
    BY <1>sp, <1>left
  <2> QED BY <1>e, <1>type, <2>1, <2>2, <2>3, <2>4 DEF LimiterTypeOK, Capacity
<1>3. ASSUME NEW c \in Calls PROVE CallInv(c)'
  <2>1. call[c] \in Call /\ call[c].age \in Nat /\ call[c].at \in Nat
    BY <1>type DEF LimiterTypeOK, Call
  <2>2. CASE call[c].pc = "idle"
    <3>1. call'[c] = call[c] /\ NoCall.pc = "idle"
      BY <1>e, <2>2 DEF NoCall
    <3> QED BY <1>call, <2>1, <2>2, <3>1 DEF CallInv, NoCall
  <2>3. CASE call[c].pc # "idle"
    <3> HIDE DEF older
    <3>1. /\ call'[c].pc = call[c].pc /\ call'[c].on = call[c].on
          /\ call'[c].primary = call[c].primary /\ call'[c].age = call[c].age + 1
          /\ call'[c].got = older(call[c].got)
          /\ call'[c].at = IF call[c].pc \in InTransaction THEN call[c].at + 1 ELSE 0
      BY <1>e, <2>1, <2>3 DEF Call
    <3>2. CallInv(c)
      BY <1>call
    <3>3. rowLock' = rowLock /\ row' = older(row)
      BY <1>e
    <3>4. call'[c].at <= call'[c].age
      BY <2>1, <3>1, <3>2 DEF CallInv
    <3> QED BY <2>3, <3>1, <3>2, <3>3, <3>4 DEF CallInv
  <2> QED BY <2>2, <2>3
<1> QED BY <1>1, <1>2, <1>3 DEF BucketInv

\* pickStore and cleanup, before the store is asked.
LEMMA BucketPick ==
  ASSUME BucketInv, NEW c \in Calls,
         cleanup(c) \/ \E r \in Servers : pickStore(c, r)
  PROVE  BucketInv'
<1> USE LimiterConstants, CapacityType
<1>type. LimiterTypeOK
  BY DEF BucketInv
<1>lev. LevelInv
  BY DEF BucketInv
<1>call. \A d \in Calls : CallInv(d)
  BY DEF BucketInv
<1>nocall. NoCall \in Call
  BY DEF NoCall, Call, Phases, Bucket
<1>1. ASSUME NEW r \in Servers, pickStore(c, r) PROVE BucketInv'
  <2> DEFINE pr == pickPrimary(breaker[r])
             pb == pickPrimary(breaker[r]) /\ breaker[r].until # Nothing
             pc == IF count[r] + 1 > SweepThreshold THEN "sweep"
                   ELSE IF pickPrimary(breaker[r]) THEN "begin" ELSE "fallback"
             k == [NoCall EXCEPT !.on = r, !.primary = pr, !.probe = pb, !.pc = pc]
  <2>1. call' = [call EXCEPT ![c] = k] /\ UNCHANGED <<row, rowLock, mem, faults, spare>>
    BY <1>1 DEF pickStore
  <2>2. /\ k \in Call /\ k.on = r /\ k.at = 0 /\ k.age = 0 /\ k.pc \in {"sweep", "begin", "fallback"}
        /\ k.pc = "begin" => k.primary
        /\ k.pc = "fallback" => ~k.primary
    <3>1. pr \in BOOLEAN /\ pb \in BOOLEAN
      BY DEF pickPrimary
    <3>2. /\ pc \in {"sweep", "begin", "fallback"} /\ (pc = "begin" => pr) /\ (pc = "fallback" => ~pr)
      OBVIOUS
    <3> HIDE DEF pr, pb, pc
    <3>3. NoCall.at = 0 /\ NoCall.age = 0 /\ pc \in Phases
      BY <3>2 DEF NoCall, Phases
    <3>4. /\ k \in Call /\ k.on = r /\ k.primary = pr /\ k.pc = pc
          /\ k.at = NoCall.at /\ k.age = NoCall.age
      BY <1>nocall, <3>1, <3>3 DEF Call
    <3> HIDE DEF k
    <3> QED BY <3>2, <3>3, <3>4
  <2> HIDE DEF k, pr, pb, pc
  <2>3. LimiterTypeOK'
    <3>1. count' \in [Servers -> 0..SweepThreshold]
      <4>1. count' = [count EXCEPT ![r] = IF count[r] + 1 > SweepThreshold THEN 0 ELSE count[r] + 1]
        BY <1>1 DEF pickStore
      <4>2. count \in [Servers -> 0..SweepThreshold]
        BY <1>type DEF LimiterTypeOK
      <4>3. count[r] \in 0..SweepThreshold
        BY <4>2
      <4>4. (IF count[r] + 1 > SweepThreshold THEN 0 ELSE count[r] + 1) \in 0..SweepThreshold
        BY <4>3
      <4> QED BY <4>1, <4>2, <4>4
    <3>2. breaker' \in [Servers -> [until : 0..Cooldown \cup {Nothing}, probing : BOOLEAN]]
      <4> DEFINE probed == pickPrimary(breaker[r]) /\ breaker[r].until # Nothing
      <4>1. breaker' = [breaker EXCEPT ![r].probing = @ \/ probed]
        BY <1>1 DEF pickStore
      <4>2. breaker \in [Servers -> [until : 0..Cooldown \cup {Nothing}, probing : BOOLEAN]]
        BY <1>type DEF LimiterTypeOK
      <4>3. breaker[r] \in [until : 0..Cooldown \cup {Nothing}, probing : BOOLEAN]
        BY <4>2
      <4>4. (breaker[r].probing \/ probed) \in BOOLEAN
        BY <4>3
      <4> HIDE DEF probed
      <4>5. [breaker[r] EXCEPT !.probing = @ \/ probed]
              \in [until : 0..Cooldown \cup {Nothing}, probing : BOOLEAN]
        BY <4>3, <4>4
      <4> QED BY <4>1, <4>2, <4>5
    <3>3. upset' \in [Servers -> BOOLEAN]
      BY <1>1, <1>type DEF pickStore, LimiterTypeOK
    <3> QED BY <1>type, <2>1, <2>2, <3>1, <3>2, <3>3 DEF LimiterTypeOK, Capacity
  <2>4. LevelInv'
    BY <1>lev, <2>1, LevelKept
  <2>5. ASSUME NEW d \in Calls PROVE CallInv(d)'
    <3>1. CASE d = c
      <4>1. call'[d] = k
        BY <1>type, <2>1, <3>1 DEF LimiterTypeOK
      <4> QED BY <2>2, <4>1 DEF CallInv
    <3>2. CASE d # c
      <4>1. call'[d] = call[d]
        BY <1>type, <2>1, <3>2 DEF LimiterTypeOK
      <4> QED BY <1>call, <2>1, <4>1 DEF CallInv
    <3> QED BY <3>1, <3>2
  <2> QED BY <2>3, <2>4, <2>5 DEF BucketInv
<1>2. ASSUME cleanup(c) PROVE BucketInv'
  <2>k. call[c] \in Call /\ call[c].pc = "sweep" /\ call[c].on \in Servers
    BY <1>2, <1>type, <1>call DEF cleanup, LimiterTypeOK, CallInv
  <2>1. /\ call' = [call EXCEPT ![c].pc = IF call[c].primary THEN "begin" ELSE "fallback"]
        /\ UNCHANGED <<rowLock, breaker, count, spare, upset>>
    BY <1>2 DEF cleanup, Move
  <2>2. /\ row' \in {row, Swept(row)} /\ (row' # row => rowLock = Nothing)
        /\ \A r \in Servers : mem'[r] \in {mem[r], Swept(mem[r])}
        /\ mem' = [r \in Servers |-> mem'[r]]
        /\ faults' \in 0..MaxFaults
    <3>1. CASE call[c].primary
      BY <1>2, <1>type, <3>1 DEF cleanup, LimiterTypeOK, Fault, Swept
    <3>2. CASE ~call[c].primary
      BY <1>2, <1>type, <2>k, <3>2 DEF cleanup, LimiterTypeOK
    <3> QED BY <3>1, <3>2
  <2>3. LevelInv'
    <3>1. "pg" \in Stores /\ \A r \in Servers : r \in Stores
      BY DEF Stores
    <3>2. Level(row', Capacity("pg")) = Level(row, Capacity("pg"))
      BY <1>type, <2>2, <3>1, SweptLevel DEF LimiterTypeOK
    <3>3. \A r \in Servers : Level(mem'[r], Capacity(r)) = Level(mem[r], Capacity(r))
      BY <1>type, <2>2, <3>1, SweptLevel DEF LimiterTypeOK
    <3> QED BY <1>lev, <2>1, <3>2, <3>3 DEF LevelInv, Level
  <2>4. LimiterTypeOK'
    <3>1. "pg" \in Stores
      BY DEF Stores
    <3>2. row' \in Bucket /\ \A r \in Servers : mem'[r] \in Bucket
      BY <1>type, <2>2, <3>1, SweptLevel DEF LimiterTypeOK
    <3>3. call' \in [Calls -> Call]
      BY <1>type, <2>1, <2>k DEF LimiterTypeOK, Call, Phases
    <3> QED BY <1>type, <2>1, <2>2, <3>2, <3>3 DEF LimiterTypeOK, Capacity
  <2>5. ASSUME NEW d \in Calls PROVE CallInv(d)'
    <3>1. CASE d = c
      <4>1. call'[d] = [call[c] EXCEPT !.pc = IF call[c].primary THEN "begin" ELSE "fallback"]
        BY <1>type, <2>1, <3>1 DEF LimiterTypeOK
      <4>2. CallInv(c)
        BY <1>call
      <4> QED BY <2>k, <3>1, <4>1, <4>2 DEF CallInv, Call
    <3>2. CASE d # c
      <4>1. call'[d] = call[d] /\ rowLock' = rowLock
        BY <1>type, <2>1, <3>2 DEF LimiterTypeOK
      <4> QED BY <1>call, <2>2, <4>1 DEF CallInv
    <3> QED BY <3>1, <3>2
  <2> QED BY <2>3, <2>4, <2>5 DEF BucketInv
<1> QED BY <1>1, <1>2

\* The statements of the transaction up to its last, and its failure: the
\* lock changes hands only when it is free.
LEMMA BucketStatement ==
  ASSUME BucketInv, NEW c \in Calls,
         begin(c) \/ seed(c) \/ selectForUpdate(c) \/ primaryFails(c)
  PROVE  BucketInv'
<1> USE LimiterConstants, CapacityType
<1>type. LimiterTypeOK
  BY DEF BucketInv
<1>lev. LevelInv
  BY DEF BucketInv
<1>call. \A d \in Calls : CallInv(d)
  BY DEF BucketInv
<1>k. call[c] \in Call /\ CallInv(c)
  BY <1>type, <1>call DEF LimiterTypeOK
<1>same. UNCHANGED <<row, mem, breaker, count, spare, upset>>
  BY DEF begin, seed, selectForUpdate, primaryFails
<1>1. /\ call' = [call EXCEPT ![c] = call'[c]] /\ call'[c] \in Call
      /\ call'[c].on = call[c].on /\ call'[c].primary = call[c].primary
      /\ call'[c].pc \in {"seed", "select", "update", "failed"}
      /\ call[c].pc \in {"begin", "seed", "select", "update"}
      /\ call'[c].age = call[c].age /\ call'[c].at \in {call[c].at, 0}
      /\ call'[c].pc = "update" => rowLock' = c /\ call'[c].got = row
      /\ rowLock' \in {rowLock, c, Nothing}
      /\ rowLock' # rowLock => rowLock \in {Nothing, c}
      /\ faults' \in 0..MaxFaults
  <2>1. CASE begin(c)
    BY <1>k, <1>type, <2>1 DEF begin, Move, LimiterTypeOK, Call, Phases
  <2>2. CASE seed(c)
    BY <1>k, <1>type, <2>2 DEF seed, Move, LimiterTypeOK, Call, Phases
  <2>3. CASE selectForUpdate(c)
    BY <1>k, <1>type, <2>3 DEF selectForUpdate, Move, LimiterTypeOK, Call, Phases
  <2>4. CASE primaryFails(c)
    <3>1. call' = [call EXCEPT ![c].pc = "failed", ![c].at = 0, ![c].got = Nothing, ![c].mine = FALSE]
      BY <2>4 DEF primaryFails
    <3>2. call \in [Calls -> Call]
      BY <1>type DEF LimiterTypeOK
    <3>3. call'[c] = [call[c] EXCEPT !.pc = "failed", !.at = 0, !.got = Nothing, !.mine = FALSE]
      BY <3>1, <3>2
    <3>4. call' = [call EXCEPT ![c] = call'[c]]
      BY <3>1, <3>2, <3>3
    <3>5. Nothing \in Bucket /\ "failed" \in Phases /\ 0 \in 0..MaxAge
      BY DEF Bucket, Phases
    <3>6. /\ call'[c] \in Call /\ call'[c].on = call[c].on /\ call'[c].primary = call[c].primary
          /\ call'[c].pc = "failed" /\ call'[c].age = call[c].age /\ call'[c].at = 0
      BY <1>k, <3>3, <3>5 DEF Call
    <3>7. rowLock' = IF rowLock = c THEN Nothing ELSE rowLock
      BY <2>4 DEF primaryFails
    <3>8. call[c].pc \in {"begin", "seed", "select", "update"}
      BY <2>4 DEF primaryFails
    <3>9. faults' \in 0..MaxFaults
      BY <1>type, <2>4 DEF primaryFails, Fault, LimiterTypeOK
    <3> QED BY <3>4, <3>6, <3>7, <3>8, <3>9
  <2> QED BY <2>1, <2>2, <2>3, <2>4
<1>2. LimiterTypeOK'
  BY <1>1, <1>type, <1>same DEF LimiterTypeOK, Capacity
<1>3. LevelInv'
  BY <1>lev, <1>same, LevelKept
<1>4. ASSUME NEW d \in Calls PROVE CallInv(d)'
  <2>1. CASE d = c
    <3>1. call[c].at \in Nat /\ call[c].age \in Nat
      BY <1>k DEF Call
    <3> QED BY <1>1, <1>k, <1>same, <2>1, <3>1 DEF CallInv
  <2>2. CASE d # c
    <3>1. call'[d] = call[d]
      BY <1>1, <1>type, <2>2 DEF LimiterTypeOK
    <3>2. CallInv(d)
      BY <1>call
    <3> QED BY <1>1, <1>same, <2>2, <3>1, <3>2 DEF CallInv
  <2> QED BY <2>1, <2>2
<1> QED BY <1>2, <1>3, <1>4 DEF BucketInv

\* A call that spends from a store keeps the reference of that store ahead.
LEMMA SpendKept ==
  ASSUME BucketInv, NEW s \in Stores, NEW b \in Bucket, NEW at \in 0..MaxAge,
         Capacity(s) >= Burst + Rate * at, spare[s] >= Level(b, Capacity(s)), Spend(s, b, at)
  PROVE  /\ spare' \in [Stores -> Int] /\ spare'[s] >= Level(Taken(b, at), Capacity(s))
         /\ \A z \in Stores : spare'[z] <= Capacity(z)
         /\ \A z \in Stores \ {s} : spare'[z] = spare[z]
<1> DEFINE back == IF b = Nothing THEN 0 ELSE AtLeast(0, at - b.age)
           spent == IF Allowed(b, at) THEN 1 ELSE 0
           left == AtMost(Capacity(s), spare[s] - spent + Rate * back)
<1>1. spare \in [Stores -> Int] /\ \A z \in Stores : spare[z] <= Capacity(z)
  BY DEF BucketInv, LevelInv, LimiterTypeOK
<1>2. spare' = [spare EXCEPT ![s] = left]
  BY DEF Spend
<1>3. Capacity(s) \in Nat /\ spare[s] \in Int
  BY <1>1, CapacityType
<1>4. left \in Int /\ left <= Capacity(s) /\ left >= Level(Taken(b, at), Capacity(s))
  BY <1>3, SpendLevel
<1> HIDE DEF left
<1> QED BY <1>1, <1>2, <1>4

\* UPDATE and COMMIT: what was read under the lock is still in the row.
LEMMA BucketUpdate ==
  ASSUME BucketInv, NEW c \in Calls, update(c)
  PROVE  BucketInv'
<1> USE LimiterConstants, CapacityType
<1>type. LimiterTypeOK
  BY DEF BucketInv
<1>lev. LevelInv
  BY DEF BucketInv
<1>call. \A d \in Calls : CallInv(d)
  BY DEF BucketInv
<1>k. /\ call[c] \in Call /\ call[c].pc = "update" /\ call[c].at \in 0..MaxAge
      /\ rowLock = c /\ call[c].got = row /\ row \in Bucket /\ call[c].primary
      /\ call[c].on \in Servers /\ call[c].age \in Nat
  BY <1>type, <1>call DEF update, LimiterTypeOK, CallInv, Call
<1>u. /\ row' = Taken(row, call[c].at) /\ Spend("pg", row, call[c].at)
      /\ rowLock' = Nothing /\ UNCHANGED <<mem, breaker, count, upset>>
  BY <1>k DEF update
<1>c. /\ call' = [call EXCEPT ![c] = call'[c]] /\ call'[c] \in Call
      /\ call'[c].on = call[c].on /\ call'[c].primary = call[c].primary
      /\ call'[c].pc \in {"ok", "failed"} /\ call'[c].at = 0 /\ call'[c].age = call[c].age
  <2>1. PICK pc \in {"ok", "failed"} :
          call' = [call EXCEPT ![c].pc = pc, ![c].at = 0, ![c].got = Nothing, ![c].mine = FALSE]
    BY DEF update
  <2>2. call \in [Calls -> Call]
    BY <1>type DEF LimiterTypeOK
  <2>3. call'[c] = [call[c] EXCEPT !.pc = pc, !.at = 0, !.got = Nothing, !.mine = FALSE]
    BY <2>1, <2>2
  <2>4. call' = [call EXCEPT ![c] = call'[c]]
    BY <2>1, <2>2, <2>3
  <2>5. Nothing \in Bucket /\ pc \in Phases /\ 0 \in 0..MaxAge
    BY DEF Bucket, Phases
  <2>6. /\ call'[c] \in Call /\ call'[c].on = call[c].on /\ call'[c].primary = call[c].primary
        /\ call'[c].pc = pc /\ call'[c].age = call[c].age /\ call'[c].at = 0
    BY <1>k, <2>3, <2>5, ZenonT(30) DEF Call
  <2> QED BY <2>4, <2>6
<1>f. faults' \in 0..MaxFaults
  BY <1>type DEF update, Fault, LimiterTypeOK
<1>s. /\ spare' \in [Stores -> Int] /\ spare'["pg"] >= Level(row', Capacity("pg"))
      /\ \A z \in Stores : spare'[z] <= Capacity(z)
      /\ \A r \in Servers : spare'[r] = spare[r]
  <2>1. "pg" \in Stores /\ \A r \in Servers : r \in Stores \ {"pg"}
    BY DEF Stores
  <2>2. Rate * call[c].at <= Rate * MaxAge /\ Rate * call[c].at \in Int /\ Rate * MaxAge \in Int
    BY <1>k, RateTimes
  <2>3. Capacity("pg") >= Burst + Rate * call[c].at
    BY <2>2
  <2>4. spare["pg"] >= Level(row, Capacity("pg"))
    BY <1>lev DEF LevelInv
  <2>5. /\ spare' \in [Stores -> Int] /\ spare'["pg"] >= Level(Taken(row, call[c].at), Capacity("pg"))
        /\ \A z \in Stores : spare'[z] <= Capacity(z)
        /\ \A z \in Stores \ {"pg"} : spare'[z] = spare[z]
    BY <1>k, <1>u, <2>1, <2>3, <2>4, SpendKept
  <2> QED BY <1>u, <2>1, <2>5
<1>1. LimiterTypeOK'
  <2>1. row' \in Bucket
    BY <1>k, <1>u, RefilledType
  <2>2. call' \in [Calls -> Call]
    BY <1>c, <1>type DEF LimiterTypeOK
  <2>3. DOMAIN spare' = Stores
    BY <1>s
  <2> QED BY <1>type, <1>u, <1>f, <1>s, <2>1, <2>2, <2>3 DEF LimiterTypeOK, Capacity
<1>2. LevelInv'
  BY <1>lev, <1>u, <1>s DEF LevelInv, Level, Capacity
<1>3. ASSUME NEW d \in Calls PROVE CallInv(d)'
  <2>1. CASE d = c
    <3>1. /\ call'[c].pc # "idle" /\ call'[c].pc # "update" /\ call'[c].pc # "fallback"
          /\ call'[c].on \in Servers /\ call'[c].primary /\ call'[c].at <= call'[c].age
      BY <1>c, <1>k
    <3> QED BY <2>1, <3>1 DEF CallInv
  <2>2. CASE d # c
    <3>1. call'[d] = call[d]
      BY <1>c, <1>type, <2>2 DEF LimiterTypeOK
    <3>2. call[d].pc # "update"
      BY <1>call, <1>k, <2>2 DEF CallInv
    <3> QED BY <1>call, <3>1, <3>2 DEF CallInv
  <2> QED BY <2>1, <2>2
<1> QED BY <1>1, <1>2, <1>3 DEF BucketInv

\* The breaker hears of the answer; the call ends or goes to the fallback.
LEMMA BucketAnswer ==
  ASSUME BucketInv, NEW c \in Calls, onPrimarySuccess(c) \/ onPrimaryError(c)
  PROVE  BucketInv'
<1> USE LimiterConstants, CapacityType
<1>type. LimiterTypeOK
  BY DEF BucketInv
<1>lev. LevelInv
  BY DEF BucketInv
<1>call. \A d \in Calls : CallInv(d)
  BY DEF BucketInv
<1>k. call[c] \in Call /\ call[c].on \in Servers /\ call[c].age \in 0..MaxAge
  BY <1>type, <1>call DEF onPrimarySuccess, onPrimaryError, LimiterTypeOK, CallInv, Call
<1>same. UNCHANGED <<row, rowLock, mem, count, faults, spare>> /\ Disturbed(c)
  BY DEF onPrimarySuccess, onPrimaryError
<1>nocall. NoCall \in Call
  BY DEF NoCall, Call, Phases, Bucket
<1>c. /\ call' = [call EXCEPT ![c] = call'[c]] /\ call'[c] \in Call
      /\ \/ call'[c] = NoCall
         \/ /\ call'[c].pc = "fallback" /\ ~call'[c].primary /\ call'[c].on = call[c].on
            /\ call'[c].at = call[c].at /\ call'[c].age = call[c].age
  <2>t. call \in [Calls -> Call]
    BY <1>type DEF LimiterTypeOK
  <2>1. CASE onPrimarySuccess(c)
    BY <1>nocall, <2>t, <2>1 DEF onPrimarySuccess
  <2>2. CASE onPrimaryError(c)
    <3>1. call' = [call EXCEPT ![c].pc = "fallback", ![c].primary = FALSE]
      BY <2>2 DEF onPrimaryError
    <3>2. call'[c] = [call[c] EXCEPT !.pc = "fallback", !.primary = FALSE]
      BY <2>t, <3>1
    <3> QED BY <1>k, <2>t, <3>1, <3>2 DEF Call, Phases
  <2> QED BY <2>1, <2>2
<1>1. LimiterTypeOK'
  <2>1. breaker' \in [Servers -> [until : 0..Cooldown \cup {Nothing}, probing : BOOLEAN]]
    <3>1. AtLeast(0, Cooldown - call[c].age) \in 0..Cooldown
      BY <1>k DEF AtLeast
    <3>2. PICK u \in 0..Cooldown \cup {Nothing} :
            breaker' = [breaker EXCEPT ![call[c].on] = [until |-> u, probing |-> FALSE]]
      BY <3>1 DEF onPrimarySuccess, onPrimaryError
    <3>3. [until |-> u, probing |-> FALSE] \in [until : 0..Cooldown \cup {Nothing}, probing : BOOLEAN]
      OBVIOUS
    <3> QED BY <1>k, <1>type, <3>2, <3>3 DEF LimiterTypeOK
  <2>2. upset' \in [Servers -> BOOLEAN]
    BY <1>k, <1>type, <1>same DEF Disturbed, LimiterTypeOK
  <2>3. call' \in [Calls -> Call]
    BY <1>c, <1>type DEF LimiterTypeOK
  <2> QED BY <1>type, <1>same, <2>1, <2>2, <2>3 DEF LimiterTypeOK, Capacity
<1>2. LevelInv'
  BY <1>lev, <1>same, LevelKept
<1>3. ASSUME NEW d \in Calls PROVE CallInv(d)'
  <2>1. CASE d = c
    <3>1. NoCall.pc = "idle" /\ NoCall.at = 0 /\ NoCall.age = 0 /\ call[c].at <= call[c].age
      BY <1>call DEF NoCall, CallInv
    <3> QED BY <1>c, <1>k, <2>1, <3>1 DEF CallInv
  <2>2. CASE d # c
    <3>1. call'[d] = call[d]
      BY <1>c, <1>type, <2>2 DEF LimiterTypeOK
    <3> QED BY <1>call, <1>same, <3>1 DEF CallInv
  <2> QED BY <2>1, <2>2
<1> QED BY <1>1, <1>2, <1>3 DEF BucketInv

\* The bucket in memory, whose clock is the call's.
LEMMA BucketFallback ==
  ASSUME BucketInv, NEW c \in Calls, fallbackAllow(c)
  PROVE  BucketInv'
<1> USE LimiterConstants, CapacityType
<1> DEFINE r == call[c].on
<1>type. LimiterTypeOK
  BY DEF BucketInv
<1>lev. LevelInv
  BY DEF BucketInv
<1>call. \A d \in Calls : CallInv(d)
  BY DEF BucketInv
<1>k. call[c] \in Call /\ r \in Servers /\ mem[r] \in Bucket /\ r \in Stores /\ r # "pg"
  BY <1>type, <1>call DEF fallbackAllow, LimiterTypeOK, CallInv, Call, Stores
<1>u. /\ mem' = [mem EXCEPT ![r] = Taken(mem[r], 0)] /\ Spend(r, mem[r], 0)
      /\ call' = [call EXCEPT ![c] = NoCall]
      /\ UNCHANGED <<row, rowLock, breaker, count, faults, upset>>
  BY DEF fallbackAllow
<1> HIDE DEF r
<1>s. /\ spare' \in [Stores -> Int] /\ spare'[r] >= Level(Taken(mem[r], 0), Capacity(r))
      /\ \A z \in Stores : spare'[z] <= Capacity(z)
      /\ \A z \in Stores \ {r} : spare'[z] = spare[z]
  <2>1. Capacity(r) >= Burst + Rate * 0 /\ 0 \in 0..MaxAge
    BY <1>k
  <2>2. spare[r] >= Level(mem[r], Capacity(r))
    BY <1>lev, <1>k DEF LevelInv
  <2> QED BY <1>k, <1>u, <2>1, <2>2, SpendKept
<1>1. LimiterTypeOK'
  <2>1. Taken(mem[r], 0) \in Bucket
    BY <1>k, RefilledType
  <2>2. mem' \in [Servers -> Bucket]
    BY <1>type, <1>u, <2>1 DEF LimiterTypeOK
  <2>3. NoCall \in Call
    BY DEF NoCall, Call, Phases, Bucket
  <2>4. call' \in [Calls -> Call]
    BY <1>type, <1>u, <2>3 DEF LimiterTypeOK
  <2>5. DOMAIN spare' = Stores
    BY <1>s
  <2> QED BY <1>type, <1>u, <1>s, <2>2, <2>4, <2>5 DEF LimiterTypeOK, Capacity
<1>2. LevelInv'
  <2>1. spare'["pg"] >= Level(row', Capacity("pg"))
    <3>1. "pg" \in Stores \ {r}
      BY <1>k DEF Stores
    <3> QED BY <1>lev, <1>u, <1>s, <3>1 DEF LevelInv
  <2>2. ASSUME NEW q \in Servers PROVE spare'[q] >= Level(mem'[q], Capacity(q))
    <3>1. mem \in [Servers -> Bucket] /\ q \in Stores
      BY <1>type DEF LimiterTypeOK, Stores
    <3>2. CASE q = r
      BY <1>s, <1>u, <3>1, <3>2
    <3>3. CASE q # r
      BY <1>lev, <1>s, <1>u, <3>1, <3>3 DEF LevelInv
    <3> QED BY <3>2, <3>3
  <2> QED BY <1>s, <2>1, <2>2 DEF LevelInv, Level, Capacity
<1>3. ASSUME NEW d \in Calls PROVE CallInv(d)'
  <2>1. CASE d = c
    <3>1. call'[d] = NoCall
      BY <1>type, <1>u, <2>1 DEF LimiterTypeOK
    <3> QED BY <3>1 DEF CallInv, NoCall
  <2>2. CASE d # c
    <3>1. call'[d] = call[d]
      BY <1>type, <1>u, <2>2 DEF LimiterTypeOK
    <3> QED BY <1>call, <1>u, <3>1 DEF CallInv
  <2> QED BY <2>1, <2>2
<1> QED BY <1>1, <1>2, <1>3 DEF BucketInv

LEMMA BucketNext == BucketInv /\ [LimiterNext]_limiterVars => BucketInv'
<1> SUFFICES ASSUME BucketInv, [LimiterNext]_limiterVars PROVE BucketInv'
  OBVIOUS
<1>1. CASE Elapse
  BY <1>1, BucketElapse
<1>2. ASSUME NEW c \in Calls, Step(c) \/ \E r \in Servers : pickStore(c, r) PROVE BucketInv'
  BY <1>2, BucketPick, BucketStatement, BucketUpdate, BucketAnswer, BucketFallback DEF Step
<1>3. CASE UNCHANGED limiterVars
  BY <1>3 DEF BucketInv, LimiterTypeOK, LevelInv, Level, CallInv, Capacity, limiterVars
<1> QED BY <1>1, <1>2, <1>3 DEF LimiterNext

\* The types of the limiter's state hold for every number of replicas and
\* calls.
THEOREM LimiterTypes == LimiterSpec => []LimiterTypeOK
<1>1. BucketInv => LimiterTypeOK
  BY DEF BucketInv
<1> QED BY BucketInit, BucketNext, <1>1, PTL DEF LimiterSpec

\* No store lets through more than a bucket of the same rate would, whatever
\* the replicas do at once, however long they wait for the row's lock and
\* whichever statement fails.
THEOREM LimitKept == LimiterSpec => []WithinLimit
<1>1. BucketInv => WithinLimit
  <2> SUFFICES ASSUME BucketInv, NEW s \in Stores PROVE spare[s] >= 0
    BY DEF WithinLimit
  <2>1. spare[s] \in Int
    BY DEF BucketInv, LevelInv
  <2>2. CASE s = "pg"
    <3>1. Level(row, Capacity("pg")) \in Nat
      BY LevelType, CapacityType DEF BucketInv, LimiterTypeOK
    <3> QED BY <2>1, <2>2, <3>1 DEF BucketInv, LevelInv
  <2>3. CASE s \in Servers
    <3>1. Level(mem[s], Capacity(s)) \in Nat
      BY <2>3, LevelType, CapacityType DEF BucketInv, LimiterTypeOK, Stores
    <3> QED BY <2>1, <2>3, <3>1 DEF BucketInv, LevelInv
  <2> QED BY <2>2, <2>3 DEF Stores
<1> QED BY BucketInit, BucketNext, <1>1, PTL DEF LimiterSpec

-----------------------------------------------------------------------------
(* RateLimiter: the breaker's probe.                                        *)

\* Who probes, call by call.
LEMMA ProbesOf ==
  ASSUME NEW r, NEW d \in Calls
  PROVE  d \in Probes(r) <=> call[d].on = r /\ call[d].primary /\ call[d].probe
  BY DEF Probes, InFlight

\* A step that leaves alone what a call is, or ends calls that do not probe.
LEMMA ProbeKept ==
  ASSUME NEW r \in Servers, ProbeInv(r), Probes(r)' = Probes(r),
         breaker'[r].probing = breaker[r].probing, upset'[r] = upset[r]
  PROVE  ProbeInv(r)'
  BY DEF ProbeInv

\* The choice of the store: a call becomes the probe only when nobody is
\* noted as probing.
LEMMA ProbePick ==
  ASSUME BucketInv, NEW c \in Calls, NEW q \in Servers, pickStore(c, q),
         NEW r \in Servers, ProbeInv(r)
  PROVE  ProbeInv(r)'
<1> DEFINE pr == pickPrimary(breaker[q])
           pb == pickPrimary(breaker[q]) /\ breaker[q].until # Nothing
<1>t. /\ call \in [Calls -> Call] /\ upset \in [Servers -> BOOLEAN]
      /\ breaker \in [Servers -> [until : 0..Cooldown \cup {Nothing}, probing : BOOLEAN]]
  BY DEF BucketInv, LimiterTypeOK
<1>c. call[c] = NoCall /\ ~NoCall.probe
  BY DEF BucketInv, CallInv, pickStore, NoCall
<1>1. /\ call'[c].on = q /\ call'[c].primary = pr /\ call'[c].probe = pb
      /\ \A d \in Calls \ {c} : call'[d] = call[d]
  <2>1. PICK pc : call' = [call EXCEPT ![c] = [NoCall EXCEPT !.on = q, !.primary = pr, !.probe = pb, !.pc = pc]]
    BY DEF pickStore
  <2>2. NoCall \in Call
    BY LimiterConstants DEF NoCall, Call, Phases, Bucket
  <2>3. call'[c] = [NoCall EXCEPT !.on = q, !.primary = pr, !.probe = pb, !.pc = pc]
    BY <1>t, <2>1
  <2> HIDE DEF pr, pb
  <2>4. call'[c].on = q /\ call'[c].primary = pr /\ call'[c].probe = pb
    BY <2>2, <2>3 DEF Call
  <2> QED BY <1>t, <2>1, <2>4
<1>2. \A d \in Calls : d \in Probes(r)' <=> call'[d].on = r /\ call'[d].primary /\ call'[d].probe
  BY DEF Probes, InFlight
<1>3. Probes(r) \subseteq Calls /\ Probes(r)' \subseteq Calls /\ c \notin Probes(r)
  BY <1>c, ProbesOf DEF Probes, InFlight
<1>b. breaker' = [breaker EXCEPT ![q].probing = @ \/ pb]
  BY DEF pickStore
<1>u. upset' = [upset EXCEPT ![q] = @ /\ Probes(q) # {}]
  BY DEF pickStore
<1>4. CASE r # q \/ ~pb
  <2>1. Probes(r)' = Probes(r)
    <3> SUFFICES ASSUME NEW d \in Calls PROVE d \in Probes(r)' <=> d \in Probes(r)
      BY <1>3
    <3>1. CASE d = c
      BY <1>1, <1>2, <1>3, <1>4, <3>1
    <3>2. CASE d # c
      BY <1>1, <1>2, <3>2, ProbesOf
    <3> QED BY <3>1, <3>2
  <2>2. breaker'[r].probing = breaker[r].probing
    <3>1. CASE r # q
      BY <1>b, <1>t, <3>1
    <3>2. CASE r = q
      <4>1. ~pb /\ breaker[r].probing \in BOOLEAN
        BY <1>4, <1>t, <3>2
      <4> HIDE DEF pb
      <4>2. breaker'[r].probing = (breaker[r].probing \/ pb)
        BY <1>b, <1>t, <3>2
      <4> QED BY <4>1, <4>2
    <3> QED BY <3>1, <3>2
  <2>3. upset'[r] = upset[r] \/ (~upset'[r] /\ Probes(r) = {})
    <3>1. CASE r # q
      BY <1>t, <1>u, <3>1
    <3>2. CASE r = q
      <4>1. upset'[r] = (upset[r] /\ Probes(r) # {}) /\ upset[r] \in BOOLEAN
        BY <1>t, <1>u, <3>2
      <4> QED BY <4>1
    <3> QED BY <3>1, <3>2
  <2> QED BY <2>1, <2>2, <2>3 DEF ProbeInv
<1>5. CASE r = q /\ pb
  <2>1. Probes(r)' = Probes(r) \cup {c}
    <3> SUFFICES ASSUME NEW d \in Calls PROVE d \in Probes(r)' <=> d \in Probes(r) \/ d = c
      BY <1>3
    <3>1. CASE d = c
      BY <1>1, <1>2, <1>5, <3>1
    <3>2. CASE d # c
      BY <1>1, <1>2, <3>2, ProbesOf
    <3> QED BY <3>1, <3>2
  <2>2. ~breaker[r].probing
    BY <1>5 DEF pickPrimary
  <2>3. breaker'[r].probing
    <3> HIDE DEF pb
    <3>1. breaker'[r].probing = (breaker[r].probing \/ pb)
      BY <1>b, <1>t, <1>5
    <3> QED BY <1>5, <3>1
  <2>4. upset'[r] = (upset[r] /\ Probes(r) # {})
    BY <1>t, <1>u, <1>5
  <2>5. ~upset'[r] => Probes(r) = {}
    BY <2>2, <2>4 DEF ProbeInv
  <2>6. ~upset'[r] => \A x, y \in Probes(r)' : x = y
    BY <2>1, <2>5
  <2> QED BY <2>1, <2>3, <2>6 DEF ProbeInv
<1> QED BY <1>4, <1>5

\* The answer: the probe's ends it; one of an earlier call clears the note of
\* the probe, and is counted as a disturbance.
LEMMA ProbeAnswer ==
  ASSUME BucketInv, NEW c \in Calls, onPrimarySuccess(c) \/ onPrimaryError(c),
         NEW r \in Servers, ProbeInv(r)
  PROVE  ProbeInv(r)'
<1> DEFINE q == call[c].on
<1>t. /\ call \in [Calls -> Call] /\ upset \in [Servers -> BOOLEAN]
      /\ breaker \in [Servers -> [until : 0..Cooldown \cup {Nothing}, probing : BOOLEAN]]
  BY DEF BucketInv, LimiterTypeOK
<1>k. q \in Servers /\ call[c].primary
  BY DEF BucketInv, CallInv, onPrimarySuccess, onPrimaryError
<1>1. ~call'[c].primary /\ \A d \in Calls \ {c} : call'[d] = call[d]
  <2>1. CASE onPrimarySuccess(c)
    BY <1>t, <2>1 DEF onPrimarySuccess, NoCall
  <2>2. CASE onPrimaryError(c)
    <3>1. call' = [call EXCEPT ![c].pc = "fallback", ![c].primary = FALSE]
      BY <2>2 DEF onPrimaryError
    <3> QED BY <1>t, <3>1 DEF Call
  <2> QED BY <2>1, <2>2
<1>2. \A d \in Calls : d \in Probes(r)' <=> call'[d].on = r /\ call'[d].primary /\ call'[d].probe
  BY DEF Probes, InFlight
<1>3. Probes(r) \subseteq Calls /\ Probes(r)' \subseteq Calls
  BY DEF Probes, InFlight
<1>4. Probes(r)' = Probes(r) \ {c}
  <2> SUFFICES ASSUME NEW d \in Calls PROVE d \in Probes(r)' <=> d \in Probes(r) /\ d # c
    BY <1>3
  <2>1. CASE d = c
    BY <1>1, <1>2, <2>1
  <2>2. CASE d # c
    BY <1>1, <1>2, <2>2, ProbesOf
  <2> QED BY <2>1, <2>2
<1>b. PICK u : breaker' = [breaker EXCEPT ![q] = [until |-> u, probing |-> FALSE]]
  BY DEF onPrimarySuccess, onPrimaryError
<1>u. upset' = [upset EXCEPT ![q] = @ \/ (~call[c].probe /\ Probes(q) # {})]
  BY DEF onPrimarySuccess, onPrimaryError, Disturbed
<1>5. CASE r # q
  <2>1. c \notin Probes(r)
    BY <1>5, ProbesOf
  <2> QED BY <1>b, <1>u, <1>t, <1>4, <1>5, <2>1, ProbeKept
<1>6. CASE r = q
  <2>1. ~breaker'[r].probing
    BY <1>b, <1>t, <1>k, <1>6
  <2>2. upset'[r] = (upset[r] \/ (~call[c].probe /\ Probes(r) # {}))
    BY <1>u, <1>t, <1>k, <1>6
  <2>3. c \in Probes(r) <=> call[c].probe
    BY <1>6, <1>k, ProbesOf
  <2>4. ~upset'[r] => Probes(r)' = {}
    BY <1>4, <2>2, <2>3 DEF ProbeInv
  <2> QED BY <2>1, <2>4 DEF ProbeInv
<1> QED BY <1>5, <1>6

\* Any other step leaves alone who probes.
LEMMA ProbeOther ==
  ASSUME BucketInv, NEW r \in Servers, ProbeInv(r), NEW c \in Calls,
         \/ cleanup(c) \/ begin(c) \/ seed(c) \/ selectForUpdate(c) \/ update(c)
         \/ primaryFails(c) \/ fallbackAllow(c)
  PROVE  ProbeInv(r)'
<1>t. call \in [Calls -> Call]
  BY DEF BucketInv, LimiterTypeOK
<1>s. UNCHANGED <<breaker, upset>>
  BY DEF cleanup, begin, seed, selectForUpdate, update, primaryFails, fallbackAllow
<1>1. /\ \A d \in Calls \ {c} : call'[d] = call[d]
      /\ \/ ~call[c].primary /\ ~call'[c].primary
         \/ call'[c].on = call[c].on /\ call'[c].primary = call[c].primary
            /\ call'[c].probe = call[c].probe
  <2>1. CASE cleanup(c)
    BY <1>t, <2>1 DEF cleanup, Move, Call
  <2>2. CASE begin(c)
    BY <1>t, <2>2 DEF begin, Move, Call
  <2>3. CASE seed(c)
    BY <1>t, <2>3 DEF seed, Move, Call
  <2>4. CASE selectForUpdate(c)
    BY <1>t, <2>4 DEF selectForUpdate, Move, Call
  <2>5. CASE update(c) \/ primaryFails(c)
    <3>1. PICK pc : call' = [call EXCEPT ![c].pc = pc, ![c].at = 0, ![c].got = Nothing, ![c].mine = FALSE]
      BY <2>5 DEF update, primaryFails
    <3> QED BY <1>t, <3>1 DEF Call
  <2>6. CASE fallbackAllow(c)
    <3>1. ~call[c].primary
      BY <2>6 DEF BucketInv, CallInv, fallbackAllow
    <3> QED BY <1>t, <2>6, <3>1 DEF fallbackAllow, NoCall
  <2> QED BY <2>1, <2>2, <2>3, <2>4, <2>5, <2>6
<1>2. \A d \in Calls : d \in Probes(r)' <=> call'[d].on = r /\ call'[d].primary /\ call'[d].probe
  BY DEF Probes, InFlight
<1>3. Probes(r) \subseteq Calls /\ Probes(r)' \subseteq Calls
  BY DEF Probes, InFlight
<1>4. Probes(r)' = Probes(r)
  <2> SUFFICES ASSUME NEW d \in Calls PROVE d \in Probes(r)' <=> d \in Probes(r)
    BY <1>3
  <2>1. CASE d = c
    BY <1>1, <1>2, <2>1, ProbesOf
  <2>2. CASE d # c
    BY <1>1, <1>2, <2>2, ProbesOf
  <2> QED BY <2>1, <2>2
<1> QED BY <1>s, <1>4, ProbeKept

\* Time passes: a breaker that opened comes closer to its probe.
LEMMA ProbeElapse ==
  ASSUME BucketInv, NEW r \in Servers, ProbeInv(r), Elapse
  PROVE  ProbeInv(r)'
<1>t. /\ call \in [Calls -> Call]
      /\ breaker \in [Servers -> [until : 0..Cooldown \cup {Nothing}, probing : BOOLEAN]]
  BY DEF BucketInv, LimiterTypeOK
<1>s. upset' = upset
  BY DEF Elapse
<1>b. breaker'[r].probing = breaker[r].probing
  <2>1. breaker'[r] = [breaker[r] EXCEPT
                   !.until = IF @ = Nothing THEN Nothing ELSE AtLeast(0, @ - 1)]
    BY DEF Elapse
  <2> QED BY <1>t, <2>1
<1>1. ASSUME NEW d \in Calls
      PROVE  /\ call'[d].on = call[d].on /\ call'[d].primary = call[d].primary
             /\ call'[d].probe = call[d].probe
  <2> DEFINE older(b) == IF b = Nothing THEN b ELSE [b EXCEPT !.age = AtMost(Oldest, @ + 1)]
  <2>1. call'[d] = IF call[d].pc = "idle" THEN call[d]
                   ELSE [call[d] EXCEPT !.age = @ + 1, !.got = older(@),
                            !.at = IF call[d].pc \in InTransaction THEN @ + 1 ELSE 0]
    BY DEF Elapse
  <2> HIDE DEF older
  <2> QED BY <1>t, <2>1 DEF Call
<1>2. Probes(r)' = Probes(r)
  BY <1>1 DEF Probes, InFlight
<1> QED BY <1>s, <1>b, <1>2, ProbeKept

LEMMA ProbeNext ==
  ASSUME BucketInv, NEW r \in Servers, ProbeInv(r), [LimiterNext]_limiterVars
  PROVE  ProbeInv(r)'
<1>1. CASE Elapse
  BY <1>1, ProbeElapse
<1>2. ASSUME NEW c \in Calls, Step(c) PROVE ProbeInv(r)'
  BY <1>2, ProbeOther, ProbeAnswer DEF Step
<1>3. ASSUME NEW c \in Calls, NEW q \in Servers, pickStore(c, q) PROVE ProbeInv(r)'
  BY <1>3, ProbePick
<1>4. CASE UNCHANGED limiterVars
  BY <1>4 DEF ProbeInv, Probes, InFlight, limiterVars
<1> QED BY <1>1, <1>2, <1>3, <1>4 DEF LimiterNext

\* What is known of the limiter in every state.
LEMMA LimiterInvariant == LimiterSpec => [](BucketInv /\ \A r \in Servers : ProbeInv(r))
<1>1. LimiterInit => \A r \in Servers : ProbeInv(r)
  BY DEF LimiterInit, ProbeInv, Probes, InFlight, NoCall
<1>2. BucketInv /\ (\A r \in Servers : ProbeInv(r)) /\ [LimiterNext]_limiterVars
        => (\A r \in Servers : ProbeInv(r))'
  BY ProbeNext
<1> QED BY BucketInit, BucketNext, <1>1, <1>2, PTL DEF LimiterSpec

\* The breaker says that somebody probes only while somebody does: it never
\* keeps a replica on the fallback for an answer that will not come.
THEOREM ProbeNeverLost == LimiterSpec => []ProbeHeld
<1>1. (\A r \in Servers : ProbeInv(r)) => ProbeHeld
  BY DEF ProbeInv, ProbeHeld
<1> QED BY LimiterInvariant, <1>1, PTL

\* There is one probe at a time, unless a call from before the breaker opened
\* has ended in between.
THEOREM OneProbe == LimiterSpec => []ProbeAlone
<1>1. (\A r \in Servers : ProbeInv(r)) => ProbeAlone
  <2> SUFFICES ASSUME NEW r \in Servers, ProbeInv(r), ~upset[r] PROVE Cardinality(Probes(r)) <= 1
    BY DEF ProbeAlone
  <2>1. CASE Probes(r) = {}
    BY <2>1, FS_EmptySet
  <2>2. CASE Probes(r) # {}
    <3>1. PICK p : Probes(r) = {p}
      BY <2>2 DEF ProbeInv
    <3>2. Cardinality({p}) = 1
      BY FS_Singleton
    <3> QED BY <3>1, <3>2
  <2> QED BY <2>1, <2>2
<1> QED BY LimiterInvariant, <1>1, PTL

-----------------------------------------------------------------------------
(* Accounts.                                                                *)

\* A verify call that has claimed its challenge, or its recovery code, and
\* has not created the session yet.
HoldsChal(c) == req[c].op = "verify" /\ req[c].pc = "issue"
HoldsCode(c) == req[c].op = "verify" /\ req[c].pc \in {"mark", "issue"} /\ req[c].code # Null

\* A call that is about to sign the first token of a session.
Signs(c) == req[c].op \in {"login", "verify"} /\ req[c].pc = "token"

\* What the rows a request works on are.
RowsInv(c) ==
  /\ req[c].op = "verify" => /\ req[c].chal \in Challenges
                             /\ req[c].pc = "claim" => req[c].code \in Codes
  /\ req[c].op = "login" => req[c].chal = Null /\ req[c].code = Null
  /\ Signs(c) => /\ req[c].s \in Sessions
                 /\ sess[req[c].s].state # "none" /\ sess[req[c].s].iat = Null
  /\ req[c].op = "switch" => req[c].s \in Sessions /\ sess[req[c].s].iat # Null

\* No two calls sign for the same row.
SignsAlone == \A c, d \in Clients : c # d /\ Signs(c) /\ Signs(d) => req[c].s # req[d].s

\* A challenge that completed a login, or is about to, is used, by one only.
ChalInv ==
  /\ \A s \in Sessions : sess[s].chal # Null => chal[sess[s].chal] = "used"
  /\ \A c \in Clients : HoldsChal(c) => /\ chal[req[c].chal] = "used"
                                        /\ \A s \in Sessions : sess[s].chal # req[c].chal
  /\ \A c, d \in Clients : c # d /\ HoldsChal(c) /\ HoldsChal(d) => req[c].chal # req[d].chal
  /\ \A s, r \in Sessions : s # r /\ sess[s].chal # Null => sess[s].chal # sess[r].chal

\* The same for a recovery code, which may have been replaced since.
CodeInv ==
  /\ \A s \in Sessions : sess[s].code # Null => code[sess[s].code] \in {"used", "deleted"}
  /\ \A c \in Clients : HoldsCode(c) => /\ code[req[c].code] \in {"used", "deleted"}
                                        /\ \A s \in Sessions : sess[s].code # req[c].code
  /\ \A c, d \in Clients : c # d /\ HoldsCode(c) /\ HoldsCode(d) => req[c].code # req[d].code
  /\ \A s, r \in Sessions : s # r /\ sess[s].code # Null => sess[s].code # sess[r].code

\* A session that was told to end is revoked, or its token is too old and no
\* fresh one is on its way.
EndedInv(s) ==
  /\ sess[s].state = "none" => sess[s].iat = Null
  /\ sess[s].iat # Null => sess[s].iat <= now
  /\ s \in ended =>
       \/ sess[s].state = "revoked"
       \/ /\ sess[s].iat # Null /\ revokedAt # Null /\ sess[s].iat <= revokedAt
          /\ \A c \in Clients : ~(req[c].op = "switch" /\ req[c].s = s)

AccountInv ==
  /\ TypeOK /\ (\A c \in Clients : RowsInv(c)) /\ SignsAlone
  /\ ChalInv /\ CodeInv /\ \A s \in Sessions : EndedInv(s)

-----------------------------------------------------------------------------
\* Null is no row and no instant.
LEMMA AccountConstants ==
  /\ Null \notin Sessions /\ Null \notin Challenges /\ Null \notin Codes /\ Null \notin Tokens
  /\ Null \notin Nat /\ MaxTime \in Nat /\ MaxChanges \in Nat
  BY NullAssumption

LEMMA NoRequestType == NoRequest \in Request
  BY AccountConstants DEF NoRequest, Request, Times

LEMMA AccountTypesInit == Init => TypeOK
<1> SUFFICES ASSUME Init PROVE TypeOK
  OBVIOUS
<1>1. NoSession \in Session
  BY DEF NoSession, Session
<1>2. code \in [Codes -> {"none", "unused", "used", "deleted"}] /\ secret \in {"none", "pending", "enabled"}
  BY DEF Init
<1> QED BY <1>1, <1>2, NoRequestType, AccountConstants DEF Init, TypeOK, Times, RowStates

\* The fields that a request may be given.
LEMMA RequestTypes ==
  ASSUME TypeOK, NEW c \in Clients
  PROVE  /\ \A pc \in {"start", "challenge", "issue", "token", "code", "claim", "mark", "write",
                        "update", "used", "others", "revoke", "codes", "commit"} :
              Goto(c, pc) => req' \in [Clients -> Request]
         /\ End(c) => req' \in [Clients -> Request]
         /\ \A r \in Request : Begin(c, r) => req' \in [Clients -> Request]
<1>1. req \in [Clients -> Request] /\ req[c] \in Request
  BY DEF TypeOK
<1>2. ASSUME NEW pc \in {"start", "challenge", "issue", "token", "code", "claim", "mark", "write",
                        "update", "used", "others", "revoke", "codes", "commit"}
      PROVE  [req[c] EXCEPT !.pc = pc] \in Request
  BY <1>1 DEF Request
<1>3. ASSUME NEW pc \in {"start", "challenge", "issue", "token", "code", "claim", "mark", "write",
                        "update", "used", "others", "revoke", "codes", "commit"}, Goto(c, pc)
      PROVE  req' \in [Clients -> Request]
  BY <1>1, <1>2, <1>3 DEF Goto
<1> QED BY <1>1, <1>3, NoRequestType DEF End, Begin

LEMMA LoginTypes ==
  ASSUME TypeOK, NEW c \in Clients, LoginStep(c)
  PROVE  TypeOK'
<1> USE AccountConstants
<1>t. /\ req[c] \in Request /\ req \in [Clients -> Request] /\ now \in Times
      /\ sess \in [Sessions -> Session]
  BY DEF TypeOK
<1>1. CASE Login(c)
  <2>1. [NoRequest EXCEPT !.op = "login", !.pc = IF secret = "enabled" THEN "challenge" ELSE "issue"] \in Request
    BY NoRequestType DEF Request
  <2> QED BY <1>1, <2>1, RequestTypes DEF Login, TypeOK
<1>2. CASE issueTwoFactorChallenge(c)
  BY <1>2, RequestTypes DEF issueTwoFactorChallenge, TypeOK, RowStates
<1>3. CASE VerifyTwoFactor(c)
  <2>1. ASSUME NEW h \in Challenges, NEW pc \in {"code", "mark"}
        PROVE  [NoRequest EXCEPT !.op = "verify", !.pc = pc, !.chal = h] \in Request
    BY NoRequestType DEF Request
  <2>2. req' \in [Clients -> Request]
    BY <1>3, <2>1, RequestTypes DEF VerifyTwoFactor
  <2> QED BY <1>3, <2>2 DEF VerifyTwoFactor, TypeOK
<1>4. CASE ListRecoveryCodes(c)
  <2>1. PICK k \in Codes : req' = [req EXCEPT ![c].code = k, ![c].pc = "claim"]
    BY <1>4 DEF ListRecoveryCodes
  <2>2. [req[c] EXCEPT !.code = k, !.pc = "claim"] \in Request
    BY <1>t DEF Request
  <2>3. req' = [req EXCEPT ![c] = [req[c] EXCEPT !.code = k, !.pc = "claim"]]
    BY <1>t, <2>1
  <2>4. req' \in [Clients -> Request]
    BY <1>t, <2>2, <2>3
  <2> QED BY <1>4, <2>4 DEF ListRecoveryCodes, TypeOK
<1>5. CASE ConsumeRecoveryCode(c)
  BY <1>5, RequestTypes DEF ConsumeRecoveryCode, TypeOK
<1>6. CASE MarkUsed(c)
  BY <1>6, RequestTypes DEF MarkUsed, TypeOK, RowStates
<1>7. CASE CreateSession(c)
  <2>1. PICK s \in Sessions :
          /\ sess' = [sess EXCEPT ![s] = [state |-> "live", iat |-> Null,
                                          chal |-> req[c].chal, code |-> req[c].code]]
          /\ req' = [req EXCEPT ![c].s = s, ![c].pc = "token"]
    BY <1>7 DEF CreateSession
  <2>2. [req[c] EXCEPT !.s = s, !.pc = "token"] \in Request
    BY <1>t DEF Request
  <2>3. req' = [req EXCEPT ![c] = [req[c] EXCEPT !.s = s, !.pc = "token"]]
    BY <1>t, <2>1
  <2>4. req' \in [Clients -> Request]
    BY <1>t, <2>2, <2>3
  <2>5. [state |-> "live", iat |-> Null, chal |-> req[c].chal, code |-> req[c].code] \in Session
    BY <1>t DEF Session, Request
  <2>6. sess' \in [Sessions -> Session]
    BY <1>t, <2>1, <2>5
  <2> QED BY <1>7, <2>4, <2>6 DEF CreateSession, TypeOK
<1>8. CASE IssueSessionWithTenant(c)
  <2>1. sess' = [sess EXCEPT ![req[c].s].iat = now]
    BY <1>8 DEF IssueSessionWithTenant
  <2>2. \A s \in Sessions : [sess[s] EXCEPT !.iat = now] \in Session
    BY <1>t DEF Session
  <2>3. sess' \in [Sessions -> Session]
    BY <1>t, <2>1, <2>2
  <2> QED BY <1>8, <2>3, RequestTypes DEF IssueSessionWithTenant, TypeOK
<1>9. CASE SwitchTenant(c)
  <2>1. ASSUME NEW s \in Sessions
        PROVE  [NoRequest EXCEPT !.op = "switch", !.pc = "token", !.s = s] \in Request
    BY NoRequestType DEF Request
  <2>2. req' \in [Clients -> Request]
    BY <1>9, <2>1, RequestTypes DEF SwitchTenant
  <2> QED BY <1>9, <2>2 DEF SwitchTenant, TypeOK
<1> QED BY <1>1, <1>2, <1>3, <1>4, <1>5, <1>6, <1>7, <1>8, <1>9 DEF LoginStep

LEMMA CredentialTypes ==
  ASSUME TypeOK, NEW c \in Clients, CredentialStep(c)
  PROVE  TypeOK'
<1> USE AccountConstants
<1>t. /\ req[c] \in Request /\ req \in [Clients -> Request] /\ now \in Times /\ req[c].at \in Times
      /\ changes \in 0..MaxChanges /\ Times \subseteq Nat
  BY DEF TypeOK, Request, Times
<1>1. CASE ChangePassword(c)
  <2>1. [NoRequest EXCEPT !.op = "change", !.pc = "write", !.at = now] \in Request
    BY <1>t, NoRequestType DEF Request
  <2>2. req' \in [Clients -> Request] /\ changes' \in 0..MaxChanges
    BY <1>1, <1>t, <2>1, RequestTypes DEF ChangePassword
  <2> QED BY <1>1, <2>2 DEF ChangePassword, TypeOK
<1>2. CASE PasswordChanged(c)
  BY <1>2, <1>t, RequestTypes DEF PasswordChanged, TypeOK, Told, Issued
<1>3. CASE Confirm(c)
  <2>1. ASSUME NEW t \in Tokens
        PROVE  [NoRequest EXCEPT !.op = "reset", !.pc = "update", !.token = t] \in Request
    BY NoRequestType DEF Request
  <2>2. req' \in [Clients -> Request]
    BY <1>3, <2>1, RequestTypes DEF Confirm
  <2>3. changes' \in 0..MaxChanges
    BY <1>3, <1>t DEF Confirm
  <2> QED BY <1>3, <2>2, <2>3 DEF Confirm, TypeOK
<1>4. CASE UpdatePasswordHash(c)
  BY <1>4, <1>t, RequestTypes DEF UpdatePasswordHash, TypeOK
<1>5. CASE MarkTokenUsed(c)
  BY <1>5, RequestTypes DEF MarkTokenUsed, TypeOK, RowStates
<1>6. CASE InvalidateOtherPending(c)
  BY <1>6, RequestTypes DEF InvalidateOtherPending, TypeOK, RowStates
<1>7. CASE RevokeSessions(c)
  BY <1>7, <1>t, RequestTypes DEF RevokeSessions, TypeOK, Told, Issued
<1> QED BY <1>1, <1>2, <1>3, <1>4, <1>5, <1>6, <1>7 DEF CredentialStep

LEMMA TwoFactorTypes ==
  ASSUME TypeOK, NEW c \in Clients, TwoFactorStep(c)
  PROVE  TypeOK'
<1>0. \A op \in {"enroll", "confirm", "disable"} : [NoRequest EXCEPT !.op = op, !.pc = "write"] \in Request
  BY NoRequestType DEF Request
<1>1. CASE Enroll(c)
  BY <1>0, <1>1, RequestTypes DEF Enroll, TypeOK
<1>2. CASE CreatePendingSecret(c)
  BY <1>2, RequestTypes DEF CreatePendingSecret, TypeOK
<1>3. CASE Confirm2FA(c)
  BY <1>0, <1>3, RequestTypes DEF Confirm2FA, TypeOK
<1>4. CASE ConfirmSecret(c)
  BY <1>4, RequestTypes DEF ConfirmSecret, TypeOK
<1>5. CASE CreateRecoveryCodes(c)
  BY <1>5, RequestTypes DEF CreateRecoveryCodes, Replaced, TypeOK
<1>6. CASE ConfirmCommit(c)
  BY <1>6, RequestTypes DEF ConfirmCommit, TypeOK
<1>7. CASE Disable2FA(c)
  BY <1>0, <1>7, RequestTypes DEF Disable2FA, TypeOK
<1>8. CASE DeleteSecret(c)
  BY <1>8, RequestTypes DEF DeleteSecret, TypeOK
<1>9. CASE DeleteRecoveryCodes(c)
  BY <1>9, RequestTypes DEF DeleteRecoveryCodes, TypeOK
<1> QED BY <1>1, <1>2, <1>3, <1>4, <1>5, <1>6, <1>7, <1>8, <1>9 DEF TwoFactorStep

LEMMA RevokeTypes ==
  ASSUME TypeOK, NEW S \in SUBSET Sessions, RevokeRows(S)
  PROVE  TypeOK'
<1>1. \A s \in Sessions : [sess[s] EXCEPT !.state = "revoked"] \in Session
  BY DEF TypeOK, Session
<1>2. sess' \in [Sessions -> Session]
  BY <1>1 DEF RevokeRows, TypeOK
<1> QED BY <1>2 DEF RevokeRows, TypeOK

LEMMA AccountTypesNext == TypeOK /\ [Next]_vars => TypeOK'
<1> SUFFICES ASSUME TypeOK, [Next]_vars PROVE TypeOK'
  OBVIOUS
<1>1. CASE Tick
  BY <1>1, AccountConstants DEF Tick, TypeOK, Times
<1>2. CASE Expire
  BY <1>2 DEF Expire, TypeOK, RowStates
<1>3. CASE Logout
  BY <1>3, RevokeTypes DEF Logout
<1>4. CASE Revoke
  BY <1>4, RevokeTypes DEF Revoke, Issued
<1>5. CASE RevokeAllForUser
  BY <1>5, RevokeTypes DEF RevokeAllForUser
<1>6. ASSUME NEW t \in Tokens, issueAndSendPasswordReset(t) PROVE TypeOK'
  BY <1>6 DEF issueAndSendPasswordReset, TypeOK, RowStates
<1>7. ASSUME NEW c \in Clients, LoginStep(c) \/ CredentialStep(c) \/ TwoFactorStep(c) \/ Fail(c)
      PROVE  TypeOK'
  <2>1. CASE Fail(c)
    BY <2>1, RequestTypes DEF Fail, TypeOK
  <2> QED BY <1>7, <2>1, LoginTypes, CredentialTypes, TwoFactorTypes
<1>8. CASE UNCHANGED vars
  BY <1>8 DEF vars, TypeOK
<1> QED BY <1>1, <1>2, <1>3, <1>4, <1>5, <1>6, <1>7, <1>8 DEF Next

-----------------------------------------------------------------------------
\* A request that has claimed nothing and signs nothing new.
Quiet(r) ==
  /\ r.op = "verify" => /\ r.chal \in Challenges /\ r.pc \in {"code", "claim", "mark"}
                        /\ r.pc = "claim" => r.code \in Codes
                        /\ r.pc = "mark" => r.code = Null
  /\ r.op = "login" => r.chal = Null /\ r.code = Null /\ r.pc \in {"challenge", "issue"}
  /\ r.op = "switch" => r.s \in Sessions /\ Accepted(r.s)

\* What was used stays used.
StaysUsed ==
  /\ \A h \in Challenges : chal[h] = "used" => chal'[h] = "used"
  /\ \A k \in Codes : code[k] \in {"used", "deleted"} => code'[k] \in {"used", "deleted"}

\* The holders of challenges and codes stay as they are when requests that
\* hold none come and go.
LEMMA FactorKept ==
  ASSUME AccountInv, TypeOK', StaysUsed,
         \A s \in Sessions : sess'[s].chal = sess[s].chal /\ sess'[s].code = sess[s].code,
         \A c \in Clients : req'[c] = req[c] \/ (~HoldsChal(c)' /\ ~HoldsCode(c)')
  PROVE  ChalInv' /\ CodeInv'
<1>t. /\ \A s \in Sessions : sess[s].chal \in Challenges \cup {Null} /\ sess[s].code \in Codes \cup {Null}
      /\ \A c \in Clients : req[c].code \in Codes \cup {Null}
  BY DEF AccountInv, TypeOK, Session, Request
<1>h. \A c \in Clients : HoldsChal(c)' => HoldsChal(c) /\ req'[c] = req[c] /\ req[c].chal \in Challenges
  BY DEF HoldsChal, HoldsCode, AccountInv, RowsInv
<1>k. \A c \in Clients : HoldsCode(c)' => HoldsCode(c) /\ req'[c] = req[c] /\ req[c].code \in Codes
  BY <1>t DEF HoldsChal, HoldsCode
<1>1. ChalInv'
  <2>1. ChalInv
    BY DEF AccountInv
  <2> QED BY <1>t, <1>h, <2>1 DEF ChalInv, StaysUsed
<1>2. CodeInv'
  <2>1. CodeInv
    BY DEF AccountInv
  <2> QED BY <1>t, <1>k, <2>1 DEF CodeInv, StaysUsed
<1> QED BY <1>1, <1>2

\* The sessions stay as they are, too.
LEMMA QuietKept ==
  ASSUME AccountInv, TypeOK', StaysUsed, UNCHANGED <<sess, ended, revokedAt>>, now' >= now,
         \A c \in Clients : req'[c] = req[c] \/ Quiet(req'[c])
  PROVE  AccountInv'
<1>t. /\ \A s \in Sessions : sess[s].iat \in Nat \cup {Null}
      /\ now \in Nat /\ now' \in Nat
  BY AccountConstants DEF AccountInv, TypeOK, Session, Times
<1>1. ASSUME NEW c \in Clients PROVE RowsInv(c)'
  BY DEF AccountInv, RowsInv, Quiet, Signs, Accepted
<1>2. SignsAlone'
  BY DEF AccountInv, SignsAlone, Quiet, Signs
<1>3. ASSUME NEW c \in Clients PROVE req'[c] = req[c] \/ (~HoldsChal(c)' /\ ~HoldsCode(c)')
  BY DEF Quiet, HoldsChal, HoldsCode
<1>4. ChalInv' /\ CodeInv'
  BY <1>3, FactorKept
<1>5. ASSUME NEW s \in Sessions PROVE EndedInv(s)'
  <2>1. EndedInv(s)
    BY DEF AccountInv
  <2>2. s \in ended => ~Accepted(s)
    BY <2>1, AccountConstants DEF EndedInv, Accepted, AccountInv, TypeOK, Times, Session
  <2>3. ASSUME NEW c \in Clients, s \in ended, req'[c].op = "switch", req'[c].s = s
        PROVE  req[c].op = "switch" /\ req[c].s = s
    BY <2>2, <2>3 DEF Quiet
  <2>4. sess'[s].iat # Null => sess'[s].iat <= now'
    BY <1>t, <2>1 DEF EndedInv
  <2> QED BY <2>1, <2>3, <2>4 DEF EndedInv
<1> QED BY <1>1, <1>2, <1>4, <1>5 DEF AccountInv

\* A request that begins, moves or ends: what the other requests are is known.
LEMMA OneRequest ==
  ASSUME TypeOK, NEW c \in Clients
  PROVE  /\ End(c) => req'[c] = NoRequest /\ \A d \in Clients \ {c} : req'[d] = req[d]
         /\ \A r : Begin(c, r) => req'[c] = r /\ \A d \in Clients \ {c} : req'[d] = req[d]
         /\ \A pc : Goto(c, pc) => /\ req'[c].pc = pc /\ req'[c].op = req[c].op
                                   /\ req'[c].s = req[c].s /\ req'[c].chal = req[c].chal
                                   /\ req'[c].code = req[c].code
                                   /\ \A d \in Clients \ {c} : req'[d] = req[d]
<1>1. req \in [Clients -> Request] /\ req[c] \in Request
  BY DEF TypeOK
<1>2. ASSUME NEW pc, Goto(c, pc)
      PROVE  /\ req'[c].pc = pc /\ req'[c].op = req[c].op
             /\ req'[c].s = req[c].s /\ req'[c].chal = req[c].chal
             /\ req'[c].code = req[c].code
             /\ \A d \in Clients \ {c} : req'[d] = req[d]
  <2>1. req' = [req EXCEPT ![c].pc = pc]
    BY <1>2 DEF Goto
  <2> QED BY <1>1, <2>1 DEF Request
<1> QED BY <1>1, <1>2 DEF End, Begin

LEMMA QuietNoRequest == Quiet(NoRequest)
  BY DEF Quiet, NoRequest

\* The handlers that only begin, and the statements that neither claim a
\* factor nor touch a session.
LEMMA QuietActions ==
  ASSUME AccountInv, TypeOK', NEW c \in Clients,
         \/ Login(c) \/ issueTwoFactorChallenge(c) \/ VerifyTwoFactor(c) \/ ListRecoveryCodes(c)
         \/ SwitchTenant(c) \/ ChangePassword(c) \/ Confirm(c) \/ UpdatePasswordHash(c)
         \/ MarkTokenUsed(c) \/ InvalidateOtherPending(c) \/ TwoFactorStep(c) \/ Fail(c)
  PROVE  AccountInv'
<1>t. TypeOK /\ RowsInv(c) /\ code \in [Codes -> {"none", "unused", "used", "deleted"}]
      /\ chal \in [Challenges -> RowStates] /\ req \in [Clients -> Request]
      /\ req[c] \in Request /\ now \in Nat
  BY AccountConstants DEF AccountInv, TypeOK, Times
<1>1. CASE Login(c)
  <2>1. PICK pc \in {"challenge", "issue"} : Begin(c, [NoRequest EXCEPT !.op = "login", !.pc = pc])
    BY <1>1 DEF Login
  <2>2. Quiet([NoRequest EXCEPT !.op = "login", !.pc = pc])
    BY DEF NoRequest, Quiet
  <2>3. UNCHANGED <<sess, ended, revokedAt, now, chal, code>>
    BY <1>1 DEF Login
  <2> QED BY <1>t, <2>1, <2>2, <2>3, OneRequest, QuietKept DEF StaysUsed
<1>2. CASE issueTwoFactorChallenge(c)
  <2>1. StaysUsed
    BY <1>2, <1>t DEF issueTwoFactorChallenge, StaysUsed
  <2>2. UNCHANGED <<sess, ended, revokedAt, now>> /\ End(c)
    BY <1>2 DEF issueTwoFactorChallenge
  <2> QED BY <1>t, <2>1, <2>2, OneRequest, QuietNoRequest, QuietKept
<1>3. CASE VerifyTwoFactor(c)
  <2>1. PICK h \in Challenges, pc \in {"code", "mark"} :
          Begin(c, [NoRequest EXCEPT !.op = "verify", !.pc = pc, !.chal = h])
    BY <1>3 DEF VerifyTwoFactor
  <2>2. Quiet([NoRequest EXCEPT !.op = "verify", !.pc = pc, !.chal = h])
    BY DEF NoRequest, Quiet
  <2>3. UNCHANGED <<sess, ended, revokedAt, now, chal, code>>
    BY <1>3 DEF VerifyTwoFactor
  <2> QED BY <1>t, <2>1, <2>2, <2>3, OneRequest, QuietKept DEF StaysUsed
<1>4. CASE ListRecoveryCodes(c)
  <2>1. PICK k \in Codes : req' = [req EXCEPT ![c].code = k, ![c].pc = "claim"]
    BY <1>4 DEF ListRecoveryCodes
  <2>2. /\ req'[c].op = req[c].op /\ req'[c].chal = req[c].chal /\ req'[c].code = k
        /\ req'[c].pc = "claim" /\ \A d \in Clients \ {c} : req'[d] = req[d]
    BY <1>t, <2>1 DEF Request
  <2>3. req[c].op = "verify" /\ req[c].chal \in Challenges
    BY <1>4, <1>t DEF ListRecoveryCodes, At, RowsInv
  <2>4. Quiet(req'[c])
    BY <2>2, <2>3 DEF Quiet
  <2>5. UNCHANGED <<sess, ended, revokedAt, now, chal, code>>
    BY <1>4 DEF ListRecoveryCodes
  <2> QED BY <1>t, <2>2, <2>4, <2>5, QuietKept DEF StaysUsed
<1>5. CASE SwitchTenant(c)
  <2>1. PICK s \in Sessions :
          Accepted(s) /\ Begin(c, [NoRequest EXCEPT !.op = "switch", !.pc = "token", !.s = s])
    BY <1>5 DEF SwitchTenant
  <2>2. Quiet([NoRequest EXCEPT !.op = "switch", !.pc = "token", !.s = s])
    BY <2>1 DEF NoRequest, Quiet
  <2>3. UNCHANGED <<sess, ended, revokedAt, now, chal, code>>
    BY <1>5 DEF SwitchTenant
  <2> QED BY <1>t, <2>1, <2>2, <2>3, OneRequest, QuietKept DEF StaysUsed
<1>6. CASE ChangePassword(c) \/ Confirm(c) \/ Enroll(c) \/ Confirm2FA(c) \/ Disable2FA(c)
  <2>1. PICK r : Begin(c, r) /\ Quiet(r)
    <3>1. CASE Confirm(c)
      <4>1. PICK t \in Tokens : Begin(c, [NoRequest EXCEPT !.op = "reset", !.pc = "update", !.token = t])
        BY <3>1 DEF Confirm
      <4>2. Quiet([NoRequest EXCEPT !.op = "reset", !.pc = "update", !.token = t])
        BY DEF NoRequest, Quiet
      <4> QED BY <4>1, <4>2
    <3>2. CASE ChangePassword(c)
      <4>1. Quiet([NoRequest EXCEPT !.op = "change", !.pc = "write", !.at = now])
        BY DEF NoRequest, Quiet
      <4> QED BY <3>2, <4>1 DEF ChangePassword
    <3>3. CASE Enroll(c) \/ Confirm2FA(c) \/ Disable2FA(c)
      <4>1. PICK op \in {"enroll", "confirm", "disable"} : Begin(c, [NoRequest EXCEPT !.op = op, !.pc = "write"])
        BY <3>3 DEF Enroll, Confirm2FA, Disable2FA
      <4>2. Quiet([NoRequest EXCEPT !.op = op, !.pc = "write"])
        BY DEF NoRequest, Quiet
      <4> QED BY <4>1, <4>2
    <3> QED BY <1>6, <3>1, <3>2, <3>3
  <2>2. UNCHANGED <<sess, ended, revokedAt, now, chal, code>>
    BY <1>6 DEF ChangePassword, Confirm, Enroll, Confirm2FA, Disable2FA
  <2> QED BY <1>t, <2>1, <2>2, OneRequest, QuietKept DEF StaysUsed
<1>7. CASE Fail(c) \/ CreatePendingSecret(c) \/ ConfirmCommit(c)
  <2>1. UNCHANGED <<sess, ended, revokedAt, now, chal, code>> /\ End(c)
    BY <1>7 DEF Fail, CreatePendingSecret, ConfirmCommit
  <2> QED BY <1>t, <2>1, OneRequest, QuietNoRequest, QuietKept DEF StaysUsed
<1>8. CASE UpdatePasswordHash(c) \/ MarkTokenUsed(c) \/ InvalidateOtherPending(c) \/ DeleteSecret(c)
  <2>1. req[c].op \in {"reset", "disable"} /\ \E pc : Goto(c, pc)
    BY <1>8 DEF UpdatePasswordHash, MarkTokenUsed, InvalidateOtherPending, DeleteSecret, At
  <2>2. Quiet(req'[c]) /\ \A d \in Clients \ {c} : req'[d] = req[d]
    BY <1>t, <2>1, OneRequest DEF Quiet
  <2>3. UNCHANGED <<sess, ended, revokedAt, now, chal, code>>
    BY <1>8 DEF UpdatePasswordHash, MarkTokenUsed, InvalidateOtherPending, DeleteSecret
  <2> QED BY <1>t, <2>2, <2>3, QuietKept DEF StaysUsed
<1>9. CASE ConfirmSecret(c)
  <2>1. req[c].op = "confirm" /\ (End(c) \/ Goto(c, "codes"))
    BY <1>9 DEF ConfirmSecret, At
  <2>2. Quiet(req'[c]) /\ \A d \in Clients \ {c} : req'[d] = req[d]
    BY <1>t, <2>1, OneRequest, QuietNoRequest DEF Quiet
  <2>3. UNCHANGED <<sess, ended, revokedAt, now, chal, code>>
    BY <1>9 DEF ConfirmSecret
  <2> QED BY <1>t, <2>2, <2>3, QuietKept DEF StaysUsed
<1>10. CASE CreateRecoveryCodes(c) \/ DeleteRecoveryCodes(c)
  <2>1. req[c].op \in {"confirm", "disable"} /\ (End(c) \/ Goto(c, "commit"))
    BY <1>10 DEF CreateRecoveryCodes, DeleteRecoveryCodes, At
  <2>2. Quiet(req'[c]) /\ \A d \in Clients \ {c} : req'[d] = req[d]
    BY <1>t, <2>1, OneRequest, QuietNoRequest DEF Quiet
  <2>3. UNCHANGED <<sess, ended, revokedAt, now, chal>>
    BY <1>10 DEF CreateRecoveryCodes, DeleteRecoveryCodes
  <2>4. StaysUsed
    BY <1>10, <1>t DEF CreateRecoveryCodes, Replaced, DeleteRecoveryCodes, StaysUsed
  <2> QED BY <1>t, <2>2, <2>3, <2>4, QuietKept
<1> QED BY <1>1, <1>2, <1>3, <1>4, <1>5, <1>6, <1>7, <1>8, <1>9, <1>10 DEF TwoFactorStep

\* The claims: what is claimed was unused, so nobody holds it.
LEMMA ClaimKept ==
  ASSUME AccountInv, TypeOK', NEW c \in Clients, ConsumeRecoveryCode(c) \/ MarkUsed(c)
  PROVE  AccountInv'
<1>t. TypeOK /\ RowsInv(c) /\ code \in [Codes -> {"none", "unused", "used", "deleted"}]
      /\ chal \in [Challenges -> RowStates] /\ now \in Nat
      /\ req[c].op = "verify" /\ req[c].chal \in Challenges
      /\ \A d \in Clients : req[d].code \in Codes \cup {Null}
      /\ \A s \in Sessions : sess[s].chal \in Challenges \cup {Null} /\ sess[s].code \in Codes \cup {Null}
  BY AccountConstants DEF AccountInv, TypeOK, Times, RowsInv, ConsumeRecoveryCode, MarkUsed, At, Request, Session
<1>s. UNCHANGED <<sess, ended, revokedAt, now>>
  BY DEF ConsumeRecoveryCode, MarkUsed
<1>u. StaysUsed
  BY <1>t DEF ConsumeRecoveryCode, MarkUsed, StaysUsed
<1>1. CASE End(c)
  BY <1>1, <1>t, <1>s, <1>u, OneRequest, QuietNoRequest, QuietKept
<1>2. ASSUME NEW pc, Goto(c, pc), pc \in {"mark", "issue"},
             pc = "mark" => /\ code[req[c].code] = "unused" /\ code'[req[c].code] = "used"
                            /\ req[c].pc = "claim" /\ req[c].code \in Codes,
             pc = "issue" => /\ chal[req[c].chal] = "unused" /\ chal'[req[c].chal] = "used"
                             /\ req[c].pc = "mark"
      PROVE  AccountInv'
  <2>1. /\ req'[c].pc = pc /\ req'[c].op = "verify" /\ req'[c].s = req[c].s
        /\ req'[c].chal = req[c].chal /\ req'[c].code = req[c].code
        /\ \A d \in Clients \ {c} : req'[d] = req[d]
    BY <1>2, <1>t, OneRequest
  <2>2. ASSUME NEW d \in Clients PROVE RowsInv(d)'
    <3>1. RowsInv(d)
      BY DEF AccountInv
    <3> QED BY <1>2, <1>s, <1>t, <2>1, <3>1 DEF RowsInv, Signs
  <2>3. SignsAlone'
    BY <1>2, <2>1 DEF AccountInv, SignsAlone, Signs
  <2>4. ASSUME NEW s \in Sessions PROVE EndedInv(s)'
    <3>1. EndedInv(s)
      BY DEF AccountInv
    <3> QED BY <1>s, <2>1, <3>1 DEF EndedInv
  <2>5. ChalInv'
    <3>1. ChalInv
      BY DEF AccountInv
    <3>2. ASSUME NEW d \in Clients, HoldsChal(d)'
          PROVE  /\ req'[d].chal = req[d].chal /\ req[d].chal \in Challenges
                 /\ d # c => HoldsChal(d)
                 /\ d = c => pc = "issue"
      BY <1>t, <2>1, <3>2 DEF HoldsChal, AccountInv, RowsInv
    <3>3. pc = "issue" => /\ \A s \in Sessions : sess[s].chal # req[c].chal
                          /\ \A d \in Clients : HoldsChal(d) => req[d].chal # req[c].chal
      BY <1>2, <1>t, <3>1, AccountConstants DEF ChalInv
    <3>4. ASSUME NEW d \in Clients, HoldsChal(d)'
          PROVE  /\ chal'[req'[d].chal] = "used"
                 /\ \A s \in Sessions : sess'[s].chal # req'[d].chal
      BY <1>2, <1>s, <1>u, <3>1, <3>2, <3>3, <3>4 DEF ChalInv, StaysUsed
    <3>5. ASSUME NEW d \in Clients, NEW e \in Clients, d # e, HoldsChal(d)', HoldsChal(e)'
          PROVE  req'[d].chal # req'[e].chal
      BY <3>1, <3>2, <3>3, <3>5 DEF ChalInv
    <3>6. \A s \in Sessions : sess'[s].chal # Null => chal'[sess'[s].chal] = "used"
      BY <1>s, <1>t, <1>u, <3>1 DEF ChalInv, StaysUsed
    <3> QED BY <1>s, <3>1, <3>4, <3>5, <3>6 DEF ChalInv
  <2>6. CodeInv'
    <3>1. CodeInv
      BY DEF AccountInv
    <3>2. ASSUME NEW d \in Clients, HoldsCode(d)'
          PROVE  /\ req'[d].code = req[d].code /\ req[d].code \in Codes
                 /\ HoldsCode(d) \/ (d = c /\ pc = "mark")
      BY <1>2, <1>t, <2>1, <3>2 DEF HoldsCode
    <3>3. pc = "mark" => /\ \A s \in Sessions : sess[s].code # req[c].code
                         /\ \A d \in Clients : HoldsCode(d) => req[d].code # req[c].code
      BY <1>2, <1>t, <3>1, AccountConstants DEF CodeInv
    <3>4. ASSUME NEW d \in Clients, HoldsCode(d)'
          PROVE  /\ code'[req'[d].code] \in {"used", "deleted"}
                 /\ \A s \in Sessions : sess'[s].code # req'[d].code
      BY <1>2, <1>s, <1>u, <3>1, <3>2, <3>3, <3>4 DEF CodeInv, StaysUsed
    <3>5. ASSUME NEW d \in Clients, NEW e \in Clients, d # e, HoldsCode(d)', HoldsCode(e)'
          PROVE  req'[d].code # req'[e].code
      BY <3>1, <3>2, <3>3, <3>5 DEF CodeInv
    <3>6. \A s \in Sessions : sess'[s].code # Null => code'[sess'[s].code] \in {"used", "deleted"}
      BY <1>s, <1>t, <1>u, <3>1 DEF CodeInv, StaysUsed
    <3> QED BY <1>s, <3>1, <3>4, <3>5, <3>6 DEF CodeInv
  <2> QED BY <2>2, <2>3, <2>4, <2>5, <2>6 DEF AccountInv
<1>3. CASE ConsumeRecoveryCode(c)
  <2>1. req[c].pc = "claim" /\ req[c].code \in Codes
    BY <1>3, <1>t DEF ConsumeRecoveryCode, At, RowsInv
  <2> QED BY <1>1, <1>2, <1>3, <1>t, <2>1 DEF ConsumeRecoveryCode
<1>4. CASE MarkUsed(c)
  BY <1>1, <1>2, <1>4, <1>t DEF MarkUsed, At
<1> QED BY <1>3, <1>4

\* The session's row takes over what the call has claimed.
LEMMA CreateKept ==
  ASSUME AccountInv, TypeOK', NEW c \in Clients, CreateSession(c)
  PROVE  AccountInv'
<1>1. PICK s \in Sessions :
        /\ sess[s].state = "none"
        /\ sess' = [sess EXCEPT ![s] = [state |-> "live", iat |-> Null,
                                        chal |-> req[c].chal, code |-> req[c].code]]
        /\ req' = [req EXCEPT ![c].s = s, ![c].pc = "token"]
  BY DEF CreateSession
<1>t. /\ TypeOK /\ req \in [Clients -> Request] /\ sess \in [Sessions -> Session]
      /\ req[c].op \in {"login", "verify"} /\ req[c].pc = "issue" /\ RowsInv(c)
      /\ \A d \in Clients : req[d].code \in Codes \cup {Null} /\ req[d].chal \in Challenges \cup {Null}
      /\ \A z \in Sessions : sess[z].chal \in Challenges \cup {Null} /\ sess[z].code \in Codes \cup {Null}
      /\ \A z \in Sessions : sess[z].state \in {"none", "live", "revoked"}
  BY DEF AccountInv, TypeOK, CreateSession, Request, Session
<1>s. UNCHANGED <<ended, revokedAt, now, chal, code>>
  BY DEF CreateSession
<1>blank. sess[s].iat = Null /\ s \notin ended
  BY <1>1 DEF AccountInv, EndedInv
<1>r. /\ req'[c].op = req[c].op /\ req'[c].pc = "token" /\ req'[c].s = s
      /\ req'[c].chal = req[c].chal /\ req'[c].code = req[c].code
      /\ \A d \in Clients \ {c} : req'[d] = req[d]
  BY <1>1, <1>t DEF Request
<1>v. /\ sess'[s].state = "live" /\ sess'[s].iat = Null /\ sess'[s].chal = req[c].chal
      /\ sess'[s].code = req[c].code
      /\ \A z \in Sessions \ {s} : sess'[z] = sess[z]
  BY <1>1, <1>t
<1>2. ASSUME NEW d \in Clients PROVE RowsInv(d)'
  <2>0. RowsInv(d)
    BY DEF AccountInv
  <2>1. CASE d = c
    BY <1>r, <1>t, <1>v, <2>1 DEF RowsInv, Signs
  <2>2. CASE d # c
    <3>1. req[d].op = "switch" => req[d].s # s
      <4>1. ASSUME req[d].op = "switch", req[d].s = s PROVE FALSE
        <5>1. sess[s].iat # Null
          BY <2>0, <4>1 DEF RowsInv
        <5> QED BY <1>1, <5>1, <1>blank
      <4> QED BY <4>1
    <3>2. Signs(d) => req[d].s # s
      BY <1>1, <2>0 DEF RowsInv
    <3> QED BY <1>r, <1>v, <2>0, <2>2, <3>1, <3>2 DEF RowsInv, Signs
  <2> QED BY <2>1, <2>2
<1>3. SignsAlone'
  <2>1. \A d \in Clients \ {c} : Signs(d) => req[d].s # s
    BY <1>1 DEF AccountInv, RowsInv
  <2>2. \A d \in Clients \ {c} : Signs(d)' <=> Signs(d)
    BY <1>r DEF Signs
  <2>3. SignsAlone
    BY DEF AccountInv
  <2> QED BY <1>r, <2>1, <2>2, <2>3 DEF SignsAlone
<1>4. ChalInv'
  <2>1. ChalInv
    BY DEF AccountInv
  <2>2. ASSUME NEW d \in Clients, HoldsChal(d)'
        PROVE  d # c /\ HoldsChal(d) /\ req'[d] = req[d] /\ req[d].chal \in Challenges
    BY <1>r, <2>2 DEF HoldsChal, AccountInv, RowsInv
  <2>3. req[c].chal # Null => HoldsChal(c)
    BY <1>t DEF HoldsChal, RowsInv
  <2>4. ASSUME NEW z \in Sessions, sess'[z].chal # Null PROVE chal'[sess'[z].chal] = "used"
    BY <1>s, <1>v, <2>1, <2>3, <2>4 DEF ChalInv
  <2>5. ASSUME NEW d \in Clients, HoldsChal(d)'
        PROVE  /\ chal'[req'[d].chal] = "used"
               /\ \A z \in Sessions : sess'[z].chal # req'[d].chal
    BY <1>s, <1>v, <2>1, <2>2, <2>3, <2>5, AccountConstants DEF ChalInv
  <2>6. ASSUME NEW d \in Clients, NEW e \in Clients, d # e, HoldsChal(d)', HoldsChal(e)'
        PROVE  req'[d].chal # req'[e].chal
    BY <2>1, <2>2, <2>6 DEF ChalInv
  <2>7. ASSUME NEW x \in Sessions, NEW y \in Sessions, x # y, sess'[x].chal # Null
        PROVE  sess'[x].chal # sess'[y].chal
    BY <1>v, <2>1, <2>3, <2>7 DEF ChalInv
  <2> QED BY <2>4, <2>5, <2>6, <2>7 DEF ChalInv
<1>5. CodeInv'
  <2>1. CodeInv
    BY DEF AccountInv
  <2>2. ASSUME NEW d \in Clients, HoldsCode(d)'
        PROVE  d # c /\ HoldsCode(d) /\ req'[d] = req[d] /\ req[d].code \in Codes
    BY <1>r, <1>t, <2>2 DEF HoldsCode
  <2>3. req[c].code # Null => HoldsCode(c)
    BY <1>t DEF HoldsCode, RowsInv
  <2>4. ASSUME NEW z \in Sessions, sess'[z].code # Null PROVE code'[sess'[z].code] \in {"used", "deleted"}
    BY <1>s, <1>v, <2>1, <2>3, <2>4 DEF CodeInv
  <2>5. ASSUME NEW d \in Clients, HoldsCode(d)'
        PROVE  /\ code'[req'[d].code] \in {"used", "deleted"}
               /\ \A z \in Sessions : sess'[z].code # req'[d].code
    BY <1>s, <1>v, <2>1, <2>2, <2>3, <2>5, AccountConstants DEF CodeInv
  <2>6. ASSUME NEW d \in Clients, NEW e \in Clients, d # e, HoldsCode(d)', HoldsCode(e)'
        PROVE  req'[d].code # req'[e].code
    BY <2>1, <2>2, <2>6 DEF CodeInv
  <2>7. ASSUME NEW x \in Sessions, NEW y \in Sessions, x # y, sess'[x].code # Null
        PROVE  sess'[x].code # sess'[y].code
    BY <1>v, <2>1, <2>3, <2>7 DEF CodeInv
  <2> QED BY <2>4, <2>5, <2>6, <2>7 DEF CodeInv
<1>6. ASSUME NEW z \in Sessions PROVE EndedInv(z)'
  <2>1. EndedInv(z)
    BY DEF AccountInv
  <2>2. CASE z = s
    BY <1>1, <1>s, <1>v, <2>1, <2>2, <1>blank DEF EndedInv
  <2>3. CASE z # s
    <3>1. sess'[z] = sess[z]
      BY <1>v, <2>3
    <3>2. \A d \in Clients : req'[d].op = "switch" => req[d].op = "switch" /\ req'[d].s = req[d].s
      BY <1>r, <1>t
    <3> QED BY <1>s, <2>1, <3>1, <3>2 DEF EndedInv
  <2> QED BY <2>2, <2>3
<1> QED BY <1>2, <1>3, <1>4, <1>5, <1>6 DEF AccountInv

\* A token is signed: no session that was told to end gets it.
LEMMA SignKept ==
  ASSUME AccountInv, TypeOK', NEW c \in Clients, IssueSessionWithTenant(c)
  PROVE  AccountInv'
<1> DEFINE s == req[c].s
<1>t. /\ TypeOK /\ req[c].op \in {"login", "verify", "switch"} /\ req[c].pc = "token" /\ RowsInv(c)
      /\ sess \in [Sessions -> Session] /\ now \in Nat /\ now # Null
      /\ \A z \in Sessions : sess[z].state \in {"none", "live", "revoked"}
  BY AccountConstants DEF AccountInv, TypeOK, IssueSessionWithTenant, Times, Session
<1>s. s \in Sessions
  BY <1>t DEF RowsInv, Signs
<1>u. UNCHANGED <<ended, revokedAt, now, chal, code>> /\ End(c)
  BY DEF IssueSessionWithTenant
<1>r. /\ req'[c] = NoRequest /\ NoRequest.op = "none"
      /\ \A d \in Clients \ {c} : req'[d] = req[d]
  BY <1>t, <1>u, OneRequest DEF NoRequest
<1>w. sess' = [sess EXCEPT ![s].iat = now]
  BY DEF IssueSessionWithTenant
<1> HIDE DEF s
<1>v. /\ sess'[s].iat = now /\ \A z \in Sessions \ {s} : sess'[z] = sess[z]
      /\ \A z \in Sessions : /\ sess'[z].chal = sess[z].chal /\ sess'[z].code = sess[z].code
                             /\ sess'[z].state = sess[z].state
  <2>1. sess[s] \in Session
    BY <1>t, <1>s
  <2>2. sess'[s] = [sess[s] EXCEPT !.iat = now] /\ \A z \in Sessions \ {s} : sess'[z] = sess[z]
    BY <1>t, <1>s, <1>w
  <2> QED BY <2>1, <2>2 DEF Session
<1>1. ChalInv' /\ CodeInv'
  <2>1. StaysUsed
    BY <1>u DEF StaysUsed
  <2>2. \A d \in Clients : req'[d] = req[d] \/ (~HoldsChal(d)' /\ ~HoldsCode(d)')
    BY <1>r DEF HoldsChal, HoldsCode
  <2> QED BY <1>v, <2>1, <2>2, FactorKept
<1>2. ASSUME NEW d \in Clients PROVE RowsInv(d)'
  <2>0. RowsInv(d)
    BY DEF AccountInv
  <2>1. CASE d = c
    BY <1>r, <2>1 DEF RowsInv, Signs
  <2>2. CASE d # c
    <3>1. Signs(d) => req[d].s # s
      <4>1. CASE req[c].op = "switch"
        BY <1>t, <2>0, <4>1 DEF RowsInv, s
      <4>2. CASE req[c].op # "switch"
        BY <1>t, <2>2, <4>2 DEF AccountInv, SignsAlone, Signs, s
      <4> QED BY <4>1, <4>2
    <3> QED BY <1>r, <1>t, <1>v, <2>0, <2>2, <3>1 DEF RowsInv, Signs
  <2> QED BY <2>1, <2>2
<1>3. SignsAlone'
  BY <1>r DEF AccountInv, SignsAlone, Signs
<1>4. ASSUME NEW z \in Sessions PROVE EndedInv(z)'
  <2>1. EndedInv(z)
    BY DEF AccountInv
  <2>2. \A d \in Clients : req'[d].op = "switch" => req'[d] = req[d]
    BY <1>r
  <2>3. CASE z = s
    <3>1. z \in ended => sess[z].state = "revoked"
      <4>1. CASE req[c].op = "switch"
        BY <2>1, <2>3, <4>1 DEF EndedInv, s
      <4>2. CASE req[c].op # "switch"
        BY <1>t, <2>1, <2>3, <4>2 DEF EndedInv, RowsInv, Signs, s
      <4> QED BY <4>1, <4>2
    <3>2. sess[z].state # "none"
      BY <1>t, <2>1, <2>3 DEF EndedInv, RowsInv, Signs, s
    <3> QED BY <1>t, <1>u, <1>v, <2>3, <3>1, <3>2 DEF EndedInv
  <2>4. CASE z # s
    <3>1. sess'[z] = sess[z]
      BY <1>v, <2>4
    <3> QED BY <1>u, <2>1, <2>2, <3>1 DEF EndedInv
  <2> QED BY <2>3, <2>4
<1> QED BY <1>1, <1>2, <1>3, <1>4 DEF AccountInv

\* The revocations: of rows, and by the date.
LEMMA RevokeKept ==
  ASSUME AccountInv, TypeOK', NEW S \in SUBSET Sessions, RevokeRows(S)
  PROVE  AccountInv'
<1>t. sess \in [Sessions -> Session] /\ \A z \in Sessions : sess[z] \in Session
  BY DEF AccountInv, TypeOK
<1>u. UNCHANGED <<revokedAt, chal, code, req, now>>
      /\ ended' = ended \cup {s \in S : sess[s].state = "live"}
  BY DEF RevokeRows
<1>v. \A z \in Sessions : /\ sess'[z].iat = sess[z].iat
                          /\ sess'[z].chal = sess[z].chal /\ sess'[z].code = sess[z].code
                          /\ sess'[z].state = IF z \in S /\ sess[z].state = "live" THEN "revoked"
                                              ELSE sess[z].state
  BY <1>t DEF RevokeRows, Session
<1>1. ChalInv' /\ CodeInv'
  BY <1>u, <1>v, FactorKept DEF StaysUsed
<1>2. ASSUME NEW d \in Clients PROVE RowsInv(d)'
  <2>1. RowsInv(d)
    BY DEF AccountInv
  <2> QED BY <1>u, <1>v, <2>1 DEF RowsInv, Signs
<1>3. SignsAlone'
  BY <1>u DEF AccountInv, SignsAlone, Signs
<1>4. ASSUME NEW z \in Sessions PROVE EndedInv(z)'
  <2>1. EndedInv(z)
    BY DEF AccountInv
  <2> QED BY <1>u, <1>v, <2>1 DEF EndedInv
<1> QED BY <1>1, <1>2, <1>3, <1>4 DEF AccountInv

LEMMA DatedKept ==
  ASSUME AccountInv, TypeOK', NEW c \in Clients, PasswordChanged(c) \/ RevokeSessions(c)
  PROVE  AccountInv'
<1>t. /\ TypeOK /\ now \in Nat /\ req[c].at \in Nat /\ req[c].at # Null /\ now # Null
      /\ req[c].op \in {"change", "reset"}
      /\ \A z \in Sessions : sess[z].iat \in Nat \cup {Null}
      /\ \A z \in Sessions : sess[z].state \in {"none", "live", "revoked"}
  BY AccountConstants DEF AccountInv, TypeOK, Request, Session, Times, PasswordChanged, RevokeSessions, At
<1>u. UNCHANGED <<sess, chal, code, now>> /\ End(c)
  BY DEF PasswordChanged, RevokeSessions
<1>r. /\ req'[c] = NoRequest /\ NoRequest.op = "none"
      /\ \A d \in Clients \ {c} : req'[d] = req[d]
  BY <1>t, <1>u, OneRequest DEF NoRequest
<1>1. ChalInv' /\ CodeInv'
  <2>1. StaysUsed
    BY <1>u DEF StaysUsed
  <2>2. \A d \in Clients : req'[d] = req[d] \/ (~HoldsChal(d)' /\ ~HoldsCode(d)')
    BY <1>r DEF HoldsChal, HoldsCode
  <2> QED BY <1>u, <2>1, <2>2, FactorKept
<1>2. ASSUME NEW d \in Clients PROVE RowsInv(d)'
  <2>1. RowsInv(d)
    BY DEF AccountInv
  <2> QED BY <1>r, <1>u, <2>1 DEF RowsInv, Signs
<1>3. SignsAlone'
  BY <1>r DEF AccountInv, SignsAlone, Signs
<1>4. ASSUME NEW z \in Sessions PROVE EndedInv(z)'
  <2>1. EndedInv(z)
    BY DEF AccountInv
  <2>2. \A d \in Clients : req'[d].op = "switch" => req'[d] = req[d]
    BY <1>r
  <2>3. CASE UNCHANGED <<revokedAt, ended>>
    BY <1>u, <2>1, <2>2, <2>3 DEF EndedInv
  <2>4. ASSUME NEW at \in Nat, at # Null, revokedAt' = at, ended' \subseteq (ended \ Reopened(at)) \cup Told(at)
        PROVE  EndedInv(z)'
    <3>1. CASE z \in Told(at)
      <4>1. /\ sess[z].iat # Null /\ sess[z].iat <= at
            /\ \A d \in Clients : ~(req[d].op = "switch" /\ req[d].s = z)
        BY <3>1 DEF Told, Issued
      <4> QED BY <1>u, <2>1, <2>2, <2>4, <4>1 DEF EndedInv
    <3>2. CASE z \notin Told(at)
      <4>1. z \in ended' => z \in ended /\ z \notin Reopened(at)
        BY <2>4, <3>2
      <4>2. z \in ended' /\ sess[z].state # "revoked" => sess[z].iat # Null /\ sess[z].iat <= at
        <5>1. SUFFICES ASSUME z \in ended', sess[z].state # "revoked"
                       PROVE  sess[z].iat # Null /\ sess[z].iat <= at
          OBVIOUS
        <5>2. sess[z].iat # Null
          BY <4>1, <5>1, <2>1 DEF EndedInv
        <5>3. sess[z].state = "live"
          BY <1>t, <2>1, <5>1, <5>2 DEF EndedInv
        <5>4. ~(sess[z].iat > at)
          BY <4>1, <5>1, <5>2, <5>3 DEF Reopened, Issued
        <5> QED BY <1>t, <5>2, <5>4
      <4> QED BY <1>u, <2>1, <2>2, <2>4, <4>1, <4>2 DEF EndedInv
    <3> QED BY <3>1, <3>2
  <2>5. CASE PasswordChanged(c)
    BY <1>t, <2>4, <2>5 DEF PasswordChanged
  <2>6. CASE RevokeSessions(c)
    <3>1. ASSUME revokedAt' = now, ended' = ended \cup Told(now) PROVE ended' \subseteq (ended \ Reopened(now)) \cup Told(now)
      <4>1. \A s \in Sessions : sess[s].iat # Null => sess[s].iat <= now
        BY DEF AccountInv, EndedInv
      <4>2. Reopened(now) = {}
        BY <1>t, <4>1 DEF Reopened, Issued
      <4> QED BY <3>1, <4>2
    <3> QED BY <1>t, <2>3, <2>4, <2>6, <3>1 DEF RevokeSessions
  <2> QED BY <2>5, <2>6
<1> QED BY <1>1, <1>2, <1>3, <1>4 DEF AccountInv

LEMMA AccountInitial == Init => AccountInv
<1> SUFFICES ASSUME Init PROVE AccountInv
  OBVIOUS
<1>1. /\ \A c \in Clients : req[c].op = "none"
      /\ \A s \in Sessions : /\ sess[s].iat = Null /\ sess[s].state = "none"
                             /\ sess[s].chal = Null /\ sess[s].code = Null
      /\ ended = {}
  BY DEF Init, NoRequest, NoSession
<1> QED BY <1>1, AccountTypesInit
     DEF AccountInv, RowsInv, SignsAlone, Signs, ChalInv, CodeInv, HoldsChal, HoldsCode, EndedInv

LEMMA AccountNext == AccountInv /\ [Next]_vars => AccountInv'
<1> SUFFICES ASSUME AccountInv, [Next]_vars PROVE AccountInv'
  OBVIOUS
<1>t. TypeOK /\ TypeOK' /\ now \in Nat
  BY AccountTypesNext, AccountConstants DEF AccountInv, TypeOK, Times
<1>1. CASE Tick \/ Expire \/ (\E t \in Tokens : issueAndSendPasswordReset(t)) \/ UNCHANGED vars
  <2>1. UNCHANGED <<sess, ended, revokedAt, req>>
    BY <1>1 DEF Tick, Expire, issueAndSendPasswordReset, vars
  <2>2. now' >= now
    BY <1>1, <1>t DEF Tick, Expire, issueAndSendPasswordReset, vars
  <2>3. StaysUsed
    BY <1>1, <1>t DEF Tick, Expire, issueAndSendPasswordReset, vars, StaysUsed, TypeOK
  <2> QED BY <1>t, <2>1, <2>2, <2>3, QuietKept
<1>2. CASE Logout \/ Revoke \/ RevokeAllForUser
  <2>1. \E S \in SUBSET Sessions : RevokeRows(S)
    BY <1>2 DEF Logout, Revoke, RevokeAllForUser, Issued
  <2> QED BY <1>t, <2>1, RevokeKept
<1>3. ASSUME NEW c \in Clients, LoginStep(c) \/ CredentialStep(c) \/ TwoFactorStep(c) \/ Fail(c)
      PROVE  AccountInv'
  BY <1>3, <1>t, QuietActions, ClaimKept, CreateKept, SignKept, DatedKept DEF LoginStep, CredentialStep
<1> QED BY <1>1, <1>2, <1>3 DEF Next

LEMMA AccountInvariant == Spec => []AccountInv
  BY AccountInitial, AccountNext, PTL DEF Spec

\* The types of the credentials' state, for every number of requests.
THEOREM AccountTypes == Spec => []TypeOK
<1>1. AccountInv => TypeOK
  BY DEF AccountInv
<1> QED BY AccountInvariant, <1>1, PTL

\* Neither a challenge nor a recovery code completes two logins, for every
\* number of calls that race for it.
THEOREM FactorOnce == Spec => []SecondFactorOnce
<1>1. AccountInv => SecondFactorOnce
  BY DEF AccountInv, ChalInv, CodeInv, SecondFactorOnce
<1> QED BY AccountInvariant, <1>1, PTL

\* A session that a logout, a revocation, a change of the password or a reset
\* told to end stays out, for every number of requests, sessions and resets,
\* and however long a request takes.
THEOREM EndedStaysEnded == Spec => []EndedStayOut
<1>1. AccountInv => EndedStayOut
  <2> SUFFICES ASSUME AccountInv, NEW s \in ended PROVE ~Accepted(s)
    BY DEF EndedStayOut
  <2>1. s \in Sessions /\ EndedInv(s)
    BY DEF AccountInv, TypeOK
  <2>2. sess[s].iat \in Times \cup {Null} /\ revokedAt \in Times \cup {Null} /\ Times \subseteq Nat
    BY <2>1, AccountConstants DEF AccountInv, TypeOK, Session, Times
  <2>3. CASE sess[s].state = "revoked"
    BY <2>3 DEF Accepted
  <2>4. CASE sess[s].iat # Null /\ revokedAt # Null /\ sess[s].iat <= revokedAt
    <3>0. sess[s].iat \in Nat /\ revokedAt \in Nat
      BY <2>2, <2>4
    <3>1. ~(sess[s].iat > revokedAt)
      BY <2>4, <3>0
    <3> QED BY <2>4, <3>1 DEF Accepted
  <2> QED BY <2>1, <2>3, <2>4 DEF EndedInv
<1> QED BY AccountInvariant, <1>1, PTL

=============================================================================
