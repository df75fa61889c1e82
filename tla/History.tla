------------------------------- MODULE History -------------------------------
(***************************************************************************)
(* The history and the uptime of a service as the public page computes     *)
(* them (internal/history, composeResponse in                              *)
(* internal/api/public_status_handler.go).                                 *)
(*                                                                         *)
(* The package is pure: intervals in, buckets and uptime out.  It is       *)
(* compared with a reading of the same intervals instant by instant, for   *)
(* the rows of StatusIntervals, which overlap or run backwards after a     *)
(* stale write, and for sample intervals.  composeResponse takes asOf from *)
(* the open interval that an earlier statement read                        *)
(* (OpenIntervalsByService), so asOf is independent of the intervals.      *)
(* Time 0 is a local midnight; a daylight-saving change inside the window  *)
(* is left out.                                                            *)
(***************************************************************************)
EXTENDS StatusIntervals, FiniteSets, FiniteSetsExt

CONSTANTS Ranges,        \* the rangeSpecs a visitor may choose
          SampleTimes,   \* starts and ends of the sample intervals
          SampleNows     \* instants at which the samples are read

RangeSpec == [bucketWidth : Nat \ {0}, bucketCount : Nat \ {0}]
ASSUME RangesAssumption == Ranges \subseteq RangeSpec
ASSUME SamplesAssumption == SampleTimes \subseteq Int /\ SampleNows \subseteq Nat

\* rangeSpecs: bucketCount * bucketWidth == window always holds.
WindowOf(rng) == rng.bucketCount * rng.bucketWidth

\* An open interval is taken to last until asOf, its last confirmation.
EndOf(i, asOf) == IF i.ends = Null THEN asOf ELSE i.ends

\* The rows that composeResponse reads for a range.
PageRows(rng) ==
  {[id |-> i, status |-> rows[i].status, starts |-> rows[i].starts,
    ends |-> IF IsOpen(i) THEN Null ELSE rows[i].ends] :
     i \in ListOverlapping(now - WindowOf(rng), now)}

-----------------------------------------------------------------------------
(* BuildBuckets.                                                            *)

\* Go's integer division truncates toward zero; its remainder has the sign
\* of the dividend.
Quo(a, b) == IF a >= 0 THEN a \div b ELSE -((-a) \div b)
Rem(a, b) == a - b * Quo(a, b)

leftmostStart(n, rng) ==
  (n \div rng.bucketWidth) * rng.bucketWidth - (rng.bucketCount - 1) * rng.bucketWidth

Buckets(rng) == 0..rng.bucketCount - 1
BucketStart(n, rng, b) == leftmostStart(n, rng) + b * rng.bucketWidth

firstIndex(i, n, rng) ==
  Max({0, Quo(i.starts - leftmostStart(n, rng), rng.bucketWidth)})

\* Mutant: no step back for a negative offset.
lastIndexTruncated(i, n, asOf, rng) ==
  LET endOffset == EndOf(i, asOf) - leftmostStart(n, rng)
      back      == IF Rem(endOffset, rng.bucketWidth) = 0 THEN 1 ELSE 0
  IN Min({rng.bucketCount - 1, Quo(endOffset, rng.bucketWidth) - back})

\* One less on a boundary (the interval has already ended) and for a
\* negative offset (truncation is not the floor).
lastIndex(i, n, asOf, rng) ==
  LET endOffset == EndOf(i, asOf) - leftmostStart(n, rng)
      back      == IF Rem(endOffset, rng.bucketWidth) <= 0 THEN 1 ELSE 0
  IN Min({rng.bucketCount - 1, Quo(endOffset, rng.bucketWidth) - back})

\* The intervals that touch bucket b; one that is empty or was written
\* backwards touches none.
Touching(S, n, asOf, rng, b) ==
  {i \in S : /\ EndOf(i, asOf) > i.starts
             /\ firstIndex(i, n, rng) <= b /\ b <= lastIndex(i, n, asOf, rng)}

statusPriority(st) ==
  CASE st = "outage" -> 3 [] st = "degraded" -> 2 [] st = "operational" -> 1 [] OTHER -> 0

Worst(S) ==
  IF S = {} THEN "no_data"
  ELSE CHOOSE st \in S : \A other \in S : statusPriority(st) >= statusPriority(other)

\* Status and episodes (the degraded intervals, whatever status wins) of
\* every bucket.
BuildBuckets(S, n, asOf, rng) ==
  [b \in Buckets(rng) |->
     LET touching == Touching(S, n, asOf, rng, b)
     IN [status   |-> Worst({i.status : i \in touching}),
         episodes |-> {i \in touching : i.status = "degraded"}]]

-----------------------------------------------------------------------------
(* UptimePercent, in tenths of a percent.                                   *)

denominatorStart(S, windowStart) == Max({windowStart, Min({i.starts : i \in S})})

downtime(S, windowStart, asOf) ==
  LET start(i)   == Max({i.starts, denominatorStart(S, windowStart)})
      overlap(i) == Max({0, Min({asOf, EndOf(i, asOf)}) - start(i)})
  IN MapThenSumSet(overlap, {i \in S : i.status = "outage"})

\* ok is false (a dash on the page) without rows or without a denominator.
UptimeDefined(S, windowStart, asOf) ==
  S # {} /\ asOf > denominatorStart(S, windowStart)

UptimePercent(S, windowStart, asOf) ==
  LET total == asOf - denominatorStart(S, windowStart)
  IN Max({0, 1000 * (total - downtime(S, windowStart, asOf))}) \div total

-----------------------------------------------------------------------------
(* Correctness.  Instant t is the unit [t, t + 1).                          *)

Holds(i, asOf, t) == i.starts <= t /\ t < EndOf(i, asOf)
Instants(n, rng, b) ==
  BucketStart(n, rng, b)..(BucketStart(n, rng, b) + rng.bucketWidth - 1)

\* Each bucket shows the worst status that holds at an instant of it, and as
\* episodes just the degraded intervals that reach into it.
BucketsExact(S, n, asOf, rng) ==
  LET buckets == BuildBuckets(S, n, asOf, rng) IN
  \A b \in Buckets(rng) :
    LET in == {i \in S : \E t \in Instants(n, rng, b) : Holds(i, asOf, t)}
    IN /\ buckets[b].status = Worst({i.status : i \in in})
       /\ buckets[b].episodes = {i \in in : i.status = "degraded"}

\* Each instant of an outage is counted (twice if two intervals overlap there,
\* never missed), and 100% is shown just when no instant since the
\* denominator's start is an outage: floored, never rounded up.
UptimeExact(S, n, asOf, rng) ==
  LET from   == n - WindowOf(rng)
      out(t) == {i \in S : i.status = "outage" /\ Holds(i, asOf, t)}
      span   == denominatorStart(S, from)..(asOf - 1)
      down   == {t \in span : out(t) # {}}
  IN UptimeDefined(S, from, asOf) =>
       /\ downtime(S, from, asOf) >= Cardinality(down)
       /\ (\A t \in span : Cardinality(out(t)) <= 1)
            => downtime(S, from, asOf) = Cardinality(down)
       /\ UptimePercent(S, from, asOf) \in 0..1000
       /\ UptimePercent(S, from, asOf) = 1000 <=> down = {}

Exact(S, n, asOf, rng) == BucketsExact(S, n, asOf, rng) /\ UptimeExact(S, n, asOf, rng)

SampleIntervals ==
  [status : {"operational", "degraded", "outage"}, starts : SampleTimes,
   ends : SampleTimes \cup {Null}]
Samples == {{i, j} : i, j \in SampleIntervals}

\* What a visitor sees of a service is what its intervals say, bar by bar and
\* in the percentage above them (history.BuildBuckets, history.UptimePercent):
\* for the rows that the races of the writers and the pruner have left, and,
\* while there are none yet, for every pair of samples, which begin or end
\* before the first bucket, end on a boundary or run backwards.  A transaction
\* in flight shows nothing to others and may end without effect, so the rows
\* are looked at while there is none.
HistoryExact ==
  (\A w \in Writers : wr[w].pc = "idle") =>
    /\ \A rng \in Ranges, asOf \in 0..now : Exact(PageRows(rng), now, asOf, rng)
    /\ (since = Null /\ now = 0) =>
         \A S \in Samples, n \in SampleNows, rng \in Ranges : \A asOf \in (n - 2)..n :
           Exact(S, n, asOf, rng)
=============================================================================
