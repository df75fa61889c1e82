------------------------------ MODULE BurnRate ------------------------------
(***************************************************************************)
(* How a metric SLO's request counts become a status                       *)
(* (internal/poller/burn_rate.go), and what a poll cycle persists for the  *)
(* next one (newServiceReading in internal/poller/poller.go,               *)
(* UpdateStatusAndReading in internal/db/service_repository.go).           *)
(*                                                                         *)
(* One service, cycle after cycle.  Burn rates are exact fractions: the    *)
(* code's float64 may fall short of a threshold that the fraction just     *)
(* meets.  Targets are in tenths of a percent, times in units of five      *)
(* minutes; instants are kept as ages, which count up to the grace.        *)
(***************************************************************************)
EXTENDS Integers

CONSTANTS NoTime,          \* a timestamp that is nil
          SampleWindows,   \* counts the connector may report
          SampleTargets    \* SLO targets it may report, in tenths of a percent

WindowCounts == [requests : Int, errors : Int]
\* The connector counts no errors without requests (countsFrom clamps).
ASSUME BurnSamplesAssumption ==
  /\ NoTime \notin Int /\ SampleWindows \subseteq WindowCounts /\ SampleTargets \subseteq Nat
  /\ \A w \in SampleWindows : w.requests <= 0 => w.errors <= 0

VARIABLES
  reading,   \* the services row: status, and the ages of last_error_at and
             \* last_status_change_at
  evidence   \* the last cycle that saw requests, or was the first to see any:
             \* what it saw and decided, its age, and its age at the last cycle

burnVars == <<reading, evidence>>

outageBurnRate == 144        \* tenths
degradedBurnRate == 72       \* tenths
minShortWindowErrors == 3
zeroTrafficGrace == 3        \* fifteen minutes

-----------------------------------------------------------------------------
Burning(num, den) == [num |-> num, den |-> den]
AtLeast(burn, tenths) == 10 * burn.num >= tenths * burn.den

Clamp(errors, requests) ==
  IF errors < 0 THEN 0 ELSE IF errors > requests THEN requests ELSE errors

\* Mutant: counts that do not add up are no sample.
burnRateDropsSkew(errors, requests, target) ==
  IF requests <= 0 \/ errors > requests THEN Burning(0, 1)
  ELSE Burning(1000 * Clamp(errors, requests), requests * (1000 - target))

\* (errors / requests) / (1 - target); with no budget any error is infinite
\* (a denominator of 0).
burnRate(errors, requests, target) ==
  LET e == Clamp(errors, requests) IN
  IF requests <= 0 \/ e = 0 THEN Burning(0, 1)
  ELSE IF target >= 1000 THEN Burning(1, 0)
  ELSE Burning(1000 * e, requests * (1000 - target))

\* Rules 2 to 5: an empty long window burns like the short one.
classifyWindows(short, long, target) ==
  LET shortBurn == burnRate(short.errors, short.requests, target)
      longBurn  == IF long.requests > 0 THEN burnRate(long.errors, long.requests, target)
                   ELSE shortBurn
      Both(rate) == AtLeast(shortBurn, rate) /\ AtLeast(longBurn, rate)
  IN IF Clamp(short.errors, short.requests) < minShortWindowErrors THEN "operational"
     ELSE IF Both(outageBurnRate) THEN "outage"
     ELSE IF Both(degradedBurnRate) THEN "degraded"
     ELSE "operational"

\* row is the service as the cycle read it.  A short window without requests
\* is no evidence: a bad status outlives it by the grace.
classifyBurn(row, short, long, target) ==
  LET age == IF row.errorAge # NoTime THEN row.errorAge ELSE row.changeAge IN
  CASE short.requests > 0 -> classifyWindows(short, long, target)
    [] short.requests <= 0 /\ row.status = "not_configured" ->
         IF long.requests <= 0 THEN "not_configured" ELSE classifyWindows(long, long, target)
    [] short.requests <= 0 /\ row.status \in {"outage", "degraded"} ->
         IF age >= zeroTrafficGrace THEN "operational" ELSE row.status
    [] OTHER -> "operational"

\* Mutant: a window without errors clears the time of the last one.
newServiceReadingForgets(row, short) == IF short.errors > 0 THEN 0 ELSE NoTime

\* The time of the last error is carried forward.
newServiceReading(row, short) == IF short.errors > 0 THEN 0 ELSE row.errorAge

-----------------------------------------------------------------------------
BurnInit ==
  /\ reading = [status |-> "not_configured", errorAge |-> NoTime, changeAge |-> 0]
  /\ evidence = NoTime

\* A cycle that classifies the service and commits.
UpdateStatusAndReading(short, long, target) ==
  LET status == classifyBurn(reading, short, long, target) IN
  /\ reading' = [status |-> status, errorAge |-> newServiceReading(reading, short),
                 changeAge |-> IF status # reading.status THEN 0 ELSE reading.changeAge]
  /\ evidence' = IF short.requests > 0 \/ reading.status = "not_configured"
                 THEN [short |-> short, long |-> long, target |-> target, status |-> status,
                       age |-> 0, polled |-> 0]
                 ELSE [evidence EXCEPT !.polled = evidence.age]

Older(age) == IF age = NoTime \/ age = zeroTrafficGrace THEN age ELSE age + 1

\* Five minutes pass, with or without cycles that fail.
TimePasses ==
  /\ evidence # NoTime
  /\ reading' = [reading EXCEPT !.errorAge = Older(@), !.changeAge = Older(@)]
  /\ evidence' = [evidence EXCEPT !.age = Older(@)]

BurnNext ==
  \/ \E short, long \in SampleWindows, target \in SampleTargets :
       UpdateStatusAndReading(short, long, target)
  \/ TimePasses

BurnSpec == BurnInit /\ [][BurnNext]_burnVars

-----------------------------------------------------------------------------
(* Correctness.                                                             *)

Severity(status) == CASE status = "outage" -> 2 [] status = "degraded" -> 1 [] OTHER -> 0

\* More failed requests never look better: had the last cycle with traffic
\* seen more errors in either window, it would have decided the same or a
\* worse status, also when errors exceed requests, the budget is zero or the
\* long window is empty (classifyWindows, BURN-17).
BurnMonotone ==
  (evidence # NoTime /\ evidence.short.requests > 0) =>
    \A s, l \in SampleWindows :
      (/\ s.requests = evidence.short.requests /\ s.errors >= evidence.short.errors
       /\ l.requests = evidence.long.requests /\ l.errors >= evidence.long.errors)
      => Severity(evidence.status) <= Severity(classifyWindows(s, l, evidence.target))

\* Silence neither closes an incident early nor keeps it: a bad status that
\* requests have decided is held through cycles without requests for just the
\* grace, counted from the last of those requests, and is operational from the
\* first cycle after it, whatever errors and changes came before (BURN-06).
SilenceHeld ==
  (evidence # NoTime /\ evidence.status \in {"degraded", "outage"}) =>
    reading.status = IF evidence.polled < zeroTrafficGrace THEN evidence.status
                     ELSE "operational"
=============================================================================
