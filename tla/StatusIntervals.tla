--------------------------- MODULE StatusIntervals ---------------------------
(***************************************************************************)
(* The status_intervals rows of one service                                *)
(* (internal/db/status_interval_repository.go), the transactions that      *)
(* write them and the retention pruner (internal/retention/pruner.go).     *)
(*                                                                         *)
(* Writers are the goroutines that may call OpenOrExtend for the service:  *)
(* the poller, a manual check, and the same goroutines of a previous       *)
(* leader that has not noticed the loss of its lock (PollerManager).       *)
(* OpenOrExtend runs in a transaction of its own at READ COMMITTED: its    *)
(* SELECT ... FOR UPDATE sees a snapshot, waits for the row lock, and then *)
(* re-evaluates its condition on the row's newest version; its INSERT      *)
(* waits for an uncommitted INSERT under the partial unique index          *)
(* (service_id) WHERE ends_at IS NULL and fails if an open row exists.     *)
(* The error budget, copied through, is left out.                          *)
(***************************************************************************)
EXTENDS Integers

CONSTANTS Writers, Ids, Statuses,
          Null,            \* no row, no date
          MaxTime,         \* bound on the clock
          Retention,       \* the pruner's retention
          Window           \* the longest range the public page asks for

ASSUME NullAssumption == Null \notin Int /\ Null \notin Ids
ASSUME MaxTimeAssumption == MaxTime \in Nat
ASSUME StatusesAssumption == Statuses # {}
ASSUME RetentionAssumption == Retention \in Nat /\ Window \in Nat /\ Window <= Retention

VARIABLES rows,      \* committed rows by id
          now,       \* wall clock
          since,     \* starts_at of the first interval ever committed, or Null
          wr,        \* the writers' transactions
          analyses   \* interval ids whose enrichment is still running

vars == <<rows, now, since, wr, analyses>>

Times == 0..MaxTime

\* state: "unused" before the id is handed out, "open" while ends_at IS NULL,
\* "closed" afterwards, "deleted" once pruned.
Row == [state : {"unused", "open", "closed", "deleted"}, status : Statuses,
        starts : Times, seen : Times, ends : Times, analysis : BOOLEAN]

IsOpen(i) == rows[i].state = "open"
Stored(i) == rows[i].state \in {"open", "closed"}

\* at and status are what the caller observed, target is the open row found.
WriterPC == {"idle", "observed", "locking", "extend", "insert", "inserted"}
Writer == [pc : WriterPC, at : Times, status : Statuses, target : Ids \cup {Null}]

TypeOK ==
  /\ rows \in [Ids -> Row]
  /\ now \in Times
  /\ since \in Times \cup {Null}
  /\ wr \in [Writers -> Writer]
  /\ analyses \in SUBSET Ids

Idle == [pc |-> "idle", at |-> 0, status |-> CHOOSE st \in Statuses : TRUE, target |-> Null]

NoRow(state) ==
  [state |-> state, status |-> CHOOSE st \in Statuses : TRUE, starts |-> 0,
   seen |-> 0, ends |-> 0, analysis |-> FALSE]

Init ==
  /\ rows = [i \in Ids |-> NoRow("unused")]
  /\ wr = [w \in Writers |-> Idle]
  /\ now = 0
  /\ since = Null
  /\ analyses = {}

Tick ==
  /\ now < MaxTime
  /\ now' = now + 1
  /\ UNCHANGED <<rows, since, wr, analyses>>

-----------------------------------------------------------------------------
(* OpenOrExtend.                                                            *)

\* The transaction of w moves on, keeping what was observed.
Goto(w, pc, target) ==
  wr' = [wr EXCEPT ![w] =
           [pc |-> pc, at |-> wr[w].at, status |-> wr[w].status, target |-> target]]

Finish(w) == wr' = [wr EXCEPT ![w] = Idle]

\* The caller takes its timestamp, then measures; the write comes later.
Observe(w, st) ==
  /\ wr[w].pc = "idle"
  /\ wr' = [wr EXCEPT ![w] = [pc |-> "observed", at |-> now, status |-> st, target |-> Null]]
  /\ UNCHANGED <<rows, now, since, analyses>>

\* The snapshot of SELECT ... WHERE ends_at IS NULL FOR UPDATE.
SelectOpen(w) ==
  /\ wr[w].pc = "observed"
  /\ \/ \E i \in Ids : IsOpen(i) /\ Goto(w, "locking", i)
     \/ (\A i \in Ids : ~IsOpen(i)) /\ Goto(w, "insert", Null)
  /\ UNCHANGED <<rows, now, since, analyses>>

\* The row lock is held from FOR UPDATE to the end of the transaction.
HoldsRow(v, i) == wr[v].target = i /\ wr[v].pc \in {"extend", "insert", "inserted"}

\* Mutant: the close of the old row is committed on its own.
LockRowAutocommit(w) ==
  LET i == wr[w].target IN
  /\ wr[w].pc = "locking"
  /\ \A v \in Writers : ~HoldsRow(v, i)
  /\ \/ ~IsOpen(i) /\ Goto(w, "insert", Null) /\ UNCHANGED rows
     \/ IsOpen(i) /\ rows[i].status = wr[w].status /\ Goto(w, "extend", i) /\ UNCHANGED rows
     \/ /\ IsOpen(i) /\ rows[i].status # wr[w].status /\ Goto(w, "insert", Null)
        /\ rows' = [rows EXCEPT ![i] = [@ EXCEPT !.state = "closed", !.ends = wr[w].at]]
  /\ UNCHANGED <<now, since, analyses>>

\* Mutant: the condition is re-evaluated until it holds again.
LockRowWaits(w) ==
  LET i == wr[w].target IN
  /\ wr[w].pc = "locking"
  /\ \A v \in Writers : ~HoldsRow(v, i)
  /\ \/ IsOpen(i) /\ rows[i].status = wr[w].status /\ Goto(w, "extend", i)
     \/ IsOpen(i) /\ rows[i].status # wr[w].status /\ Goto(w, "insert", i)
  /\ UNCHANGED <<rows, now, since, analyses>>

\* The lock is granted: a row closed meanwhile no longer qualifies, so the
\* query returns no row; otherwise the status decides the branch.
LockRow(w) ==
  LET i == wr[w].target IN
  /\ wr[w].pc = "locking"
  /\ \A v \in Writers : ~HoldsRow(v, i)
  /\ \/ ~IsOpen(i) /\ Goto(w, "insert", Null)
     \/ IsOpen(i) /\ rows[i].status = wr[w].status /\ Goto(w, "extend", i)
     \/ IsOpen(i) /\ rows[i].status # wr[w].status /\ Goto(w, "insert", i)
  /\ UNCHANGED <<rows, now, since, analyses>>

\* Mutant: no unique index on the open interval.
insertOpenIntervalNoIndex(w) ==
  /\ wr[w].pc = "insert"
  /\ Goto(w, "inserted", wr[w].target)
  /\ UNCHANGED <<rows, now, since, analyses>>

\* The INSERT: it waits for another uncommitted one; an open row other than
\* the one this transaction closed makes it fail with ErrIntervalRaceLost,
\* which rolls the transaction back.
insertOpenInterval(w) ==
  /\ wr[w].pc = "insert"
  /\ \A v \in Writers : wr[v].pc # "inserted"
  /\ \/ /\ \E i \in Ids : IsOpen(i) /\ i # wr[w].target
        /\ Finish(w)
     \/ /\ \A i \in Ids : IsOpen(i) => i = wr[w].target
        /\ Goto(w, "inserted", wr[w].target)
  /\ UNCHANGED <<rows, now, since, analyses>>

\* Of the enrichments a caller may start for the interval id it got back:
\* only a transition to degraded starts one.
Dispatch(w, i) ==
  \/ UNCHANGED analyses
  \/ wr[w].status = "degraded" /\ analyses' = analyses \cup {i}

\* The commit of the extend branch: last_seen_at moves.
CommitExtend(w) ==
  LET i == wr[w].target IN
  /\ wr[w].pc = "extend"
  /\ rows' = [rows EXCEPT ![i] = [@ EXCEPT !.seen = wr[w].at]]
  /\ Dispatch(w, i)
  /\ Finish(w)
  /\ UNCHANGED <<now, since>>

OpenRow(w) ==
  [state |-> "open", status |-> wr[w].status, starts |-> wr[w].at,
   seen |-> wr[w].at, ends |-> wr[w].at, analysis |-> FALSE]

ClosedRow(i, at) ==
  [state |-> "closed", status |-> rows[i].status, starts |-> rows[i].starts,
   seen |-> rows[i].seen, ends |-> at, analysis |-> rows[i].analysis]

\* The commit of an insert: the old open row, if any, and the new one change
\* together.
CommitInsert(w) ==
  /\ wr[w].pc = "inserted"
  /\ \E j \in Ids :
       /\ rows[j].state = "unused"
       /\ rows' = [k \in Ids |-> IF k = j THEN OpenRow(w)
                                 ELSE IF k = wr[w].target THEN ClosedRow(k, wr[w].at)
                                 ELSE rows[k]]
       /\ Dispatch(w, j)
  /\ since' = IF since = Null THEN wr[w].at ELSE since
  /\ Finish(w)
  /\ UNCHANGED now

\* Any error, a cancelled context or a crash: the deferred rollback.
Rollback(w) ==
  /\ wr[w].pc # "idle"
  /\ Finish(w)
  /\ UNCHANGED <<rows, now, since, analyses>>

-----------------------------------------------------------------------------
(* SetIntervalAnalysis, by the enrichment of interval i; it may fail.       *)

\* An UPDATE by id, whatever became of the row; none if it was deleted.
SetIntervalAnalysis(i) ==
  /\ i \in analyses
  /\ analyses' = analyses \ {i}
  /\ rows' = [rows EXCEPT ![i] = IF Stored(i) THEN [@ EXCEPT !.analysis = TRUE] ELSE @]
  /\ UNCHANGED <<now, since, wr>>

-----------------------------------------------------------------------------
(* The pruner: one tick of runCycle that got the prune lock.               *)

\* Mutant: retention counted from the start of an interval.
pruneByStart ==
  /\ rows' = [k \in Ids |-> IF rows[k].state = "closed" /\ rows[k].starts < now - Retention
                            THEN NoRow("deleted") ELSE rows[k]]
  /\ UNCHANGED <<now, since, wr, analyses>>

DeleteClosedBefore(cutoff) ==
  rows' = [k \in Ids |-> IF rows[k].state = "closed" /\ rows[k].ends < cutoff
                         THEN NoRow("deleted") ELSE rows[k]]

prune ==
  /\ DeleteClosedBefore(now - Retention)
  /\ UNCHANGED <<now, since, wr, analyses>>

-----------------------------------------------------------------------------
OpenOrExtend(w) ==
  \/ SelectOpen(w) \/ LockRow(w) \/ insertOpenInterval(w)
  \/ CommitExtend(w) \/ CommitInsert(w)

Next ==
  \/ Tick
  \/ \E w \in Writers : \/ \E st \in Statuses : Observe(w, st)
                        \/ OpenOrExtend(w) \/ Rollback(w)
  \/ \E i \in Ids : SetIntervalAnalysis(i)
  \/ prune

Spec == Init /\ [][Next]_vars

-----------------------------------------------------------------------------
(* Correctness.                                                             *)

\* Whatever writers race, a service never has two open intervals.
AtMostOneOpen == \A i, j \in Ids : (IsOpen(i) /\ IsOpen(j)) => i = j

\* What the public page reads.
ListOverlapping(windowStart, until) ==
  {i \in Ids : /\ Stored(i) /\ rows[i].starts < until
               /\ IsOpen(i) \/ rows[i].ends > windowStart}

\* The history shown is without holes: every instant since the first
\* observation that lies in the page's window is inside an interval that
\* ListOverlapping returns, whatever was raced, rolled back or pruned.
HistoryCovered ==
  \A t \in Times :
    (since # Null /\ t >= since /\ t >= now - Window /\ t < now) =>
      \E i \in ListOverlapping(now - Window, now) :
        rows[i].starts <= t /\ (IsOpen(i) \/ t < rows[i].ends)

\* The enrichment's text lands on the degraded interval it was written for,
\* never on the interval open when it arrives (DEGINT-02, DEGINT-05).
AnalysisOnDegradedOnly ==
  \A i \in Ids : rows[i].analysis => rows[i].status = "degraded"

\* What a reader takes the rows for: the current entry and the ended ones.
Current == {[status |-> rows[i].status, starts |-> rows[i].starts] :
              i \in {k \in Ids : IsOpen(k)}}
Past == {[status |-> rows[i].status, starts |-> rows[i].starts, ends |-> rows[i].ends] :
           i \in {k \in Ids : rows[k].state = "closed"}}

Timeline == INSTANCE StatusTimeline WITH current <- Current, past <- Past

\* OpenOrExtend, its losers and its crashes included, is atomic: the table
\* is a StatusTimeline.
ImplementsTimeline == Timeline!TimelineSpec

\* The next statement of w's transaction waits for no lock and no insert.
Ready(w) ==
  \/ wr[w].pc \in {"observed", "extend"}
  \/ wr[w].pc = "locking" /\ \A v \in Writers : ~HoldsRow(v, wr[w].target)
  \/ wr[w].pc = "insert" /\ \A v \in Writers : wr[v].pc # "inserted"
  \/ wr[w].pc = "inserted" /\ \E i \in Ids : rows[i].state = "unused"

\* While transactions are in flight one of them waits for no other (as long
\* as there are ids left: Ids bounds the table).
SomeoneReady ==
  ((\E w \in Writers : wr[w].pc # "idle") /\ (\E i \in Ids : rows[i].state = "unused")) =>
    \E w \in Writers : Ready(w)

\* Row locks and the wait for an uncommitted insert never form a cycle: one
\* transaction in flight can go on, without a rollback, and so can every one
\* that waits for nothing, whatever became of its row meanwhile.
NoLockCycle ==
  SomeoneReady /\ \A w \in Writers : Ready(w) => ENABLED OpenOrExtend(w)
=============================================================================
