----------------------- MODULE StatusIntervalsProofs -----------------------
(***************************************************************************)
(* Safety of StatusIntervals for any writers, ids, statuses and bounds,    *)
(* its refinement of StatusTimeline, and what a visitor sees of the rows   *)
(* (History).  The inductive invariant adds to the properties what the row *)
(* lock and the unique index guarantee to the transactions in flight       *)
(* (LockInv), the coverage of the whole retention period (CoverInv;        *)
(* HistoryCovered speaks of the shorter window only) and which rows the    *)
(* running enrichments are about (AnalysisInv).                            *)
(***************************************************************************)
EXTENDS History, FiniteSetTheorems, WellFoundedInduction, TLAPS

HoldsInv ==
  \A w \in Writers :
    /\ wr[w].pc = "locking" =>
         wr[w].target \in Ids /\ rows[wr[w].target].state # "unused"
    /\ wr[w].pc = "extend" => wr[w].target \in Ids
    /\ (wr[w].pc \in {"extend", "insert", "inserted"} /\ wr[w].target \in Ids) =>
         IsOpen(wr[w].target)
    /\ (wr[w].pc \in {"insert", "inserted"} /\ wr[w].target \in Ids) =>
         rows[wr[w].target].status # wr[w].status
    /\ wr[w].pc = "extend" => rows[wr[w].target].status = wr[w].status
    /\ wr[w].pc = "inserted" => \A i \in Ids : IsOpen(i) => i = wr[w].target

\* One transaction per locked row, one uncommitted insert.
ExclusionInv ==
  \A v, w \in Writers :
    /\ \A i \in Ids : (HoldsRow(v, i) /\ HoldsRow(w, i)) => v = w
    /\ (wr[v].pc = "inserted" /\ wr[w].pc = "inserted") => v = w

LockInv == HoldsInv /\ ExclusionInv

Covers(i, t) == Stored(i) /\ rows[i].starts <= t /\ (IsOpen(i) \/ t < rows[i].ends)

CoverInv ==
  since # Null =>
    \A t \in Times : (t >= since /\ t >= now - Retention) => \E i \in Ids : Covers(i, t)

AnalysisInv ==
  /\ AnalysisOnDegradedOnly
  /\ \A i \in analyses : /\ rows[i].state # "unused"
                         /\ Stored(i) => rows[i].status = "degraded"

Inv == TypeOK /\ AtMostOneOpen /\ LockInv /\ CoverInv /\ AnalysisInv

-----------------------------------------------------------------------------
\* The sentinels have the types of what they stand for.
LEMMA Sentinels ==
  /\ Idle \in Writer /\ Idle.pc = "idle"
  /\ NoRow("unused") \in Row /\ NoRow("unused").state = "unused" /\ ~NoRow("unused").analysis
  /\ NoRow("deleted") \in Row /\ NoRow("deleted").state = "deleted" /\ ~NoRow("deleted").analysis
<1>1. (CHOOSE st \in Statuses : TRUE) \in Statuses
  BY StatusesAssumption
<1>2. 0 \in Times
  BY MaxTimeAssumption DEF Times
<1> QED BY <1>1, <1>2 DEF Idle, NoRow, Writer, Row, WriterPC

\* The invariant holds of an empty table ...
LEMMA InvInit == Init => Inv
<1> SUFFICES ASSUME Init PROVE Inv
  OBVIOUS
<1>1. TypeOK
  BY Sentinels, MaxTimeAssumption DEF Init, TypeOK, Times
<1>2. AtMostOneOpen /\ LockInv
  BY Sentinels
  DEF Init, AtMostOneOpen, LockInv, HoldsInv, ExclusionInv, HoldsRow, IsOpen
<1>3. CoverInv /\ AnalysisInv
  BY Sentinels DEF Init, CoverInv, AnalysisInv, AnalysisOnDegradedOnly
<1> QED BY <1>1, <1>2, <1>3 DEF Inv

\* A step of a transaction that commits nothing leaves all that is said
\* about the table as it is.
LEMMA UncommittedFrame ==
  ASSUME Inv, UNCHANGED <<rows, now, since, analyses>>
  PROVE  AtMostOneOpen' /\ CoverInv' /\ AnalysisInv'
BY DEF Inv, AtMostOneOpen, CoverInv, AnalysisInv, AnalysisOnDegradedOnly, Covers, Stored, IsOpen

\* What a writer's record is after each kind of step.
LEMMA WriterSteps ==
  ASSUME TypeOK, NEW w \in Writers
  PROVE  /\ Finish(w) => /\ wr' \in [Writers -> Writer] /\ wr'[w].pc = "idle"
                         /\ \A v \in Writers : v # w => wr'[v] = wr[v]
         /\ \A pc \in WriterPC, i \in Ids \cup {Null} :
              Goto(w, pc, i) =>
                /\ wr' \in [Writers -> Writer]
                /\ wr'[w].pc = pc /\ wr'[w].target = i
                /\ wr'[w].status = wr[w].status /\ wr'[w].at = wr[w].at
                /\ \A v \in Writers : v # w => wr'[v] = wr[v]
<1>1. wr \in [Writers -> Writer] /\ wr[w] \in Writer
  BY DEF TypeOK
<1>2. wr[w].at \in Times /\ wr[w].status \in Statuses
  BY <1>1 DEF Writer
<1>3. ASSUME Finish(w)
      PROVE  /\ wr' \in [Writers -> Writer] /\ wr'[w].pc = "idle"
             /\ \A v \in Writers : v # w => wr'[v] = wr[v]
  BY <1>1, <1>3, Sentinels DEF Finish
<1>4. ASSUME NEW pc \in WriterPC, NEW i \in Ids \cup {Null}, Goto(w, pc, i)
      PROVE  /\ wr' \in [Writers -> Writer]
             /\ wr'[w].pc = pc /\ wr'[w].target = i
             /\ wr'[w].status = wr[w].status /\ wr'[w].at = wr[w].at
             /\ \A v \in Writers : v # w => wr'[v] = wr[v]
  <2> DEFINE rec == [pc |-> pc, at |-> wr[w].at, status |-> wr[w].status, target |-> i]
  <2>1. rec \in Writer
    BY <1>2 DEF Writer
  <2> QED BY <1>1, <1>4, <2>1 DEF Goto
<1> QED BY <1>3, <1>4

\* Steps that end a transaction, or that have not locked anything yet, keep
\* the locks exclusive.
LEMMA FinishKeepsLocks ==
  ASSUME Inv, NEW w \in Writers, rows' = rows, wr' \in [Writers -> Writer],
         wr'[w].pc \in {"idle", "observed"},
         \A v \in Writers : v # w => wr'[v] = wr[v]
  PROVE  LockInv'
BY DEF Inv, LockInv, HoldsInv, ExclusionInv, HoldsRow, IsOpen

\* ... and every step of a writer, an enrichment or the pruner keeps it.
LEMMA InvNext == Inv /\ [Next]_vars => Inv'
<1> SUFFICES ASSUME Inv, [Next]_vars PROVE Inv'
  OBVIOUS
<1>type. TypeOK
  BY DEF Inv
<1>null. Null \notin Ids
  BY NullAssumption
<1>stutter. CASE UNCHANGED vars
  BY <1>stutter, UncommittedFrame
  DEF vars, Inv, TypeOK, LockInv, HoldsInv, ExclusionInv, HoldsRow, IsOpen
<1>1. CASE Tick
  <2>1. TypeOK'
    BY <1>type, <1>1, MaxTimeAssumption DEF TypeOK, Tick, Times
  <2>2. AtMostOneOpen' /\ LockInv' /\ AnalysisInv'
    BY <1>1 DEF Inv, Tick, AtMostOneOpen, LockInv, HoldsInv, ExclusionInv, HoldsRow,
                IsOpen, Stored, AnalysisInv, AnalysisOnDegradedOnly
  <2>3. CoverInv'
    <3>1. now \in Int /\ Retention \in Int /\ now' = now + 1
      BY <1>type, <1>1, RetentionAssumption, MaxTimeAssumption DEF TypeOK, Times, Tick
    <3>2. ASSUME NEW t \in Times, t >= now' - Retention PROVE t >= now - Retention
      BY <3>1, <3>2, MaxTimeAssumption DEF Times
    <3> QED BY <1>1, <3>2 DEF Inv, CoverInv, Tick, Covers, Stored, IsOpen
  <2> QED BY <2>1, <2>2, <2>3 DEF Inv
<1>2. ASSUME NEW w \in Writers, NEW st \in Statuses, Observe(w, st) PROVE Inv'
  <2> DEFINE rec == [pc |-> "observed", at |-> now, status |-> st, target |-> Null]
  <2>1. rec \in Writer
    BY <1>type DEF TypeOK, Writer, WriterPC
  <2>2. /\ wr' \in [Writers -> Writer] /\ wr'[w].pc = "observed"
        /\ \A v \in Writers : v # w => wr'[v] = wr[v]
    BY <1>type, <1>2, <2>1 DEF TypeOK, Observe
  <2>3. UNCHANGED <<rows, now, since, analyses>>
    BY <1>2 DEF Observe
  <2>4. TypeOK'
    BY <1>type, <2>2, <2>3 DEF TypeOK
  <2>5. LockInv'
    BY <2>2, <2>3, FinishKeepsLocks
  <2> QED BY <2>3, <2>4, <2>5, UncommittedFrame DEF Inv
<1>3. ASSUME NEW w \in Writers, Rollback(w) PROVE Inv'
  <2>1. /\ wr' \in [Writers -> Writer] /\ wr'[w].pc = "idle"
        /\ \A v \in Writers : v # w => wr'[v] = wr[v]
    BY <1>type, <1>3, WriterSteps DEF Rollback
  <2>2. UNCHANGED <<rows, now, since, analyses>>
    BY <1>3 DEF Rollback
  <2>3. TypeOK' /\ LockInv'
    BY <1>type, <2>1, <2>2, FinishKeepsLocks DEF TypeOK
  <2> QED BY <2>2, <2>3, UncommittedFrame DEF Inv
<1>4. ASSUME NEW w \in Writers, SelectOpen(w) PROVE Inv'
  <2>1. UNCHANGED <<rows, now, since, analyses>>
    BY <1>4 DEF SelectOpen
  <2>2. CASE \E i \in Ids : IsOpen(i) /\ Goto(w, "locking", i)
    <3>1. PICK i \in Ids : IsOpen(i) /\ Goto(w, "locking", i)
      BY <2>2
    <3>2. /\ wr' \in [Writers -> Writer] /\ wr'[w].pc = "locking" /\ wr'[w].target = i
          /\ \A v \in Writers : v # w => wr'[v] = wr[v]
      BY <1>type, <3>1, WriterSteps DEF WriterPC
    <3>3. LockInv'
      BY <2>1, <3>1, <3>2 DEF Inv, LockInv, HoldsInv, ExclusionInv, HoldsRow, IsOpen
    <3> QED BY <1>type, <2>1, <3>2, <3>3, UncommittedFrame DEF Inv, TypeOK
  <2>3. CASE (\A i \in Ids : ~IsOpen(i)) /\ Goto(w, "insert", Null)
    <3>2. /\ wr' \in [Writers -> Writer] /\ wr'[w].pc = "insert" /\ wr'[w].target = Null
          /\ \A v \in Writers : v # w => wr'[v] = wr[v]
      BY <1>type, <2>3, WriterSteps DEF WriterPC
    <3>3. LockInv'
      BY <1>null, <2>1, <2>3, <3>2 DEF Inv, LockInv, HoldsInv, ExclusionInv, HoldsRow, IsOpen
    <3> QED BY <1>type, <2>1, <3>2, <3>3, UncommittedFrame DEF Inv, TypeOK
  <2> QED BY <1>4, <2>2, <2>3 DEF SelectOpen
<1>5. ASSUME NEW w \in Writers, LockRow(w) PROVE Inv'
  <2> DEFINE i == wr[w].target
  <2>1. UNCHANGED <<rows, now, since, analyses>>
    BY <1>5 DEF LockRow
  <2>2. i \in Ids /\ \A v \in Writers : ~HoldsRow(v, i)
    BY <1>5 DEF Inv, LockInv, HoldsInv, LockRow
  <2>3. PICK pc \in {"extend", "insert"}, j \in {i, Null} :
          /\ Goto(w, pc, j)
          /\ pc = "extend" => j = i /\ IsOpen(i) /\ rows[i].status = wr[w].status
          /\ pc = "insert" => j = Null \/ (IsOpen(i) /\ rows[i].status # wr[w].status)
    BY <1>5 DEF LockRow
  <2>4. /\ wr' \in [Writers -> Writer] /\ wr'[w].pc = pc /\ wr'[w].target = j
        /\ wr'[w].status = wr[w].status
        /\ \A v \in Writers : v # w => wr'[v] = wr[v]
    BY <1>type, <2>2, <2>3, WriterSteps DEF WriterPC
  <2>5. HoldsInv'
    BY <1>null, <2>1, <2>2, <2>3, <2>4 DEF Inv, LockInv, HoldsInv, IsOpen
  <2>6. ExclusionInv'
    BY <1>null, <2>1, <2>2, <2>3, <2>4 DEF Inv, LockInv, ExclusionInv, HoldsRow
  <2> QED BY <1>type, <2>1, <2>4, <2>5, <2>6, UncommittedFrame DEF Inv, TypeOK, LockInv
<1>6. ASSUME NEW w \in Writers, insertOpenInterval(w) PROVE Inv'
  <2>1. UNCHANGED <<rows, now, since, analyses>>
    BY <1>6 DEF insertOpenInterval
  <2>2. CASE Finish(w)
    <3>1. /\ wr' \in [Writers -> Writer] /\ wr'[w].pc = "idle"
          /\ \A v \in Writers : v # w => wr'[v] = wr[v]
      BY <1>type, <2>2, WriterSteps
    <3> QED BY <1>type, <2>1, <3>1, UncommittedFrame, FinishKeepsLocks DEF Inv, TypeOK
  <2>3. CASE /\ \A i \in Ids : IsOpen(i) => i = wr[w].target
             /\ Goto(w, "inserted", wr[w].target)
    <3>1. wr[w].target \in Ids \cup {Null}
      BY <1>type DEF TypeOK, Writer
    <3>2. /\ wr' \in [Writers -> Writer] /\ wr'[w].pc = "inserted"
          /\ wr'[w].target = wr[w].target /\ wr'[w].status = wr[w].status
          /\ \A v \in Writers : v # w => wr'[v] = wr[v]
      BY <1>type, <2>3, <3>1, WriterSteps DEF WriterPC
    <3>3. wr[w].pc = "insert" /\ \A v \in Writers : wr[v].pc # "inserted"
      BY <1>6 DEF insertOpenInterval
    <3>4. HoldsInv'
      BY <2>1, <2>3, <3>2, <3>3 DEF Inv, LockInv, HoldsInv, IsOpen
    <3>5. ExclusionInv'
      BY <2>1, <3>2, <3>3 DEF Inv, LockInv, ExclusionInv, HoldsRow
    <3> QED BY <1>type, <2>1, <3>2, <3>4, <3>5, UncommittedFrame DEF Inv, TypeOK, LockInv
  <2> QED BY <1>6, <2>2, <2>3 DEF insertOpenInterval
<1>7. ASSUME NEW w \in Writers, CommitExtend(w) PROVE Inv'
  <2> DEFINE i == wr[w].target
  <2>1. i \in Ids /\ IsOpen(i) /\ wr[w].pc = "extend" /\ rows[i].status = wr[w].status
    BY <1>7 DEF Inv, LockInv, HoldsInv, CommitExtend
  <2>2. /\ wr' \in [Writers -> Writer] /\ wr'[w].pc = "idle"
        /\ \A v \in Writers : v # w => wr'[v] = wr[v]
    BY <1>type, <1>7, WriterSteps DEF CommitExtend
  <2>3. /\ rows \in [Ids -> Row] /\ rows[i] \in Row /\ wr[w].at \in Times
        /\ rows' = [rows EXCEPT ![i] = [rows[i] EXCEPT !.seen = wr[w].at]]
    BY <1>type, <1>7, <2>1 DEF CommitExtend, TypeOK, Writer
  <2>4. [rows[i] EXCEPT !.seen = wr[w].at] \in Row
    BY <2>3 DEF Row
  <2>5. /\ rows' \in [Ids -> Row]
        /\ \A k \in Ids : /\ rows'[k].state = rows[k].state /\ rows'[k].status = rows[k].status
                          /\ rows'[k].starts = rows[k].starts /\ rows'[k].ends = rows[k].ends
                          /\ rows'[k].analysis = rows[k].analysis
    BY <2>3, <2>4 DEF Row
  <2>6. UNCHANGED <<now, since>>
    BY <1>7 DEF CommitExtend
  <2>7. analyses' = analyses \/ (rows[i].status = "degraded" /\ analyses' = analyses \cup {i})
    BY <1>7, <2>1 DEF CommitExtend, Dispatch
  <2>8. TypeOK'
    BY <1>type, <2>1, <2>2, <2>5, <2>6, <2>7 DEF TypeOK
  <2>9. AtMostOneOpen' /\ LockInv'
    BY <2>2, <2>5 DEF Inv, AtMostOneOpen, LockInv, HoldsInv, ExclusionInv, HoldsRow, IsOpen
  <2>10. CoverInv'
    BY <2>5, <2>6 DEF Inv, CoverInv, Covers, Stored, IsOpen
  <2>11. AnalysisInv'
    BY <1>type, <2>1, <2>5, <2>7
    DEF Inv, TypeOK, AnalysisInv, AnalysisOnDegradedOnly, Stored, IsOpen
  <2> QED BY <2>8, <2>9, <2>10, <2>11 DEF Inv
<1>8. ASSUME NEW w \in Writers, CommitInsert(w) PROVE Inv'
  <2> DEFINE i == wr[w].target
             at == wr[w].at
  <2>1. PICK j \in Ids :
          /\ rows[j].state = "unused"
          /\ rows' = [k \in Ids |-> IF k = j THEN OpenRow(w)
                                    ELSE IF k = i THEN ClosedRow(k, at)
                                    ELSE rows[k]]
          /\ Dispatch(w, j)
    BY <1>8 DEF CommitInsert
  <2>2. /\ wr[w].pc = "inserted" /\ now' = now
        /\ since' = IF since = Null THEN at ELSE since
        /\ \A k \in Ids : IsOpen(k) => k = i
        /\ i \in Ids => IsOpen(i) /\ rows[i].status # wr[w].status
    BY <1>8 DEF CommitInsert, Inv, LockInv, HoldsInv
  <2>3. /\ wr' \in [Writers -> Writer] /\ wr'[w].pc = "idle"
        /\ \A v \in Writers : v # w => wr'[v] = wr[v]
    BY <1>type, <1>8, WriterSteps DEF CommitInsert
  <2>4. wr[w] \in Writer /\ at \in Times /\ wr[w].status \in Statuses /\ rows \in [Ids -> Row]
    BY <1>type DEF TypeOK, Writer
  <2>5. OpenRow(w) \in Row /\ \A k \in Ids : ClosedRow(k, at) \in Row
    BY <2>4 DEF OpenRow, ClosedRow, Row
  <2>6. rows' \in [Ids -> Row]
    BY <2>1, <2>4, <2>5
  <2>7. /\ rows'[j].state = "open" /\ rows'[j].status = wr[w].status
        /\ rows'[j].starts = at /\ ~rows'[j].analysis
    BY <2>1 DEF OpenRow
  <2>8. i \in Ids =>
          /\ i # j /\ rows'[i].state = "closed" /\ rows'[i].status = rows[i].status
          /\ rows'[i].starts = rows[i].starts /\ rows'[i].ends = at
          /\ rows'[i].analysis = rows[i].analysis
    BY <2>1, <2>2 DEF ClosedRow, IsOpen
  <2>9. \A k \in Ids : (k # i /\ k # j) => rows'[k] = rows[k]
    BY <2>1
  <2>10. analyses' = analyses \/ (wr[w].status = "degraded" /\ analyses' = analyses \cup {j})
    BY <2>1 DEF Dispatch
  <2>11. TypeOK'
    BY <1>type, <2>2, <2>3, <2>4, <2>6, <2>10 DEF TypeOK
  <2>12. AtMostOneOpen'
    BY <2>2, <2>7, <2>8, <2>9 DEF AtMostOneOpen, IsOpen
  <2>13. ASSUME NEW v \in Writers, v # w, NEW k \in Ids PROVE ~HoldsRow(v, k)
    BY <2>2, <2>13 DEF Inv, LockInv, HoldsInv, ExclusionInv, HoldsRow
  <2>14. HoldsInv'
    <3> SUFFICES ASSUME NEW v \in Writers, v # w
                 PROVE  /\ wr[v].pc = "locking" =>
                             wr[v].target \in Ids /\ rows'[wr[v].target].state # "unused"
                        /\ wr[v].pc \notin {"extend", "inserted"}
                        /\ wr[v].pc = "insert" => wr[v].target \notin Ids
      BY <2>3 DEF HoldsInv, IsOpen
    <3>1. wr[v].pc = "locking" =>
            wr[v].target \in Ids /\ rows'[wr[v].target].state # "unused"
      BY <2>7, <2>8, <2>9 DEF Inv, LockInv, HoldsInv
    <3>2. wr[v].pc # "extend" /\ (wr[v].pc = "insert" => wr[v].target \notin Ids)
      BY <2>13 DEF Inv, LockInv, HoldsInv, HoldsRow
    <3>3. wr[v].pc # "inserted"
      BY <2>2 DEF Inv, LockInv, ExclusionInv
    <3> QED BY <3>1, <3>2, <3>3
  <2>15. ExclusionInv'
    BY <2>3, <2>13 DEF Inv, LockInv, ExclusionInv, HoldsRow
  <2>16. CoverInv'
    <3> SUFFICES ASSUME NEW t \in Times, t >= since', t >= now - Retention
                 PROVE  \E k \in Ids : Covers(k, t)'
      BY <2>2 DEF CoverInv
    <3>1. at \in Int /\ t \in Int
      BY <2>4, MaxTimeAssumption DEF Times
    <3>2. CASE t >= at
      BY <2>7, <3>1, <3>2 DEF Covers, Stored, IsOpen
    <3>3. CASE t < at
      <4>1. since # Null /\ since' = since
        BY <2>2, <3>1, <3>3
      <4>2. PICK k \in Ids : Covers(k, t)
        BY <4>1 DEF Inv, CoverInv
      <4>3. k # j
        BY <2>1, <4>2 DEF Covers, Stored
      <4>4. CASE k = i
        BY <2>8, <3>3, <4>2, <4>4 DEF Covers, Stored, IsOpen
      <4>5. CASE k # i
        BY <2>9, <4>2, <4>3, <4>5 DEF Covers, Stored, IsOpen
      <4> QED BY <4>4, <4>5
    <3> QED BY <3>1, <3>2, <3>3
  <2>17. AnalysisInv'
    <3>1. AnalysisOnDegradedOnly'
      BY <2>7, <2>8, <2>9 DEF Inv, AnalysisInv, AnalysisOnDegradedOnly
    <3>2. ASSUME NEW k \in analyses'
          PROVE  rows'[k].state # "unused" /\ (Stored(k)' => rows'[k].status = "degraded")
      <4>1. CASE k = j
        BY <2>7, <2>10, <2>1, <4>1, <3>2 DEF Inv, AnalysisInv
      <4>2. CASE k # j
        <5>1. k \in analyses /\ k \in Ids
          BY <1>type, <2>10, <3>2, <4>2 DEF TypeOK
        <5> QED BY <2>2, <2>8, <2>9, <4>2, <5>1 DEF Inv, AnalysisInv, Stored, IsOpen
      <4> QED BY <4>1, <4>2
    <3> QED BY <3>1, <3>2 DEF AnalysisInv
  <2> QED BY <2>11, <2>12, <2>14, <2>15, <2>16, <2>17 DEF Inv, LockInv
<1>9. ASSUME NEW i \in Ids, SetIntervalAnalysis(i) PROVE Inv'
  <2>1. rows \in [Ids -> Row] /\ rows[i] \in Row
    BY <1>type DEF TypeOK
  <2>2. [rows[i] EXCEPT !.analysis = TRUE] \in Row
    BY <2>1 DEF Row
  <2>3. /\ rows' \in [Ids -> Row]
        /\ \A k \in Ids : /\ rows'[k].state = rows[k].state /\ rows'[k].status = rows[k].status
                          /\ rows'[k].starts = rows[k].starts /\ rows'[k].ends = rows[k].ends
                          /\ k # i => rows'[k].analysis = rows[k].analysis
        /\ Stored(i) \/ rows'[i].analysis = rows[i].analysis
    BY <1>9, <2>1, <2>2 DEF SetIntervalAnalysis, Row
  <2>4. i \in analyses /\ analyses' = analyses \ {i} /\ UNCHANGED <<now, since, wr>>
    BY <1>9 DEF SetIntervalAnalysis
  <2>5. TypeOK'
    BY <1>type, <2>3, <2>4 DEF TypeOK
  <2>6. AtMostOneOpen' /\ LockInv'
    BY <2>3, <2>4 DEF Inv, AtMostOneOpen, LockInv, HoldsInv, ExclusionInv, HoldsRow, IsOpen
  <2>7. CoverInv'
    BY <2>3, <2>4 DEF Inv, CoverInv, Covers, Stored, IsOpen
  <2>8. AnalysisInv'
    BY <1>type, <2>3, <2>4 DEF Inv, TypeOK, AnalysisInv, AnalysisOnDegradedOnly, Stored
  <2> QED BY <2>5, <2>6, <2>7, <2>8 DEF Inv
<1>10. CASE prune
  <2>1. /\ rows \in [Ids -> Row] /\ UNCHANGED <<now, since, wr, analyses>>
        /\ now \in Int /\ Retention \in Int
    BY <1>type, <1>10, MaxTimeAssumption, RetentionAssumption DEF TypeOK, prune, Times
  <2>2. ASSUME NEW k \in Ids
        PROVE  \/ rows'[k] = rows[k]
               \/ /\ rows'[k] = NoRow("deleted")
                  /\ rows[k].state = "closed" /\ rows[k].ends < now - Retention
    BY <1>10 DEF prune, DeleteClosedBefore
  <2>3. TypeOK'
    <3>1. rows' \in [Ids -> Row]
      BY <1>10, <2>1, Sentinels DEF prune, DeleteClosedBefore
    <3> QED BY <1>type, <2>1, <3>1 DEF TypeOK
  <2>4. \A k \in Ids : /\ IsOpen(k)' => IsOpen(k) /\ rows'[k] = rows[k]
                       /\ IsOpen(k) => rows'[k] = rows[k]
                       /\ rows[k].state # "unused" => rows'[k].state # "unused"
    BY <2>2, Sentinels DEF IsOpen
  <2>5. AtMostOneOpen'
    BY <2>4 DEF Inv, AtMostOneOpen
  <2>6. LockInv'
    BY <2>1, <2>4 DEF Inv, LockInv, HoldsInv, ExclusionInv, HoldsRow, IsOpen
  <2>7. CoverInv'
    <3> SUFFICES ASSUME since # Null, NEW t \in Times, t >= since, t >= now - Retention
                 PROVE  \E k \in Ids : Covers(k, t)'
      BY <2>1 DEF CoverInv
    <3>1. PICK k \in Ids : Covers(k, t)
      BY DEF Inv, CoverInv
    <3>2. t \in Int /\ rows[k].ends \in Int
      BY <2>1, MaxTimeAssumption DEF Times, Row
    <3>3. rows'[k] = rows[k]
      BY <2>1, <2>2, <3>1, <3>2 DEF Covers, IsOpen
    <3> QED BY <3>1, <3>3 DEF Covers, Stored, IsOpen
  <2>8. AnalysisInv'
    BY <1>type, <2>1, <2>2, Sentinels
    DEF Inv, TypeOK, AnalysisInv, AnalysisOnDegradedOnly, Stored
  <2> QED BY <2>3, <2>5, <2>6, <2>7, <2>8 DEF Inv
<1> QED
  BY <1>stutter, <1>1, <1>2, <1>3, <1>4, <1>5, <1>6, <1>7, <1>8, <1>9, <1>10
  DEF Next, OpenOrExtend

\* Inv holds in every reachable state.
LEMMA InvAlways == Spec => []Inv
BY InvInit, InvNext, PTL DEF Spec

-----------------------------------------------------------------------------
\* The table and the transactions keep their types.
THEOREM TypeCorrect == Spec => []TypeOK
<1>1. Inv => TypeOK
  BY DEF Inv
<1> QED BY <1>1, InvAlways, PTL

\* No race of any number of writers leaves two open intervals.
THEOREM OneOpen == Spec => []AtMostOneOpen
<1>1. Inv => AtMostOneOpen
  BY DEF Inv
<1> QED BY <1>1, InvAlways, PTL

\* An enrichment's text is only ever on a degraded interval.
THEOREM AnalysisPlaced == Spec => []AnalysisOnDegradedOnly
<1>1. Inv => AnalysisOnDegradedOnly
  BY DEF Inv, AnalysisInv
<1> QED BY <1>1, InvAlways, PTL

\* The history the public page reads has no holes, for every retention at
\* least as long as the page's window.
THEOREM HistoryHasNoHoles == Spec => []HistoryCovered
<1>1. ASSUME Inv, NEW t \in Times, since # Null, t >= since, t >= now - Window, t < now
      PROVE  \E i \in ListOverlapping(now - Window, now) :
               rows[i].starts <= t /\ (IsOpen(i) \/ t < rows[i].ends)
  <2>1. /\ now \in Int /\ t \in Int /\ Window \in Int /\ Retention \in Int
        /\ Window <= Retention
    BY <1>1, MaxTimeAssumption, RetentionAssumption DEF Inv, TypeOK, Times
  <2>2. t >= now - Retention
    BY <1>1, <2>1
  <2>3. PICK i \in Ids : Covers(i, t)
    BY <1>1, <2>2 DEF Inv, CoverInv
  <2>4. rows[i] \in Row /\ rows[i].starts \in Int /\ rows[i].ends \in Int
    BY <1>1, MaxTimeAssumption DEF Inv, TypeOK, Row, Times
  <2>5. i \in ListOverlapping(now - Window, now)
    BY <1>1, <2>1, <2>3, <2>4 DEF ListOverlapping, Covers
  <2> QED BY <2>3, <2>5 DEF Covers
<1>2. Inv => HistoryCovered
  BY <1>1 DEF HistoryCovered
<1> QED BY <1>2, InvAlways, PTL

\* Whatever number of writers lock the row of a service and insert its next
\* one, they never all wait for one another: a wait for a row ends at a
\* transaction that extends it or inserts, a wait for an insert at its commit.
THEOREM WaitsEnd == Spec => []SomeoneReady
<1>1. ASSUME TypeOK, NEW w \in Writers, wr[w].pc # "idle", \E i \in Ids : rows[i].state = "unused"
      PROVE  \E v \in Writers : Ready(v)
  <2>1. wr[w].pc \in {"observed", "locking", "extend", "insert", "inserted"}
    BY <1>1 DEF TypeOK, Writer, WriterPC
  <2>2. ASSUME NEW v \in Writers, wr[v].pc = "inserted" PROVE Ready(v)
    BY <1>1, <2>2 DEF Ready
  <2>3. ASSUME NEW v \in Writers, wr[v].pc = "insert" PROVE \E u \in Writers : Ready(u)
    BY <2>2, <2>3 DEF Ready
  <2>4. ASSUME NEW v \in Writers, HoldsRow(v, wr[w].target) PROVE \E u \in Writers : Ready(u)
    <3>1. CASE wr[v].pc = "extend"
      BY <3>1 DEF Ready
    <3> QED BY <2>2, <2>3, <2>4, <3>1 DEF HoldsRow
  <2>5. CASE wr[w].pc = "locking"
    BY <2>4, <2>5 DEF Ready
  <2>6. CASE wr[w].pc \in {"observed", "extend"}
    BY <2>6 DEF Ready
  <2> QED BY <2>1, <2>2, <2>3, <2>5, <2>6
<1>2. TypeOK => SomeoneReady
  BY <1>1 DEF SomeoneReady
<1> QED BY <1>2, TypeCorrect, PTL

-----------------------------------------------------------------------------
(* Refinement of StatusTimeline.                                            *)

\* A step that keeps state, status, starts and ends of every row is a
\* stuttering step of the timeline.
LEMMA RefinementFrame ==
  ASSUME \A k \in Ids : /\ rows'[k].state = rows[k].state /\ rows'[k].status = rows[k].status
                        /\ rows'[k].starts = rows[k].starts /\ rows'[k].ends = rows[k].ends
  PROVE  UNCHANGED <<Current, Past>>
<1>1. Current' = Current
  BY DEF Current, IsOpen
<1>2. Past' = Past
  BY DEF Past
<1> QED BY <1>1, <1>2

\* Every step of the transactions, of the enrichments and of the pruner is a
\* step of the timeline or invisible to it: OpenOrExtend is atomic.
LEMMA RefinementStep ==
  Inv /\ [Next]_vars => [Timeline!TimelineNext]_<<Current, Past>>
<1> SUFFICES ASSUME Inv, [Next]_vars
             PROVE  Timeline!TimelineNext \/ UNCHANGED <<Current, Past>>
  OBVIOUS
<1>type. TypeOK
  BY DEF Inv
<1>1. ASSUME rows' = rows PROVE UNCHANGED <<Current, Past>>
  BY <1>1, RefinementFrame
<1>2. ASSUME NEW w \in Writers, CommitExtend(w) PROVE UNCHANGED <<Current, Past>>
  <2> DEFINE i == wr[w].target
  <2>1. rows \in [Ids -> Row] /\ rows' = [rows EXCEPT ![i] = [rows[i] EXCEPT !.seen = wr[w].at]]
    BY <1>type, <1>2 DEF CommitExtend, TypeOK
  <2> QED BY <2>1, RefinementFrame DEF Row
<1>3. ASSUME NEW i \in Ids, SetIntervalAnalysis(i) PROVE UNCHANGED <<Current, Past>>
  <2>1. rows \in [Ids -> Row]
    BY <1>type DEF TypeOK
  <2> QED BY <1>3, <2>1, RefinementFrame DEF Row, SetIntervalAnalysis
<1>4. ASSUME prune PROVE Timeline!TimelineNext
  <2>1. ASSUME NEW k \in Ids
        PROVE  \/ rows'[k] = rows[k]
               \/ rows'[k] = NoRow("deleted") /\ rows[k].state = "closed"
    BY <1>4 DEF prune, DeleteClosedBefore
  <2>2. Current' = Current
    BY <2>1, Sentinels DEF Current, IsOpen
  <2>3. Past' \subseteq Past
    BY <2>1, Sentinels DEF Past
  <2> QED BY <2>2, <2>3 DEF Timeline!TimelineNext, Timeline!Forget
<1>5. ASSUME NEW w \in Writers, CommitInsert(w) PROVE Timeline!TimelineNext
  <2> DEFINE i == wr[w].target
             at == wr[w].at
             new == [status |-> wr[w].status, starts |-> at]
  <2>1. PICK j \in Ids :
          /\ rows[j].state = "unused"
          /\ rows' = [k \in Ids |-> IF k = j THEN OpenRow(w)
                                    ELSE IF k = i THEN ClosedRow(k, at)
                                    ELSE rows[k]]
    BY <1>5 DEF CommitInsert
  <2>2. /\ \A k \in Ids : IsOpen(k) => k = i
        /\ i \in Ids => IsOpen(i) /\ rows[i].status # wr[w].status
    BY <1>5 DEF CommitInsert, Inv, LockInv, HoldsInv
  <2>3. wr[w] \in Writer /\ at \in Times /\ wr[w].status \in Statuses /\ rows \in [Ids -> Row]
    BY <1>type DEF TypeOK, Writer
  <2>4. new \in Timeline!Begun
    BY <2>3 DEF Timeline!Begun
  <2>5. rows'[j].state = "open" /\ rows'[j].status = wr[w].status /\ rows'[j].starts = at
    BY <2>1 DEF OpenRow
  <2>6. \A k \in Ids : (k # i /\ k # j) => rows'[k] = rows[k]
    BY <2>1
  <2>7. \A k \in Ids : IsOpen(k)' <=> k = j
    BY <2>1, <2>2, <2>5, <2>6 DEF IsOpen, ClosedRow
  <2>8. Current' = {new}
    <3>1. {k \in Ids : IsOpen(k)'} = {j}
      BY <2>7
    <3> QED BY <2>5, <3>1 DEF Current
  <2>9. CASE i \notin Ids
    <3>1. Current = {}
      BY <2>2, <2>9 DEF Current
    <3>2. \A k \in Ids : /\ rows'[k].state = "closed" <=> rows[k].state = "closed"
                         /\ rows[k].state = "closed" => rows'[k] = rows[k]
      BY <2>1, <2>5, <2>6, <2>9
    <3>3. Past' = Past
      BY <3>2 DEF Past
    <3> QED BY <2>4, <2>8, <3>1, <3>3
            DEF Timeline!TimelineNext, Timeline!Start
  <2>10. CASE i \in Ids
    <3> DEFINE old == [status |-> rows[i].status, starts |-> rows[i].starts]
               ended == [status |-> rows[i].status, starts |-> rows[i].starts, ends |-> at]
    <3>1. rows[i] \in Row /\ old \in Timeline!Begun
      BY <2>3, <2>10 DEF Timeline!Begun, Row
    <3>2. {k \in Ids : IsOpen(k)} = {i}
      BY <2>2, <2>10
    <3>3. Current = {old}
      BY <3>2 DEF Current
    <3>4. /\ i # j /\ rows'[i].state = "closed" /\ rows'[i].status = rows[i].status
          /\ rows'[i].starts = rows[i].starts /\ rows'[i].ends = at
          /\ rows[i].state = "open"
      BY <2>1, <2>2, <2>10 DEF ClosedRow, IsOpen
    <3>5. {k \in Ids : rows'[k].state = "closed"} = {k \in Ids : rows[k].state = "closed"} \cup {i}
      BY <2>1, <2>5, <2>6, <2>10, <3>4
    <3>6. \A k \in Ids : rows[k].state = "closed" => rows'[k] = rows[k]
      BY <2>1, <2>6, <3>4
    <3>7. Past' = Past \cup {ended}
      BY <3>4, <3>5, <3>6 DEF Past
    <3>8. Timeline!Switch(old, new)
      BY <2>2, <2>8, <2>10, <3>3, <3>7 DEF Timeline!Switch
    <3>9. \E o, n \in Timeline!Begun : Timeline!Switch(o, n)
      <4> HIDE DEF old, new
      <4> QED BY <2>4, <3>1, <3>8
    <3> QED BY <3>9 DEF Timeline!TimelineNext
  <2> QED BY <2>9, <2>10
<1>6. CASE UNCHANGED vars
  BY <1>1, <1>6 DEF vars
<1>7. CASE Next
  <2>1. \/ rows' = rows \/ prune
        \/ \E w \in Writers : CommitExtend(w) \/ CommitInsert(w)
        \/ \E i \in Ids : SetIntervalAnalysis(i)
    BY <1>7 DEF Next, OpenOrExtend, Tick, Observe, SelectOpen, LockRow,
                insertOpenInterval, Rollback
  <2> QED BY <2>1, <1>1, <1>2, <1>3, <1>4, <1>5
<1> QED BY <1>6, <1>7

\* The rows of a service, written by racing, failing and pruned transactions,
\* implement the atomic timeline its readers rely on.
THEOREM Refinement == Spec => ImplementsTimeline
<1>1. Init => Timeline!TimelineInit
  <2> SUFFICES ASSUME Init PROVE Timeline!TimelineInit
    OBVIOUS
  <2>1. \A k \in Ids : rows[k].state = "unused"
    BY Sentinels DEF Init
  <2>2. Current = {} /\ Past = {}
    BY <2>1 DEF Current, Past, IsOpen
  <2> QED BY <2>2 DEF Timeline!TimelineInit
<1>2. Inv /\ [Next]_vars => [Timeline!TimelineNext]_<<Current, Past>>
  BY RefinementStep
<1>3. Spec => Timeline!TimelineInit /\ [][Timeline!TimelineNext]_<<Current, Past>>
  BY <1>1, <1>2, InvAlways, PTL DEF Spec
<1> QED BY <1>3 DEF ImplementsTimeline, Timeline!TimelineSpec

-----------------------------------------------------------------------------
(* HistoryExact.  The folds of the library are recursive functions chosen   *)
(* by an equation, so what they compute is argued by a smallest             *)
(* counterexample: among the finite subsets, or among the numbers.          *)

\* Of the bad subsets of a finite set, one is no longer bad once any of its
\* elements is taken out.
LEMMA SmallestSubset ==
  ASSUME NEW T, IsFiniteSet(T), NEW Bad, Bad \subseteq SUBSET T, Bad # {}
  PROVE  \E s \in Bad : \A x \in s : s \ {x} \notin Bad
<1>1. IsWellFoundedOn(StrictSubsetOrdering(T), SUBSET T)
  BY FS_StrictSubsetOrderingWellFounded, FS_FiniteSubsetsOfFinite
<1>2. PICK s \in Bad : \A y \in Bad : ~(<<y, s>> \in StrictSubsetOrdering(T))
  BY <1>1, WFMin
<1>3. ASSUME NEW x \in s, s \ {x} \in Bad PROVE FALSE
  BY <1>2, <1>3 DEF StrictSubsetOrdering
<1> QED BY <1>3

\* A set of numbers has its smallest.
LEMMA SmallestNat ==
  ASSUME NEW S, S \subseteq Nat, S # {}
  PROVE  \E x \in S : \A y \in S : x <= y
<1>1. PICK x \in S : \A y \in S : ~(<<y, x>> \in OpToRel(<, Nat))
  BY NatLessThanWellFounded, WFMin
<1>2. \A y \in S : ~(y < x)
  BY <1>1 DEF OpToRel
<1> QED BY <1>2

\* Min of a finite set is what it is taken for.
LEMMA LeastOf ==
  ASSUME NEW S, IsFiniteSet(S), S # {}, S \subseteq Int
  PROVE  Min(S) \in S /\ \A y \in S : Min(S) <= y
<1> DEFINE Has(s) == \E m \in s : \A y \in s : m <= y
           Bad == {s \in SUBSET S : s # {} /\ ~Has(s)}
<1>1. ASSUME Bad # {} PROVE FALSE
  <2>1. PICK s \in Bad : \A x \in s : s \ {x} \notin Bad
    BY <1>1, SmallestSubset
  <2>2. PICK x \in s : TRUE
    OBVIOUS
  <2>3. CASE s \ {x} = {}
    <3>1. s = {x} /\ x \in Int
      BY <2>3
    <3> QED BY <3>1
  <2>4. CASE Has(s \ {x})
    <3>1. PICK m \in s \ {x} : \A y \in s \ {x} : m <= y
      BY <2>4
    <3>2. m \in Int /\ x \in Int /\ s \subseteq Int
      OBVIOUS
    <3>3. CASE m <= x
      BY <3>1, <3>2, <3>3
    <3>4. CASE x < m
      <4>1. \A y \in s : x <= y
        BY <3>1, <3>2, <3>4
      <4> QED BY <4>1
    <3> QED BY <3>2, <3>3, <3>4
  <2> QED BY <2>1, <2>3, <2>4
<1>2. Has(S)
  BY <1>1
<1> QED BY <1>2 DEF Min

\* ... and so are Max and Min of two numbers.
LEMMA MaxPair ==
  ASSUME NEW a \in Int, NEW b \in Int
  PROVE  Max({a, b}) = IF a >= b THEN a ELSE b
<1> DEFINE m == IF a >= b THEN a ELSE b
<1>1. m \in {a, b} /\ \A y \in {a, b} : m >= y
  OBVIOUS
<1>2. \A x \in {a, b} : (\A y \in {a, b} : x >= y) => x = m
  OBVIOUS
<1> QED BY <1>1, <1>2 DEF Max

\* (Min.)
LEMMA MinPair ==
  ASSUME NEW a \in Int, NEW b \in Int
  PROVE  Min({a, b}) = IF a <= b THEN a ELSE b
<1> DEFINE m == IF a <= b THEN a ELSE b
<1>1. m \in {a, b} /\ \A y \in {a, b} : m <= y
  OBVIOUS
<1>2. \A x \in {a, b} : (\A y \in {a, b} : x <= y) => x = m
  OBVIOUS
<1> QED BY <1>1, <1>2 DEF Min

-----------------------------------------------------------------------------
\* What the sum over one element less adds, as an equation about the function
\* that computes it.
SumStep(g, h, s) ==
  IF s = {} THEN 0 ELSE h[CHOOSE x \in s : TRUE] + g[s \ {CHOOSE x \in s : TRUE}]
SumOf(g, T, h) == g = [s \in SUBSET T |-> SumStep(g, h, s)]

\* The equation has a solution over the subsets of any finite set.
LEMMA SumExists ==
  ASSUME NEW T, IsFiniteSet(T), NEW h
  PROVE  \E g : SumOf(g, T, h)
<1> DEFINE Upto(g, n) == \A s \in SUBSET T : Cardinality(s) <= n => g[s] = SumStep(g, h, s)
           Bad == {n \in Nat : ~\E g : Upto(g, n)}
<1>0. \A s \in SUBSET T : IsFiniteSet(s) /\ Cardinality(s) \in Nat /\ Cardinality(s) <= Cardinality(T)
  BY FS_Subset, FS_CardinalityType
<1>1. ASSUME Bad # {} PROVE FALSE
  <2>1. PICK n \in Bad : \A m \in Bad : n <= m
    BY <1>1, SmallestNat
  <2>2. ASSUME n = 0 PROVE FALSE
    <3> DEFINE g == [s \in SUBSET T |-> 0]
    <3>1. ASSUME NEW s \in SUBSET T, Cardinality(s) <= 0 PROVE g[s] = SumStep(g, h, s)
      <4>1. s = {}
        BY <1>0, <3>1, FS_EmptySet
      <4> QED BY <4>1 DEF SumStep
    <3>2. Upto(g, 0)
      BY <3>1
    <3> QED BY <2>1, <2>2, <3>2
  <2>3. n - 1 \in Nat /\ n - 1 \notin Bad
    BY <2>1, <2>2
  <2>4. PICK f : Upto(f, n - 1)
    BY <2>3
  <2> DEFINE g == [s \in SUBSET T |-> SumStep(f, h, s)]
  <2>5. ASSUME NEW s \in SUBSET T, Cardinality(s) <= n PROVE g[s] = SumStep(g, h, s)
    <3>1. CASE s = {}
      BY <3>1 DEF SumStep
    <3>2. CASE s # {}
      <4> DEFINE c == CHOOSE x \in s : TRUE
                 r == s \ {c}
      <4>1. c \in s /\ r \in SUBSET T
        BY <3>2
      <4>2. Cardinality(r) <= n - 1
        <5>1. Cardinality(r) = Cardinality(s) - 1
          BY <1>0, <4>1, FS_RemoveElement
        <5> QED BY <1>0, <2>3, <2>5, <5>1
      <4>3. g[r] = f[r]
        BY <2>4, <4>1, <4>2
      <4>4. g[s] = h[c] + f[r] /\ SumStep(g, h, s) = h[c] + g[r]
        BY <3>2 DEF SumStep
      <4> QED BY <4>3, <4>4
    <3> QED BY <3>1, <3>2
  <2>6. Upto(g, n)
    BY <2>5
  <2> QED BY <2>1, <2>6
<1>2. PICK f : Upto(f, Cardinality(T))
  BY <1>1, FS_CardinalityType
<1> DEFINE g == [s \in SUBSET T |-> f[s]]
<1>3. \A s \in SUBSET T : f[s] = SumStep(f, h, s)
  BY <1>0, <1>2
<1>4. \A s \in SUBSET T : SumStep(f, h, s) = SumStep(g, h, s)
  BY DEF SumStep
<1>5. SumOf(g, T, h)
  BY <1>3, <1>4 DEF SumOf
<1> QED BY <1>5

\* What one outage takes from the span that starts at D.
Overlap(i, D, asOf) == Max({0, Min({asOf, EndOf(i, asOf)}) - Max({i.starts, D})})

\* downtime is such a sum, over the outages.
LEMMA DowntimeIsSum ==
  ASSUME NEW S, IsFiniteSet(S), NEW windowStart, NEW asOf
  PROVE  LET T == {i \in S : i.status = "outage"}
             h == [i \in T |-> Overlap(i, denominatorStart(S, windowStart), asOf)]
         IN  \E g : SumOf(g, T, h) /\ downtime(S, windowStart, asOf) = g[T]
<1> DEFINE T == {i \in S : i.status = "outage"}
           D == denominatorStart(S, windowStart)
           h == [i \in T |-> Overlap(i, D, asOf)]
           F(g) == [s \in SUBSET T |->
                      IF s = {} THEN 0
                      ELSE Overlap(CHOOSE x \in s : TRUE, D, asOf) + g[s \ {CHOOSE x \in s : TRUE}]]
           it == CHOOSE g : g = F(g)
<1>1. downtime(S, windowStart, asOf) = it[T]
  BY DEF downtime, MapThenSumSet, MapThenFoldSet, Overlap
<1>2. ASSUME NEW g PROVE F(g) = [s \in SUBSET T |-> SumStep(g, h, s)]
  <2>1. ASSUME NEW s \in SUBSET T, s # {}
        PROVE  Overlap(CHOOSE x \in s : TRUE, D, asOf) = h[CHOOSE x \in s : TRUE]
    <3>1. (CHOOSE x \in s : TRUE) \in T
      BY <2>1
    <3> QED BY <3>1
  <2> QED BY <2>1 DEF SumStep
<1>3. IsFiniteSet(T)
  BY FS_Subset
<1>4. \E g : g = F(g)
  <2>1. PICK g : SumOf(g, T, h)
    BY <1>3, SumExists
  <2>2. g = F(g)
    BY <1>2, <2>1 DEF SumOf
  <2> HIDE DEF F
  <2> QED BY <2>2
<1>5. it = F(it)
  <2> HIDE DEF F
  <2> QED BY <1>4
<1>6. SumOf(it, T, h)
  BY <1>2, <1>5 DEF SumOf
<1> QED BY <1>1, <1>6

-----------------------------------------------------------------------------
\* The sum of the sizes of finite sets bounds the size of their union, and is
\* that size when they are disjoint.
LEMMA SumOfSizes ==
  ASSUME NEW T, IsFiniteSet(T), NEW g, NEW h, SumOf(g, T, h), NEW P,
         \A x \in T : IsFiniteSet(P[x]) /\ h[x] = Cardinality(P[x])
  PROVE  LET U == UNION {P[x] : x \in T}
         IN  /\ g[T] \in Nat /\ IsFiniteSet(U) /\ Cardinality(U) <= g[T]
             /\ (\A x, y \in T : x # y => P[x] \cap P[y] = {}) => g[T] = Cardinality(U)
<1> DEFINE U(s) == UNION {P[x] : x \in s}
           Disjoint == \A x, y \in T : x # y => P[x] \cap P[y] = {}
           Good(s) == /\ g[s] \in Nat /\ IsFiniteSet(U(s)) /\ Cardinality(U(s)) <= g[s]
                      /\ Disjoint => g[s] = Cardinality(U(s))
           Bad == {s \in SUBSET T : ~Good(s)}
<1>1. ASSUME Bad # {} PROVE FALSE
  <2>1. PICK s \in Bad : \A x \in s : s \ {x} \notin Bad
    <3> HIDE DEF Bad
    <3>1. Bad \subseteq SUBSET T
      BY DEF Bad
    <3> QED BY <1>1, <3>1, SmallestSubset
  <2>2. g[s] = SumStep(g, h, s) /\ s \in SUBSET T
    BY <2>1 DEF SumOf
  <2>3. s # {}
    <3>1. ASSUME s = {} PROVE Good(s)
      <4>1. U(s) = {} /\ g[s] = 0
        BY <2>2, <3>1 DEF SumStep
      <4> QED BY <4>1, FS_EmptySet
    <3> QED BY <2>1, <3>1
  <2> DEFINE c == CHOOSE x \in s : TRUE
             r == s \ {c}
  <2>4. c \in s /\ c \in T /\ r \in SUBSET T /\ Good(r)
    <3>1. c \in s
      BY <2>3
    <3> QED BY <2>1, <2>2, <3>1
  <2>5. g[s] = Cardinality(P[c]) + g[r]
    BY <2>2, <2>3, <2>4 DEF SumStep
  <2>6. U(s) = P[c] \cup U(r)
    BY <2>4
  <2>7. IsFiniteSet(P[c]) /\ IsFiniteSet(U(r)) /\ Cardinality(P[c]) \in Nat
        /\ Cardinality(U(r)) \in Nat /\ IsFiniteSet(P[c] \cap U(r))
        /\ Cardinality(P[c] \cap U(r)) \in Nat
    BY <2>4, FS_CardinalityType, FS_Intersection
  <2>8. /\ IsFiniteSet(U(s))
        /\ Cardinality(U(s)) = Cardinality(P[c]) + Cardinality(U(r)) - Cardinality(P[c] \cap U(r))
    BY <2>6, <2>7, FS_Union
  <2>9. Disjoint => Cardinality(P[c] \cap U(r)) = 0
    <3>1. ASSUME Disjoint PROVE P[c] \cap U(r) = {}
      BY <2>4, <3>1
    <3> QED BY <3>1, FS_EmptySet
  <2>10. Good(s)
    <3>1. g[r] \in Nat /\ Cardinality(U(r)) <= g[r] /\ (Disjoint => g[r] = Cardinality(U(r)))
      BY <2>4
    <3> HIDE DEF U, Disjoint, c, r
    <3>2. g[s] \in Nat /\ Cardinality(U(s)) <= g[s]
      BY <2>5, <2>7, <2>8, <3>1
    <3>3. Disjoint => g[s] = Cardinality(U(s))
      BY <2>5, <2>7, <2>8, <2>9, <3>1
    <3> QED BY <2>8, <3>2, <3>3
  <2> QED BY <2>1, <2>10
<1>2. Good(T)
  BY <1>1
<1> QED BY <1>2

-----------------------------------------------------------------------------
\* What division gives, as an equation.
LEMMA Division ==
  ASSUME NEW a \in Nat, NEW w \in Nat \ {0}
  PROVE  \E q \in Nat : \E r \in 0..w - 1 : a \div w = q /\ a = q * w + r
  OBVIOUS

\* The quotient of an integer is one.
LEMMA DivisionInt ==
  ASSUME NEW a \in Int, NEW w \in Nat \ {0}
  PROVE  a \div w \in Int
  OBVIOUS

\* Order is kept by a factor ...
LEMMA ProductOrder ==
  ASSUME NEW a \in Int, NEW b \in Int, NEW w \in Nat, a <= b
  PROVE  a * w \in Int /\ b * w \in Int /\ a * w <= b * w
  OBVIOUS

\* ... and a step of one becomes a step of the factor.
LEMMA ProductStep ==
  ASSUME NEW a \in Int, NEW b \in Int, NEW w \in Nat, a < b
  PROVE  a * w \in Int /\ b * w \in Int /\ a * w + w <= b * w
<1>1. (a + 1) * w = a * w + w
  OBVIOUS
<1>2. (a + 1) * w <= b * w
  BY ProductOrder
<1> QED BY <1>1, <1>2

-----------------------------------------------------------------------------
\* Intervals that the two functions can be given.
Proper(S) ==
  IsFiniteSet(S) /\ \A i \in S : i.starts \in Int /\ i.ends \in Int \cup {Null}

\* They begin and end at integers.
LEMMA EndIsInt ==
  ASSUME NEW S, Proper(S), NEW asOf \in Int, NEW i \in S
  PROVE  i.starts \in Int /\ EndOf(i, asOf) \in Int
BY DEF Proper, EndOf

\* The floor of a percentage is 100% just when nothing is taken away.
LEMMA Percentage ==
  ASSUME NEW d \in Nat, NEW total \in Nat \ {0}
  PROVE  LET u == Max({0, 1000 * (total - d)}) \div total
         IN  u \in 0..1000 /\ (u = 1000 <=> d = 0)
<1> DEFINE a == Max({0, 1000 * (total - d)})
<1>1. a \in Nat /\ a <= 1000 * total /\ (a = 1000 * total <=> d = 0)
  BY MaxPair
<1> HIDE DEF a
<1>2. PICK q \in Nat, r \in 0..total - 1 : a \div total = q /\ a = q * total + r
  BY <1>1, Division
<1>3. q <= 1000
  <2>1. ASSUME 1000 < q PROVE FALSE
    <3>1. 1000 * total + total <= q * total /\ q * total \in Int
      BY <2>1, ProductStep
    <3> QED BY <1>1, <1>2, <3>1
  <2> QED BY <2>1
<1>4. ASSUME d = 0 PROVE q = 1000
  <2>1. ASSUME q < 1000 PROVE FALSE
    <3>1. q * total + total <= 1000 * total /\ q * total \in Int
      BY <2>1, ProductStep
    <3> QED BY <1>1, <1>2, <1>4, <3>1
  <2> QED BY <1>3, <2>1
<1>5. ASSUME q = 1000 PROVE d = 0
  BY <1>1, <1>2, <1>5
<1> QED BY <1>2, <1>3, <1>4, <1>5 DEF a

\* UptimePercent counts each instant of an outage, and shows 100% just when
\* there was none.
LEMMA UptimeIsExact ==
  ASSUME NEW S, Proper(S), NEW n \in Int, NEW asOf \in Int, NEW rng \in RangeSpec
  PROVE  UptimeExact(S, n, asOf, rng)
<1> DEFINE from == n - WindowOf(rng)
           D == denominatorStart(S, from)
           T == {i \in S : i.status = "outage"}
           h == [i \in T |-> Overlap(i, D, asOf)]
           out(t) == {i \in S : i.status = "outage" /\ Holds(i, asOf, t)}
           span == D..(asOf - 1)
           down == {t \in span : out(t) # {}}
           low(i) == IF i.starts >= D THEN i.starts ELSE D
           high(i) == IF asOf <= EndOf(i, asOf) THEN asOf ELSE EndOf(i, asOf)
           P == [i \in T |-> low(i)..(high(i) - 1)]
           total == asOf - D
           d == downtime(S, from, asOf)
<1> SUFFICES ASSUME UptimeDefined(S, from, asOf)
             PROVE  /\ d >= Cardinality(down)
                    /\ (\A t \in span : Cardinality(out(t)) <= 1) => d = Cardinality(down)
                    /\ UptimePercent(S, from, asOf) \in 0..1000
                    /\ UptimePercent(S, from, asOf) = 1000 <=> down = {}
  BY DEF UptimeExact
<1>1. D \in Int /\ asOf > D
  <2>1. from \in Int
    BY DEF WindowOf, RangeSpec
  <2>2. S # {} /\ asOf > D
    BY DEF UptimeDefined
  <2> DEFINE X == {i.starts : i \in S}
  <2>3. X \subseteq Int /\ X # {}
    BY <2>2, EndIsInt
  <2>4. IsFiniteSet(X)
    <3> DEFINE f == [i \in S |-> i.starts]
    <3>1. f \in Surjection(S, X)
      BY DEF Surjection
    <3> QED BY <3>1, FS_Surjection DEF Proper
  <2>5. Min(X) \in Int
    BY <2>3, <2>4, LeastOf
  <2>6. D \in Int
    BY <2>1, <2>5, MaxPair DEF denominatorStart
  <2> QED BY <2>2, <2>6
<1>2. \A i \in T : i \in S /\ i.starts \in Int /\ EndOf(i, asOf) \in Int
  BY EndIsInt
<1>3. \A i \in T : low(i) \in Int /\ high(i) \in Int
  BY <1>1, <1>2
<1>4. ASSUME NEW i \in T PROVE IsFiniteSet(P[i]) /\ h[i] = Cardinality(P[i])
  <2>1. Overlap(i, D, asOf) = IF high(i) - low(i) >= 0 THEN high(i) - low(i) ELSE 0
    <3>1. Max({i.starts, D}) = low(i) /\ Min({asOf, EndOf(i, asOf)}) = high(i)
      BY <1>1, <1>2, MaxPair, MinPair
    <3>2. Max({0, high(i) - low(i)}) = IF 0 >= high(i) - low(i) THEN 0 ELSE high(i) - low(i)
      BY <1>3, MaxPair
    <3>3. Overlap(i, D, asOf) = Max({0, high(i) - low(i)})
      <4> HIDE DEF low, high, D
      <4> QED BY <3>1 DEF Overlap
    <3>4. high(i) - low(i) \in Int
      BY <1>3
    <3> HIDE DEF low, high
    <3> QED BY <3>2, <3>3, <3>4
  <2> HIDE DEF low, high
  <2>2. /\ IsFiniteSet(low(i)..(high(i) - 1))
        /\ Cardinality(low(i)..(high(i) - 1)) =
             IF low(i) > high(i) - 1 THEN 0 ELSE high(i) - 1 - low(i) + 1
    BY <1>3, FS_Interval
  <2>3. Cardinality(P[i]) = IF high(i) - low(i) >= 0 THEN high(i) - low(i) ELSE 0
    BY <1>3, <2>2
  <2> QED BY <2>1, <2>2, <2>3
<1>5. PICK g : SumOf(g, T, h) /\ d = g[T]
  <2>1. IsFiniteSet(S)
    BY DEF Proper
  <2>2. \E g : SumOf(g, T, h) /\ downtime(S, from, asOf) = g[T]
    <3> HIDE DEF from
    <3> QED BY <2>1, DowntimeIsSum
  <2> QED BY <2>2
<1>6. IsFiniteSet(S) /\ IsFiniteSet(T)
  BY FS_Subset DEF Proper
<1>7. ASSUME NEW i \in T, NEW t \in Int
      PROVE  t \in P[i] <=> t \in span /\ Holds(i, asOf, t)
  BY <1>1, <1>2 DEF Holds
<1>8. UNION {P[i] : i \in T} = down
  <2>1. ASSUME NEW t \in down PROVE t \in UNION {P[i] : i \in T}
    <3>1. PICK i \in out(t) : TRUE
      OBVIOUS
    <3>2. t \in Int /\ t \in span /\ i \in T /\ Holds(i, asOf, t)
      BY <1>1, <3>1
    <3> QED BY <1>7, <3>2
  <2>2. ASSUME NEW i \in T, NEW t \in P[i] PROVE t \in down
    <3>1. t \in Int
      BY <1>3
    <3>2. t \in span /\ Holds(i, asOf, t)
      BY <1>7, <3>1
    <3> QED BY <3>2
  <2> QED BY <2>1, <2>2
<1>9. /\ d \in Nat /\ IsFiniteSet(down) /\ Cardinality(down) <= d
      /\ (\A x, y \in T : x # y => P[x] \cap P[y] = {}) => d = Cardinality(down)
  <2> DEFINE U == UNION {P[i] : i \in T}
  <2>1. /\ g[T] \in Nat /\ IsFiniteSet(U) /\ Cardinality(U) <= g[T]
        /\ (\A x, y \in T : x # y => P[x] \cap P[y] = {}) => g[T] = Cardinality(U)
    <3> HIDE DEF T, h, P
    <3> QED BY <1>4, <1>5, <1>6, SumOfSizes
  <2>2. U = down
    BY <1>8
  <2> HIDE DEF T, h, P, down, d, U
  <2> QED BY <1>5, <2>1, <2>2
<1>10. ASSUME \A t \in span : Cardinality(out(t)) <= 1 PROVE d = Cardinality(down)
  <2>1. ASSUME NEW x \in T, NEW y \in T, x # y, NEW t \in P[x] \cap P[y] PROVE FALSE
    <3>1. t \in Int
      BY <1>3
    <3>2. t \in span /\ Holds(x, asOf, t) /\ Holds(y, asOf, t)
      BY <1>7, <2>1, <3>1
    <3>3. x \in out(t) /\ y \in out(t) /\ IsFiniteSet(out(t))
      BY <1>6, <3>2, FS_Subset
    <3>4. Cardinality({x, y}) = 2 /\ IsFiniteSet({x, y})
      <4>1. IsFiniteSet({x}) /\ Cardinality({x}) = 1
        BY FS_Singleton
      <4>2. {x} \cup {y} = {x, y} /\ y \notin {x}
        BY <2>1
      <4>3. Cardinality({x} \cup {y}) = 1 + 1 /\ IsFiniteSet({x} \cup {y})
        BY <4>1, <4>2, FS_AddElement
      <4>4. 1 + 1 = 2
        OBVIOUS
      <4> QED BY <4>2, <4>3, <4>4, Zenon
    <3>5. 2 <= Cardinality(out(t)) /\ Cardinality(out(t)) \in Nat
      BY <3>3, <3>4, FS_Subset, FS_CardinalityType
    <3> QED BY <1>10, <3>2, <3>5
  <2> HIDE DEF T, P, d, down
  <2> QED BY <1>9, <2>1
<1>11. Cardinality(down) \in Nat /\ (Cardinality(down) = 0 <=> down = {})
  BY <1>9, FS_CardinalityType, FS_EmptySet
<1>12. d = 0 <=> down = {}
  <2>1. ASSUME down = {} PROVE d = 0
    <3>1. \A t \in span : out(t) = {}
      BY <2>1
    <3>2. \A t \in span : Cardinality(out(t)) = 0
      BY <3>1, FS_EmptySet
    <3> HIDE DEF out, span, d, down
    <3> QED BY <1>10, <1>11, <2>1, <3>2
  <2> HIDE DEF d, down
  <2> QED BY <1>9, <1>11, <2>1
<1>13. LET u == UptimePercent(S, from, asOf)
       IN  u \in 0..1000 /\ (u = 1000 <=> d = 0)
  <2>1. total \in Nat \ {0}
    BY <1>1
  <2>2. UptimePercent(S, from, asOf) = Max({0, 1000 * (total - d)}) \div total
    BY DEF UptimePercent
  <2>3. d \in Nat
    BY <1>9
  <2> HIDE DEF d, total
  <2>4. LET u == Max({0, 1000 * (total - d)}) \div total
        IN  u \in 0..1000 /\ (u = 1000 <=> d = 0)
    BY <2>1, <2>3, Percentage
  <2> QED BY <2>2, <2>4
<1> QED
  <2> HIDE DEF d, down, span, out
  <2> QED BY <1>9, <1>10, <1>11, <1>12, <1>13

-----------------------------------------------------------------------------
\* An interval lasts during [x, x + w) as soon as it begins before the end of
\* it and ends after its beginning.
LEMMA InstantIn ==
  ASSUME NEW x \in Int, NEW w \in Nat \ {0}, NEW s \in Int, NEW e \in Int
  PROVE  (\E t \in x..(x + w - 1) : s <= t /\ t < e) <=> (s < e /\ s < x + w /\ x < e)
<1>1. ASSUME s < e, s < x + w, x < e PROVE \E t \in x..(x + w - 1) : s <= t /\ t < e
  <2> DEFINE t == IF s <= x THEN x ELSE s
  <2>1. t \in x..(x + w - 1) /\ s <= t /\ t < e
    BY <1>1
  <2> QED BY <2>1
<1>2. ASSUME NEW t \in x..(x + w - 1), s <= t, t < e PROVE s < e /\ s < x + w /\ x < e
  BY <1>2
<1> QED BY <1>1, <1>2

\* The first bucket that an offset reaches ...
LEMMA FirstBucket ==
  ASSUME NEW p \in Int, NEW w \in Nat \ {0}, NEW b \in Nat
  PROVE  Max({0, Quo(p, w)}) <= b <=> p < b * w + w
<1>0. b * w \in Nat
  OBVIOUS
<1>1. CASE p >= 0
  <2>1. PICK q \in Nat, r \in 0..w - 1 : p \div w = q /\ p = q * w + r
    BY <1>1, Division
  <2>2. Max({0, Quo(p, w)}) = q
    BY <1>1, <2>1, MaxPair DEF Quo
  <2>3. ASSUME q <= b PROVE p < b * w + w
    BY <2>1, <2>3, ProductOrder
  <2>4. ASSUME b < q PROVE ~(p < b * w + w)
    BY <2>1, <2>4, ProductStep
  <2> QED BY <2>2, <2>3, <2>4
<1>2. CASE p < 0
  <2>1. PICK q \in Nat, r \in 0..w - 1 : (-p) \div w = q /\ -p = q * w + r
    <3>1. PICK m \in Nat : m = -p
      BY <1>2
    <3>2. \E q \in Nat : \E r \in 0..w - 1 : m \div w = q /\ m = q * w + r
      BY Division
    <3> QED BY <3>1, <3>2
  <2>2. Max({0, Quo(p, w)}) = 0
    BY <1>2, <2>1, MaxPair DEF Quo
  <2> QED BY <1>0, <1>2, <2>2
<1> QED BY <1>1, <1>2

\* ... and the last one that ends after it began, as lastIndex computes it.
LEMMA LastBucket ==
  ASSUME NEW o \in Int, NEW w \in Nat \ {0}, NEW k \in Nat \ {0}, NEW b \in 0..k - 1
  PROVE  b <= Min({k - 1, Quo(o, w) - (IF Rem(o, w) <= 0 THEN 1 ELSE 0)}) <=> b * w < o
<1> DEFINE back == IF Rem(o, w) <= 0 THEN 1 ELSE 0
<1>0. b * w \in Nat /\ b \in Nat
  OBVIOUS
<1>1. CASE o >= 0
  <2>1. PICK q \in Nat, r \in 0..w - 1 : o \div w = q /\ o = q * w + r
    BY <1>1, Division
  <2>2. Quo(o, w) = q
    BY <1>1, <2>1 DEF Quo
  <2>3. q * w \in Nat /\ w * q = q * w
    OBVIOUS
  <2>4. Rem(o, w) = r
    BY <2>1, <2>2, <2>3 DEF Rem
  <2>5. back = IF r = 0 THEN 1 ELSE 0
    BY <2>1, <2>4
  <2>6. b <= Min({k - 1, q - back}) <=> b <= q - back
    BY <2>5, MinPair
  <2>7. ASSUME b < q PROVE b * w < o /\ b <= q - back
    BY <2>1, <2>5, <2>7, <1>0, ProductStep
  <2>8. ASSUME b = q PROVE b * w < o <=> b <= q - back
    BY <2>1, <2>3, <2>5, <2>8
  <2>9. ASSUME b > q PROVE ~(b * w < o) /\ ~(b <= q - back)
    BY <2>1, <2>5, <2>9, <1>0, ProductStep
  <2> HIDE DEF back
  <2> QED BY <1>0, <2>1, <2>2, <2>6, <2>7, <2>8, <2>9 DEF back
<1>2. CASE o < 0
  <2>1. PICK q \in Nat, r \in 0..w - 1 : (-o) \div w = q /\ -o = q * w + r
    <3>1. PICK m \in Nat : m = -o
      BY <1>2
    <3>2. \E q \in Nat : \E r \in 0..w - 1 : m \div w = q /\ m = q * w + r
      BY Division
    <3> QED BY <3>1, <3>2
  <2>2. Quo(o, w) = -q
    BY <1>2, <2>1 DEF Quo
  <2>3. q * w \in Nat /\ w * (-q) = -(q * w)
    OBVIOUS
  <2>4. Rem(o, w) = -r
    BY <2>1, <2>2, <2>3 DEF Rem
  <2>5. back = 1
    BY <2>1, <2>4
  <2>6. Min({k - 1, -q - 1}) = -q - 1
    BY MinPair
  <2>7. -q - 1 < 0
    OBVIOUS
  <2> HIDE DEF back
  <2>8. ~(b <= Min({k - 1, Quo(o, w) - back}))
    BY <1>0, <2>2, <2>5, <2>6, <2>7
  <2> QED BY <1>0, <1>2, <2>8 DEF back
<1> QED BY <1>1, <1>2

\* BuildBuckets gives a bucket the intervals that hold at an instant of it ...
LEMMA TouchingIsHolding ==
  ASSUME NEW S, Proper(S), NEW n \in Int, NEW asOf \in Int, NEW rng \in RangeSpec,
         NEW b \in Buckets(rng)
  PROVE  Touching(S, n, asOf, rng, b) =
           {i \in S : \E t \in Instants(n, rng, b) : Holds(i, asOf, t)}
<1> DEFINE w == rng.bucketWidth
           k == rng.bucketCount
           L == leftmostStart(n, rng)
<1>1. w \in Nat \ {0} /\ k \in Nat \ {0} /\ b \in 0..k - 1 /\ b \in Nat
  BY DEF RangeSpec, Buckets
<1>2. L \in Int
  <2>1. n \div w \in Int
    BY <1>1, DivisionInt
  <2>2. (n \div w) * w \in Int /\ (k - 1) * w \in Int
    BY <1>1, <2>1
  <2> QED BY <2>2 DEF leftmostStart
<1>3. b * w \in Nat
  BY <1>1
<1>4. Instants(n, rng, b) = (L + b * w)..((L + b * w) + w - 1)
  BY DEF Instants, BucketStart
<1>5. ASSUME NEW i \in S
      PROVE  (/\ EndOf(i, asOf) > i.starts
              /\ firstIndex(i, n, rng) <= b /\ b <= lastIndex(i, n, asOf, rng))
             <=> \E t \in Instants(n, rng, b) : Holds(i, asOf, t)
  <2> DEFINE s == i.starts
             e == EndOf(i, asOf)
  <2>1. s \in Int /\ e \in Int
    BY EndIsInt
  <2>2. s - L \in Int /\ e - L \in Int
    BY <1>2, <2>1
  <2>3. firstIndex(i, n, rng) <= b <=> s - L < b * w + w
    <3>1. firstIndex(i, n, rng) = Max({0, Quo(s - L, w)})
      BY DEF firstIndex
    <3> HIDE DEF w, k, L, s
    <3> QED BY <1>1, <2>2, <3>1, FirstBucket
  <2>4. b <= lastIndex(i, n, asOf, rng) <=> b * w < e - L
    <3>1. lastIndex(i, n, asOf, rng) =
            Min({k - 1, Quo(e - L, w) - (IF Rem(e - L, w) <= 0 THEN 1 ELSE 0)})
      BY DEF lastIndex
    <3> HIDE DEF w, k, L, e
    <3> QED BY <1>1, <2>2, <3>1, LastBucket
  <2>5. (\E t \in Instants(n, rng, b) : Holds(i, asOf, t)) <=>
          \E t \in (L + b * w)..((L + b * w) + w - 1) : s <= t /\ t < e
    BY <1>4 DEF Holds
  <2>6. L + b * w \in Int
    BY <1>2, <1>3
  <2> HIDE DEF w, k, L, s, e
  <2>7. (\E t \in (L + b * w)..((L + b * w) + w - 1) : s <= t /\ t < e) <=>
          (s < e /\ s < (L + b * w) + w /\ L + b * w < e)
    BY <1>1, <2>1, <2>6, InstantIn
  <2>8. e > s <=> s < e
    BY <2>1
  <2>9. s < (L + b * w) + w <=> s - L < b * w + w
    BY <1>1, <1>2, <1>3, <2>1
  <2>10. L + b * w < e <=> b * w < e - L
    BY <1>1, <1>2, <1>3, <2>1
  <2> QED BY <2>3, <2>4, <2>5, <2>7, <2>8, <2>9, <2>10 DEF s, e
<1> QED BY <1>5 DEF Touching

\* ... so its status is the worst of them and its episodes are the degraded
\* ones.
LEMMA BucketsAreExact ==
  ASSUME NEW S, Proper(S), NEW n \in Int, NEW asOf \in Int, NEW rng \in RangeSpec
  PROVE  BucketsExact(S, n, asOf, rng)
<1> SUFFICES ASSUME NEW b \in Buckets(rng)
             PROVE  LET in == {i \in S : \E t \in Instants(n, rng, b) : Holds(i, asOf, t)}
                        bk == BuildBuckets(S, n, asOf, rng)
                    IN  /\ bk[b].status = Worst({i.status : i \in in})
                        /\ bk[b].episodes = {i \in in : i.status = "degraded"}
  BY DEF BucketsExact
<1> DEFINE in == {i \in S : \E t \in Instants(n, rng, b) : Holds(i, asOf, t)}
<1>1. Touching(S, n, asOf, rng, b) = in
  BY TouchingIsHolding
<1>2. BuildBuckets(S, n, asOf, rng)[b] =
        [status   |-> Worst({i.status : i \in in}),
         episodes |-> {i \in in : i.status = "degraded"}]
  <2> HIDE DEF in
  <2> QED BY <1>1 DEF BuildBuckets
<1> HIDE DEF in
<1> QED BY <1>2 DEF in

\* What history.BuildBuckets and history.UptimePercent compute is exact for
\* every finite set of intervals, overlapping, empty or backwards, every range
\* and every instant of reading.
THEOREM PageIsExact ==
  ASSUME NEW S, Proper(S), NEW n \in Int, NEW asOf \in Int, NEW rng \in RangeSpec
  PROVE  Exact(S, n, asOf, rng)
BY UptimeIsExact, BucketsAreExact DEF Exact

-----------------------------------------------------------------------------
\* Only finitely many ids have been handed out.
Used == {i \in Ids : rows[i].state # "unused"}
FiniteInv == IsFiniteSet(Used)

\* A step hands out at most one id.
LEMMA FiniteNext == Inv /\ FiniteInv /\ [Next]_vars => FiniteInv'
<1> SUFFICES ASSUME Inv, FiniteInv, [Next]_vars PROVE FiniteInv'
  OBVIOUS
<1>1. rows \in [Ids -> Row]
  BY DEF Inv, TypeOK
<1>2. (\E j : Used' \subseteq Used \cup {j}) => FiniteInv'
  <2> SUFFICES ASSUME NEW j, Used' \subseteq Used \cup {j} PROVE IsFiniteSet(Used')
    BY DEF FiniteInv
  <2>1. IsFiniteSet(Used \cup {j})
    BY FS_AddElement DEF FiniteInv
  <2> QED BY <2>1, FS_Subset
<1>3. CASE rows' = rows
  <2>1. Used' = Used
    BY <1>3 DEF Used
  <2> QED BY <1>2, <2>1
<1>4. ASSUME NEW w \in Writers, CommitExtend(w) PROVE FiniteInv'
  <2>1. \A k \in Ids : rows'[k].state = rows[k].state
    BY <1>1, <1>4 DEF CommitExtend, Row
  <2> QED BY <1>2, <2>1 DEF Used
<1>5. ASSUME NEW w \in Writers, CommitInsert(w) PROVE FiniteInv'
  <2>1. PICK j \in Ids : rows' = [k \in Ids |-> IF k = j THEN OpenRow(w)
                                                ELSE IF k = wr[w].target THEN ClosedRow(k, wr[w].at)
                                                ELSE rows[k]]
    BY <1>5 DEF CommitInsert
  <2>2. wr[w].target \in Ids => rows[wr[w].target].state # "unused"
    BY <1>5 DEF Inv, LockInv, HoldsInv, IsOpen, CommitInsert
  <2>3. ASSUME NEW k \in Used', k # j PROVE k \in Used
    BY <2>1, <2>2, <2>3 DEF Used
  <2> QED BY <1>2, <2>3
<1>6. ASSUME NEW i \in Ids, SetIntervalAnalysis(i) PROVE FiniteInv'
  <2>1. \A k \in Ids : rows'[k].state = rows[k].state
    BY <1>1, <1>6 DEF SetIntervalAnalysis, Row
  <2> QED BY <1>2, <2>1 DEF Used
<1>7. CASE prune
  <2>1. \A k \in Ids : rows'[k].state # "unused" => rows[k].state # "unused"
    BY <1>7 DEF prune, DeleteClosedBefore
  <2> QED BY <1>2, <2>1 DEF Used
<1> QED
  BY <1>3, <1>4, <1>5, <1>6, <1>7
  DEF Next, OpenOrExtend, vars, Tick, Observe, SelectOpen, LockRow, insertOpenInterval, Rollback

\* What the page is told is what the intervals say, for every table that the
\* writers' races, failures and the pruner can leave, for every range and
\* whenever it is read; and for any two intervals whatever.
THEOREM WhatTheVisitorSees == Spec => []HistoryExact
<1>1. Init => FiniteInv
  <2> SUFFICES ASSUME Init PROVE FiniteInv
    OBVIOUS
  <2>1. Used = {}
    BY Sentinels DEF Init, Used
  <2> QED BY <2>1, FS_EmptySet DEF FiniteInv
<1>2. ASSUME Inv, FiniteInv, NEW rng \in Ranges, NEW asOf \in 0..now
      PROVE  Exact(PageRows(rng), now, asOf, rng)
  <2>1. now \in Int /\ rng \in RangeSpec /\ asOf \in Int
    BY <1>2, RangesAssumption, MaxTimeAssumption DEF Inv, TypeOK, Times
  <2> DEFINE L == ListOverlapping(now - WindowOf(rng), now)
             row(i) == [id |-> i, status |-> rows[i].status, starts |-> rows[i].starts,
                        ends |-> IF IsOpen(i) THEN Null ELSE rows[i].ends]
             f == [i \in L |-> row(i)]
             S == {row(i) : i \in L}
  <2>2. L \subseteq Used
    BY DEF ListOverlapping, Used, Stored
  <2>3. IsFiniteSet(L)
    BY <1>2, <2>2, FS_Subset DEF FiniteInv
  <2>4. f \in Surjection(L, S)
    BY DEF Surjection
  <2>5. IsFiniteSet(S)
    <3> HIDE DEF L, S, f
    <3> QED BY <2>3, <2>4, FS_Surjection
  <2>6. ASSUME NEW i \in L
        PROVE  rows[i].starts \in Int /\ rows[i].ends \in Int
    BY <1>2, MaxTimeAssumption DEF ListOverlapping, Inv, TypeOK, Row, Times
  <2>7. Proper(S)
    BY <2>5, <2>6 DEF Proper
  <2>8. PageRows(rng) = S
    BY DEF PageRows
  <2> HIDE DEF S
  <2> QED BY <2>1, <2>7, <2>8, PageIsExact
<1>3. ASSUME NEW S \in Samples, NEW n \in SampleNows, NEW rng \in Ranges,
             NEW asOf \in (n - 2)..n
      PROVE  Exact(S, n, asOf, rng)
  <2>1. n \in Int /\ rng \in RangeSpec /\ asOf \in Int
    BY RangesAssumption, SamplesAssumption
  <2>2. PICK i \in SampleIntervals, j \in SampleIntervals : S = {i, j}
    BY DEF Samples
  <2>3. IsFiniteSet(S)
    <3>1. IsFiniteSet({i}) /\ {i} \cup {j} = {i, j}
      BY FS_Singleton
    <3> QED BY <2>2, <3>1, FS_AddElement
  <2>4. \A x \in SampleIntervals : x.starts \in Int /\ x.ends \in Int \cup {Null}
    BY SamplesAssumption DEF SampleIntervals
  <2>5. Proper(S)
    BY <2>2, <2>3, <2>4 DEF Proper
  <2> QED BY <2>1, <2>5, PageIsExact
<1>4. Inv /\ FiniteInv => HistoryExact
  BY <1>2, <1>3 DEF HistoryExact
<1> QED BY <1>1, <1>4, FiniteNext, InvAlways, PTL DEF Spec
=============================================================================
