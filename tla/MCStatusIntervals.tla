------------------------ MODULE MCStatusIntervals ------------------------
(* Instances of StatusIntervals and History for TLC.                        *)
EXTENDS History, TLC

IdWriterSymmetry == Permutations(Ids) \cup Permutations(Writers)

\* Buckets wider than the unit, so that ends fall between boundaries, and
\* buckets of one unit.
TwoRanges == {[bucketWidth |-> 2, bucketCount |-> 2], [bucketWidth |-> 1, bucketCount |-> 3]}

\* From before the first bucket to the end of the last.
AroundMidnight == -2..3
=============================================================================
