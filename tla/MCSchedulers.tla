---------------------------- MODULE MCSchedulers ----------------------------
\* Two ticks a day for the digest, two units a day for the domain check.
EXTENDS Schedulers, TLC

SchedulersSymmetry == Permutations(Replicas) \cup Permutations(Checkers)
=============================================================================
