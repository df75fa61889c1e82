-------------------------- MODULE MCPollerManager --------------------------
(* Two replicas of PollerManager for TLC.                                   *)
EXTENDS PollerManager, TLC

ReplicaSymmetry == Permutations(Replicas)
=============================================================================
