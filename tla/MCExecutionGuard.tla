-------------------------- MODULE MCExecutionGuard --------------------------
(***************************************************************************)
(* ExecutionGuard on a small instance.                                     *)
(***************************************************************************)
EXTENDS ExecutionGuard, TLC

(* The strict key is claimed with two different leases, as the claim of a  *)
(* human answer is; the others are claimed once.                           *)
LeasesAndOnce == [k \in ClaimKeys |-> IF k \in Strict THEN {1, 2} ELSE {0}]

ReplicaSymmetry == Permutations(Nodes)

=============================================================================
