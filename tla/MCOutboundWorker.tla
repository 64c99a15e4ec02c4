-------------------------- MODULE MCOutboundWorker --------------------------
(***************************************************************************)
(* OutboundWorker on small instances.                                      *)
(***************************************************************************)
EXTENDS OutboundWorker, TLC

DeliveryKeys == Requests \X AttemptCounts

(* Every replica egresses every medium.                                    *)
AnyNode == Nodes \X Requests

(* The first request waits for a medium no replica egresses.               *)
NotFirst == {<<n, r>> \in Nodes \X Requests : r # 1}

(* One replica egresses every medium, the others the last request's only.  *)
LastEverywhere ==
    LET main == CHOOSE n \in Nodes : TRUE
    IN  {<<n, r>> \in Nodes \X Requests : n = main \/ r = NumRequests}

(* Replicas that egress the same media are interchangeable.                *)
ReplicaSymmetry == Permutations(Nodes)

=============================================================================
