--------------------------- MODULE MCOutboxStore ---------------------------
(***************************************************************************)
(* OutboxStore on small instances.                                         *)
(***************************************************************************)
EXTENDS OutboxStore

(* All subscribers present one consumer id: two replicas, or the old and   *)
(* the new process of one replica, resolving the same cursor.              *)
SharedIdentity == [s \in Subscribers |-> CHOOSE c \in Consumers : TRUE]

(* They subscribe to one key, as the replicas do to the run events', while *)
(* producers append to others too.                                         *)
OneTopic == [s \in Subscribers |-> {CHOOSE k \in Keys : TRUE}]

=============================================================================
