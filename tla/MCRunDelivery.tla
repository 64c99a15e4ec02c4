--------------------------- MODULE MCRunDelivery ---------------------------
(***************************************************************************)
(* RunDelivery on small instances.                                         *)
(***************************************************************************)
EXTENDS RunDelivery, TLC

CONSTANTS Bff   \* a node that opens runs and does not execute them

(* Every run event is produced by a node that consumes none.               *)
AllFromBff == [e \in EventIDs |-> Bff]

(* One event is produced by an executing replica itself, about its own     *)
(* step; the others by the bff.                                            *)
OneFromReplica ==
    LET own == CHOOSE e \in EventIDs : TRUE
    IN  [e \in EventIDs |->
            IF e = own THEN CHOOSE c \in Consumers : TRUE ELSE Bff]

(* Events of one producer are interchangeable.                             *)
EventSymmetry == Permutations(EventIDs)

=============================================================================
