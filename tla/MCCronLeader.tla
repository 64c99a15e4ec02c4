---------------------------- MODULE MCCronLeader ----------------------------
(***************************************************************************)
(* CronLeader on small instances.                                          *)
(***************************************************************************)
EXTENDS CronLeader

CONSTANTS General, Scoped, Plain

(* The general lease is every node's; the scoped one is not Plain's.       *)
NotPlain == [n \in Nodes |-> IF n = Plain THEN {General} ELSE {General, Scoped}]

=============================================================================
