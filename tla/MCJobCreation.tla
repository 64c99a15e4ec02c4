--------------------------- MODULE MCJobCreation ----------------------------
(***************************************************************************)
(* JobCreation on a small instance.  The run checks liveness, so its Runs  *)
(* are told apart.                                                         *)
(***************************************************************************)
EXTENDS JobCreation

=============================================================================
