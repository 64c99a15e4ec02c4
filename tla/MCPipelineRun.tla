---------------------------- MODULE MCPipelineRun ---------------------------
(***************************************************************************)
(* PipelineRun on small instances.  The runs check liveness, so the drives *)
(* are told apart.                                                         *)
(***************************************************************************)
EXTENDS PipelineRun

=============================================================================
