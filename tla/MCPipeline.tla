----------------------------- MODULE MCPipeline -----------------------------
(* Instances of Pipeline for model checking. *)
EXTENDS Pipeline

CONSTANT stopper
=============================================================================
