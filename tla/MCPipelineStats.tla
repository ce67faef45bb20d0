--------------------------- MODULE MCPipelineStats ---------------------------
(* The instances of MCPipeline with the load-use statistic. *)
EXTENDS PipelineStats, MCPipeline

=============================================================================
