----------------------------- MODULE MCEvaluate -----------------------------
\* Module Evaluate for TLC, on the chain of MCPipeline
EXTENDS Evaluate, MCPipeline
=============================================================================
