----------------------------- MODULE MCRolling -----------------------------
\* Module Rolling for TLC, on the chain of MCPipeline
EXTENDS Rolling, MCPipeline
=============================================================================
