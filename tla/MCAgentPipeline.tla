--------------------------- MODULE MCAgentPipeline ---------------------------
EXTENDS AgentPipeline

MCPosts == 1 .. 2
=============================================================================
