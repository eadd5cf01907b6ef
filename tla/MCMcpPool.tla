----------------------------- MODULE MCMcpPool ------------------------------
(* McpPool with two servers, two tools and two callers.                    *)
EXTENDS McpPool
=============================================================================
