---------------------------- MODULE MCMcpServer -----------------------------
(* The MCP server answering a few calls for two apps.                       *)
EXTENDS McpServer
=============================================================================
