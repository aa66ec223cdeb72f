----------------------------- MODULE MCMcpAuth -----------------------------
(* Small instances of McpAuth for TLC. *)
EXTENDS McpAuth, TLC

=============================================================================
