------------------------------ MODULE MCAgentRun ------------------------------
(* Small instances of one run for TLC. *)
EXTENDS AgentRun

=============================================================================
