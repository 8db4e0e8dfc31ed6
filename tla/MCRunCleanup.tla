----------------------------- MODULE MCRunCleanup -----------------------------
(* Small instances of the cleanup for TLC. *)
EXTENDS RunCleanup

=============================================================================
