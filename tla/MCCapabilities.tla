---------------------------- MODULE MCCapabilities ----------------------------
(* A small instance of the capabilities for TLC. *)
EXTENDS Capabilities, TLC

\* A provider of the host that is no BindingSource, one with a registry of its own, and
\* a fixed one with another.
SomeChain == <<[registry |-> "none", fixed |-> <<>>],
               [registry |-> "g1", fixed |-> <<>>],
               [registry |-> "g2", fixed |-> "echo" :> "b"]>>

=============================================================================
