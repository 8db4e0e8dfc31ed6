---------------------------- MODULE MCStepContext ----------------------------
(* Small instances of the step provider for TLC. *)
EXTENDS StepContext

Said(role, calls, answers, size) == [role |-> role, calls |-> calls, answers |-> answers, size |-> size]

User(size)   == Said("user", <<>>, None, size)
Ask(calls)   == Said("assistant", calls, None, 1)
Result(call) == Said("tool", <<>>, call, 1)

\* One call, two calls, a repeated call, and results that may or may not belong to them.
AllBodies == {User(1), Ask(<<"c1">>), Ask(<<"c1", "c2">>), Ask(<<"c1", "c1">>), Result("c1"), Result("c2")}

\* The second set of tools leaves less for the prompt; the last one leaves nothing.
SomeSchemas == <<1, 2, 3>>
\* The second application state contributes a message, the first has none.
SomeContributions == <<0, 1>>
=============================================================================
