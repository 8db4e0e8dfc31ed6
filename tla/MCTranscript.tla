----------------------------- MODULE MCTranscript -----------------------------
(* Small instances of the recorder for TLC. *)
EXTENDS Transcript, TLC

CONSTANTS a, b, c1, c2, u1, r1

TwoTexts == {<<a>>, <<b>>}

\* One call, two calls, and a batch outside the transcript.
SomeBatches == {<<c1>>, <<c1, c2>>, <<u1>>}

\* A batch of which a part is recorded.
OneBatch == {<<c1, u1>>}

\* A full answer, an answer to a call the batch may not have, and one that fails half way.
SomeResults == {<<[call |-> c1, output |-> <<a>>]>>,
                <<[call |-> c1, output |-> <<a>>], [call |-> c2, output |-> <<a>>]>>}

OneResult == {<<[call |-> c1, output |-> <<a>>]>>}

\* Receipts that name the first message, whether or not they were ever issued.
MadeUpReceipts == {Receipt(1, [run |-> r1, step |-> 1, target |-> t], o) : t \in Targets, o \in OpIds}
MadeUpBatches  == {BatchOf([run |-> r1, step |-> 1, target |-> t], o, <<c1>>, 1) : t \in Targets, o \in OpIds}

Nothing == {}

\* Operation ids and targets are interchangeable.
SymmetricOps     == Permutations(OpIds)
SymmetricTargets == Permutations(OpIds) \cup Permutations(Targets)

=============================================================================
