--------------------------- MODULE TranscriptProofs ---------------------------
(***************************************************************************)
(* What the recorder promises about every call, for any callers and any    *)
(* number of messages and operations.  Each method is a WriteFails, a      *)
(* Replay, a Reject or one commit through StoreOp, so what it does to the  *)
(* operations and to the version is proved for those outcomes and lifted   *)
(* to the methods.                                                         *)
(***************************************************************************)
EXTENDS Transcript, TLAPS

USE DEF vars, facts

-----------------------------------------------------------------------------
(* The outcomes of a call *)

\* What was committed stays committed.
KeepsOps == \A o \in DOMAIN ops : o \in DOMAIN ops' /\ ops'[o] = ops[o]

\* A commit under a fresh operation id adds one operation.
LEMMA StoredOnce ==
    ASSUME NEW op, NEW kind, NEW payload, NEW who, NEW prev, NEW receipts, NEW bat, Fresh(op),
           StoreOp(op, kind, payload, who, prev, receipts, bat)
    PROVE  KeepsOps
BY DEF Fresh, StoreOp, KeepsOps, Put

\* Whichever of the four ways a method takes, the operations are kept.
LEMMA MethodKeepsOps ==
    ASSUME NEW op,
           \/ WriteFails(op)
           \/ \E kind, payload, who, prev : Replay(op, kind, payload, who, prev)
           \/ Reject(op)
           \/ Fresh(op) /\ \E kind, payload, who, prev, receipts, bat :
                              StoreOp(op, kind, payload, who, prev, receipts, bat)
    PROVE  KeepsOps
<1>1. CASE UNCHANGED ops BY <1>1 DEF KeepsOps
<1> QED BY <1>1, StoredOnce DEF WriteFails, Replay, Reject

\* Every step of the recorder keeps the operations.
LEMMA OpsNext == ASSUME Next PROVE KeepsOps
<1>1. ASSUME Input PROVE KeepsOps
  <2>1. PICK r \in Runs, t \in Targets, text \in Texts, op \in OpIds :
           RecordInput(r, t, text, op)
        BY <1>1 DEF Input
  <2> QED BY <2>1, MethodKeepsOps DEF RecordInput
<1>2. ASSUME TextDelta PROVE KeepsOps
  <2>1. PICK w \in StepWho, a \in Attempts, text \in Texts, op \in OpIds,
                prev \in {None} \cup Issued \cup ForeignReceipts :
           RecordTextDelta(w, a, text, op, prev)
        BY <1>2 DEF TextDelta
  <2> QED BY <2>1, MethodKeepsOps DEF RecordTextDelta
<1>3. ASSUME TextFinal PROVE KeepsOps
  <2>1. PICK w \in StepWho, a \in Attempts, text \in Texts \cup {None}, calls \in Batches \cup {<<>>},
                op \in OpIds, prev \in {None} \cup Issued \cup ForeignReceipts :
           RecordTextFinal(w, a, text, calls, op, prev)
        BY <1>3 DEF TextFinal
  <2> QED BY <2>1, MethodKeepsOps DEF RecordTextFinal
<1>4. ASSUME ToolCalls PROVE KeepsOps
  <2>1. PICK w \in StepWho, a \in Attempts, text \in Texts \cup {None}, calls \in Batches,
                op \in OpIds, prev \in {None} \cup IssuedBatches \cup ForeignBatches :
           RecordToolCalls(w, a, text, calls, op, prev)
        BY <1>4 DEF ToolCalls
  <2> QED BY <2>1, MethodKeepsOps DEF RecordToolCalls
<1>5. ASSUME ToolResults PROVE KeepsOps
  <2>1. PICK w \in StepWho, results \in ResultLists, op \in OpIds, prev \in IssuedBatches \cup ForeignBatches :
           RecordToolResults(w, results, op, prev)
        BY <1>5 DEF ToolResults
  <2>2. CASE UNCHANGED ops BY <2>2 DEF KeepsOps
  <2> QED BY <2>1, <2>2, MethodKeepsOps DEF RecordToolResults
<1>6. ASSUME Finalize PROVE KeepsOps
  <2>1. PICK r \in Runs, s \in Finals :
           FinalizeRun(r, s)
        BY <1>6 DEF Finalize
  <2> QED BY <2>1, MethodKeepsOps DEF FinalizeRun
<1>7. ASSUME Inject PROVE KeepsOps BY <1>7 DEF Inject, InjectWriteFailure, KeepsOps
<1> QED BY <1>1, <1>2, <1>3, <1>4, <1>5, <1>6, <1>7 DEF Next

\* _replay and _store_op: a committed logical operation is never forgotten or rewritten.
THEOREM OpsCorrect == Spec => CommittedOpsStable
<1>1. [Next]_vars => [KeepsOps]_vars BY OpsNext
<1> QED BY <1>1, PTL DEF Spec, CommittedOpsStable, KeepsOps

-----------------------------------------------------------------------------
(* The version and the history *)

IsMap(f) == f = [x \in DOMAIN f |-> f[x]]

\* What the version argument needs of the state.
ShapeInv ==
    /\ version \in Nat /\ seq \in Nat
    /\ IsMap(messages)
    /\ order \in [Targets -> Seq(Nat)]

\* A step keeps the shape and, unless the version moves, the history.
Versioned == ShapeInv' /\ (version' = version => UNCHANGED <<messages, order>>)

\* _append moves the version.
LEMMA AppendVersioned ==
    ASSUME ShapeInv, NEW t \in Targets, NEW m, AppendMessage(t, m)
    PROVE  Versioned
<1>1. version' \in Nat /\ seq' \in Nat /\ version' # version BY DEF ShapeInv, AppendMessage
<1>2. IsMap(messages') BY DEF AppendMessage, Put, IsMap
<1>3. order[t] \in Seq(Nat) /\ seq + 1 \in Nat BY DEF ShapeInv
<1>4. Append(order[t], seq + 1) \in Seq(Nat) BY <1>3
<1>5. order' \in [Targets -> Seq(Nat)] BY <1>4 DEF ShapeInv, AppendMessage
<1> QED BY <1>1, <1>2, <1>5 DEF Versioned, ShapeInv

\* _replace moves the version, although the history keeps its length.
LEMMA ReplaceVersioned ==
    ASSUME ShapeInv, NEW id, NEW m, ReplaceMessage(id, m)
    PROVE  Versioned
<1>1. IsMap(messages') BY DEF ReplaceMessage, IsMap
<1>2. version' \in Nat /\ version' # version BY DEF ShapeInv, ReplaceMessage
<1> QED BY <1>1, <1>2 DEF Versioned, ShapeInv, ReplaceMessage

\* The text methods write through one of the two.
LEMMA TextVersioned ==
    ASSUME ShapeInv, NEW key, key.who.target \in Targets, NEW content, NEW calls, WriteText(key, content, calls)
    PROVE  Versioned
BY AppendVersioned, ReplaceVersioned DEF WriteText

\* A loop that prepared every result met none it could not pair.
LEMMA AllPaired ==
    ASSUME NEW results \in Seq(Result), NEW prev, Prepares(results, prev, Len(results))
    PROVE  Unpaired(results, prev) = {}
<1>1. \A i \in DOMAIN results : ~(Len(results) < i) OBVIOUS
<1>2. \A i \in Unpaired(results, prev) : i \in DOMAIN results BY DEF Unpaired
<1> QED BY <1>1, <1>2 DEF Prepares

\* A loop that raised has appended nothing.
LEMMA NothingAppended ==
    ASSUME ShapeInv, NEW t \in Targets, AppendResults(t, <<>>)
    PROVE  UNCHANGED <<messages, order, version>>
<1> DEFINE new == [i \in DOMAIN <<>> |-> seq + i]
<1>1. Len(<<>>) = 0 OBVIOUS
<1>2. seq + 1 .. seq + Len(<<>>) = {} BY <1>1 DEF ShapeInv
<1>3. messages' = [m \in DOMAIN messages |-> messages[m]] BY <1>2 DEF AppendResults
<1>4. order[t] \in Seq(Nat) BY DEF ShapeInv
<1>5. new = <<>> OBVIOUS
<1>6. order[t] \o new = order[t] BY <1>4, <1>5
<1>7. order' = [order EXCEPT ![t] = order[t] \o new] BY DEF AppendResults
<1>8. order' = order BY <1>6, <1>7 DEF ShapeInv
<1>9. version' = version BY <1>1 DEF AppendResults, ShapeInv
<1> QED BY <1>3, <1>8, <1>9 DEF ShapeInv, IsMap

\* A batch of results moves the version by its length; an empty one writes nothing.
LEMMA ResultsVersioned ==
    ASSUME ShapeInv, NEW t \in Targets, NEW results \in Seq(Result), AppendResults(t, results), seq' \in Nat
    PROVE  Versioned
<1> DEFINE new == [i \in DOMAIN results |-> seq + i]
<1>1. Len(results) \in Nat /\ DOMAIN results = 1 .. Len(results) OBVIOUS
<1>2. version' \in Nat BY <1>1 DEF ShapeInv, AppendResults
<1>3. IsMap(messages') BY DEF AppendResults, IsMap
<1>4. new \in Seq(Nat) /\ Len(new) = Len(results) BY <1>1 DEF ShapeInv
<1>5. order[t] \in Seq(Nat) BY DEF ShapeInv
<1>6. order[t] \o new \in Seq(Nat) BY <1>4, <1>5
<1>7. order' = [order EXCEPT ![t] = order[t] \o new] BY DEF AppendResults
<1>8. order' \in [Targets -> Seq(Nat)] BY <1>6, <1>7 DEF ShapeInv
<1>9. ASSUME version' = version PROVE UNCHANGED <<messages, order>>
  <2>1. Len(results) = 0 BY <1>1, <1>9 DEF ShapeInv, AppendResults
  <2>2. results = <<>> BY <2>1
  <2> QED BY <2>2, NothingAppended
<1> QED BY <1>2, <1>3, <1>8, <1>9 DEF Versioned, ShapeInv

\* A step that writes no message needs no version.
LEMMA NothingVersioned ==
    ASSUME ShapeInv, UNCHANGED <<messages, order, version>>, seq' \in Nat
    PROVE  Versioned
BY DEF ShapeInv, Versioned, IsMap

\* A refused or repeated call writes nothing.
LEMMA RefusedVersioned ==
    ASSUME ShapeInv, NEW op, \/ WriteFails(op)
                             \/ \E kind, payload, who, prev : Replay(op, kind, payload, who, prev)
                             \/ Reject(op)
    PROVE  Versioned
<1>1. UNCHANGED <<messages, order, version>> /\ seq' \in Nat BY DEF WriteFails, Replay, Reject, ShapeInv
<1> QED BY <1>1, NothingVersioned

\* Every step of the recorder is versioned.
LEMMA ShapeNext == ShapeInv /\ [Next]_vars => Versioned
<1> SUFFICES ASSUME ShapeInv, [Next]_vars PROVE Versioned OBVIOUS
<1>0. CASE UNCHANGED vars BY <1>0, NothingVersioned DEF ShapeInv
<1>1. CASE Input
  <2>1. PICK r \in Runs, t \in Targets, text \in Texts, op \in OpIds : RecordInput(r, t, text, op)
        BY <1>1 DEF Input
  <2> QED BY <2>1, RefusedVersioned, AppendVersioned DEF RecordInput
<1>2. CASE TextDelta
  <2>1. PICK w \in StepWho, a \in Attempts, text \in Texts, op \in OpIds,
             prev \in {None} \cup Issued \cup ForeignReceipts :
           RecordTextDelta(w, a, text, op, prev)
        BY <1>2 DEF TextDelta
  <2>2. [who |-> w, attempt |-> a].who.target \in Targets BY DEF StepWho
  <2> QED BY <2>1, <2>2, RefusedVersioned, TextVersioned DEF RecordTextDelta
<1>3. CASE TextFinal
  <2>1. PICK w \in StepWho, a \in Attempts, text \in Texts \cup {None}, calls \in Batches \cup {<<>>},
             op \in OpIds, prev \in {None} \cup Issued \cup ForeignReceipts :
           RecordTextFinal(w, a, text, calls, op, prev)
        BY <1>3 DEF TextFinal
  <2>2. [who |-> w, attempt |-> a].who.target \in Targets BY DEF StepWho
  <2> QED BY <2>1, <2>2, RefusedVersioned, TextVersioned DEF RecordTextFinal
<1>4. CASE ToolCalls
  <2>1. PICK w \in StepWho, a \in Attempts, text \in Texts \cup {None}, calls \in Batches,
             op \in OpIds, prev \in {None} \cup IssuedBatches \cup ForeignBatches :
           RecordToolCalls(w, a, text, calls, op, prev)
        BY <1>4 DEF ToolCalls
  <2>2. [who |-> w, attempt |-> a].who.target \in Targets BY DEF StepWho
  <2>3. CASE UNCHANGED <<messages, order, version, seq>> BY <2>3, NothingVersioned DEF ShapeInv
  <2> QED BY <2>1, <2>2, <2>3, RefusedVersioned, TextVersioned DEF RecordToolCalls
<1>5. CASE ToolResults
  <2>1. PICK w \in StepWho, results \in ResultLists, op \in OpIds, prev \in IssuedBatches \cup ForeignBatches :
           RecordToolResults(w, results, op, prev)
        BY <1>5 DEF ToolResults
  <2>2. w.target \in Targets /\ results \in Seq(Result) BY Inputs DEF StepWho
  <2>3. CASE UNCHANGED <<messages, order, version, seq>> BY <2>3, NothingVersioned DEF ShapeInv
  <2>4. ASSUME NEW n \in 0 .. Len(results), seq' = seq + n, AppendResults(w.target, Written(results, n))
        PROVE  Versioned
    <3>1. seq' \in Nat BY <2>2, <2>4 DEF ShapeInv
    <3>2. <<>> \in Seq(Result) OBVIOUS
    <3>3. Written(results, n) \in Seq(Result) BY <2>2, <3>2 DEF Written
    <3> QED BY <2>2, <2>4, <3>1, <3>3, ResultsVersioned
  <2> QED BY <2>1, <2>3, <2>4, RefusedVersioned DEF RecordToolResults
<1>6. CASE Finalize
  <2>1. PICK r \in Runs, s \in Finals : FinalizeRun(r, s) BY <1>6 DEF Finalize
  <2>2. CASE UNCHANGED <<messages, order, version, seq>> BY <2>2, NothingVersioned DEF ShapeInv
  <2> QED BY <2>1, <2>2, RefusedVersioned DEF FinalizeRun
<1>7. CASE Inject
  <2>1. UNCHANGED <<messages, order, version, seq>> BY <1>7 DEF Inject, InjectWriteFailure
  <2> QED BY <2>1, NothingVersioned DEF ShapeInv
<1> QED BY <1>0, <1>1, <1>2, <1>3, <1>4, <1>5, <1>6, <1>7 DEF Next

\* An empty recorder has the shape.
LEMMA ShapeInit == Init => ShapeInv
<1> SUFFICES ASSUME Init PROVE ShapeInv OBVIOUS
<1>1. IsMap(messages) BY DEF Init, IsMap
<1>2. order \in [Targets -> Seq(Nat)] BY DEF Init
<1> QED BY <1>1, <1>2 DEF Init, ShapeInv

\* _append and _replace are the only writers of _messages and _order, and each counts:
\* the step provider may compare versions instead of snapshots.
THEOREM VersionCorrect == Spec => VersionCoversHistory
<1>1. ShapeInv /\ [Next]_vars => ShapeInv' BY ShapeNext DEF Versioned
<1>2. ShapeInv /\ [Next]_vars => [version' = version => UNCHANGED <<messages, order>>]_vars
      BY ShapeNext DEF Versioned
<1> QED BY <1>1, <1>2, ShapeInit, PTL DEF Spec, VersionCoversHistory

=============================================================================
