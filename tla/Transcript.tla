------------------------------ MODULE Transcript ------------------------------
(***************************************************************************)
(* The reference recorder MemoryTranscript (agent_runtime/recording.py):   *)
(* committed messages, per-target history, logical operations that are     *)
(* idempotent by identity, and the run status.                             *)
(*                                                                         *)
(* Every method body runs under one asyncio.Lock and awaits nothing inside *)
(* it, so one call is one action.  The callers are unconstrained: any      *)
(* method, any identity, any operation id, any receipt the recorder issued *)
(* and receipts it did not issue.                                          *)
(*                                                                         *)
(* Data: a text is a sequence of chunks, so that concatenation shows; a    *)
(* message identity is the number _next_id drew; `reasoning` follows       *)
(* `content` field by field and is left out, as are call arguments.  A     *)
(* receipt is its identity: the `created` flag it also carries is a        *)
(* return value that _receipt_identity excludes.                           *)
(***************************************************************************)
EXTENDS Naturals, Sequences, FiniteSets

CONSTANTS
    Runs, Steps, Targets, Attempts,  \* the identity of a write
    OpIds,             \* logical operation ids a caller may use
    Chunks, Texts,     \* text pieces, and the texts callers pass
    Calls,             \* tool call identities
    UnrecordedCalls,   \* the calls whose tool is in `unrecorded_tools`
    Batches,           \* the call lists callers pass
    ResultLists,       \* the result lists callers pass
    ForeignReceipts,   \* message receipts this recorder did not issue
    ForeignBatches,    \* batch receipts this recorder did not issue
    Finals,            \* the statuses callers finalize with
    None,              \* Python's None
    MaxSeq,            \* bound: message identities drawn
    MaxFaults          \* bound: injected failures pending at once

Status == {"succeeded", "failed", "cancelled", "waiting"}
Kinds  == {"input", "text_delta", "text_final", "tool_calls", "tool_results", "run_final"}

NoStep == 0                              \* step_no=None of inputs and finalization
Who    == [run : Runs, step : Steps \cup {NoStep}, target : Targets \cup {None}]
Keys   == [who : Who, attempt : Attempts]
FinalOps == Runs \X Status               \* "{run_id}:finalize:{status}"

Content  == Seq(Chunks) \cup {None}
Result   == [call : Calls, output : Seq(Chunks)]
Message  == [role : {"user", "assistant", "tool"}, content : Content,
             calls : Seq(Calls), callId : Calls \cup {None}]
MessageReceipt == [id : Nat, who : Who, op : OpIds]
CallRecord     == [call : Calls, id : Nat]
BatchReceipt   == [who : Who, op : OpIds, calls : Seq(CallRecord), message : Nat, required : BOOLEAN]
Payload == [text : Content, calls : Seq(Calls), results : Seq(Result), attempt : Attempts \cup {0}]
Committed == [kind : Kinds, payload : Payload, who : Who,
              prev : MessageReceipt \cup BatchReceipt \cup {None},
              receipts : Seq(MessageReceipt), batch : BatchReceipt \cup {None}]

ASSUME Inputs ==
    /\ Steps \subseteq Nat \ {0} /\ Attempts \subseteq Nat \ {0}
    /\ None \notin Targets \cup Calls \cup Seq(Chunks) \cup MessageReceipt \cup BatchReceipt
    /\ Texts \subseteq Seq(Chunks)
    /\ Batches \subseteq Seq(Calls)
    /\ UnrecordedCalls \subseteq Calls
    /\ ResultLists \subseteq Seq(Result)
    /\ ForeignReceipts \subseteq MessageReceipt
    /\ ForeignBatches \subseteq BatchReceipt
    /\ OpIds \cap FinalOps = {}
    /\ Finals \subseteq Status
    /\ MaxSeq \in Nat /\ MaxFaults \in Nat

VARIABLES
    messages,   \* _messages: the committed messages by identity
    order,      \* _order: each target's history, as identities
    ops,        \* _ops: the committed logical operations
    textIds,    \* _text_ids: the message an attempt's text goes to
    failOps,    \* _fail_ops: operations whose next write fails
    version,    \* _version
    runStatus,  \* _run_status
    seq,        \* _seq
    reply       \* what the latest call returned to its caller

vars  == <<messages, order, ops, textIds, failOps, version, runStatus, seq, reply>>
facts == <<messages, order, ops, textIds, version, runStatus>>

-----------------------------------------------------------------------------
(* Helpers *)

\* A dict assignment f[k] = v.
Put(f, k, v) == [x \in DOMAIN f \cup {k} |-> IF x = k THEN v ELSE f[x]]

\* The values of a sequence.
Values(s) == {s[i] : i \in DOMAIN s}

PayloadOf(text, calls, results, attempt) ==
    [text |-> text, calls |-> calls, results |-> results, attempt |-> attempt]

\* Mutant: the receipt always carries a newly drawn identity.
TextIdAlwaysNew(key) == seq + 1

\* The message an attempt's text goes to: the one it has, or the next identity.
TextId(key) == IF key \in DOMAIN textIds THEN textIds[key] ELSE seq + 1

\* _text_ids names a message that is gone (MessageNotFoundError).
Dangling(key) == key \in DOMAIN textIds /\ textIds[key] \notin DOMAIN messages

Issued        == UNION {Values(ops[o].receipts) : o \in DOMAIN ops}
IssuedBatches == {ops[o].batch : o \in DOMAIN ops} \ {None}

\* How a call ended: "ok" and "replay" hand out the receipts stored under op.
Returns(op, how) == reply' = [op |-> op, how |-> how]

\* _check_fail: the injected failure fires once, before anything is read.
WriteFails(op) ==
    /\ op \in failOps
    /\ failOps' = failOps \ {op}
    /\ Returns(op, "error")
    /\ UNCHANGED <<facts, seq>>

\* _replay: the conditions under which a committed operation may be returned again.
SameOperation(old, kind, payload, who, prev) ==
    /\ old.kind = kind /\ old.payload = payload
    /\ old.who = who
    /\ prev # None => old.prev = prev

Replay(op, kind, payload, who, prev) ==
    /\ op \notin failOps /\ op \in DOMAIN ops
    /\ Returns(op, IF SameOperation(ops[op], kind, payload, who, prev) THEN "replay" ELSE "error")
    /\ UNCHANGED <<facts, failOps, seq>>

\* Mutant: a committed operation may be committed again.
FreshAgain(op) == op \notin failOps

Fresh(op) == op \notin failOps /\ op \notin DOMAIN ops

\* A new operation refused by a check that stands before every write.
Reject(op) ==
    /\ Returns(op, "error")
    /\ UNCHANGED <<facts, failOps, seq>>

\* _store_op, and the receipt the call returns.
StoreOp(op, kind, payload, who, prev, receipts, batch) ==
    /\ ops' = Put(ops, op, [kind |-> kind, payload |-> payload, who |-> who, prev |-> prev,
                            receipts |-> receipts, batch |-> batch])
    /\ Returns(op, "ok")
    /\ UNCHANGED failOps

\* Mutant: the identity is used and not drawn.
AppendMessageUndrawn(target, message) ==
    /\ messages' = Put(messages, seq + 1, message)
    /\ order' = [order EXCEPT ![target] = Append(@, seq + 1)]
    /\ version' = version + 1
    /\ UNCHANGED seq

\* _append
AppendMessage(target, message) ==
    /\ seq' = seq + 1
    /\ messages' = Put(messages, seq + 1, message)
    /\ order' = [order EXCEPT ![target] = Append(@, seq + 1)]
    /\ version' = version + 1

\* Mutant: a rewrite does not count as a change of the history.
ReplaceMessageUnversioned(id, message) ==
    /\ messages' = [messages EXCEPT ![id] = message]
    /\ UNCHANGED <<order, seq, version>>

\* Mutant: a rewritten message leaves its place in the history.
ReplaceMessageDropped(id, message) ==
    /\ messages' = [messages EXCEPT ![id] = message]
    /\ version' = version + 1
    /\ order' = [t \in Targets |-> SelectSeq(order[t], LAMBDA m : m # id)]
    /\ UNCHANGED seq

\* _replace
ReplaceMessage(id, message) ==
    /\ messages' = [messages EXCEPT ![id] = message]
    /\ version' = version + 1
    /\ UNCHANGED <<order, seq>>

Assistant(content, calls) ==
    [role |-> "assistant", content |-> content, calls |-> calls, callId |-> None]

\* Mutant: the attempt is not part of the message's key.
WriteTextShared(key, content, calls) ==
    IF key \in DOMAIN textIds
    THEN /\ ReplaceMessage(textIds[key],
                [messages[textIds[key]] EXCEPT !.content = content, !.calls = calls])
         /\ UNCHANGED textIds
    ELSE /\ AppendMessage(key.who.target, Assistant(content, calls))
         /\ textIds' = [k \in DOMAIN textIds \cup {[key EXCEPT !.attempt = a] : a \in Attempts} |->
                          IF k \in DOMAIN textIds THEN textIds[k] ELSE seq + 1]

\* The text methods share one message per (run, step, target, attempt): the
\* first write creates it, a later one rewrites its content and its calls.
WriteText(key, content, calls) ==
    IF key \in DOMAIN textIds
    THEN /\ ReplaceMessage(textIds[key],
                [messages[textIds[key]] EXCEPT !.content = content, !.calls = calls])
         /\ UNCHANGED textIds
    ELSE /\ AppendMessage(key.who.target, Assistant(content, calls))
         /\ textIds' = Put(textIds, key, seq + 1)

Receipt(id, who, op) == [id |-> id, who |-> who, op |-> op]

-----------------------------------------------------------------------------
(* record_input *)

InputWho(run, target) == [run |-> run, step |-> NoStep, target |-> target]

RecordInput(run, target, text, op) ==
    LET who     == InputWho(run, target)
        payload == PayloadOf(text, <<>>, <<>>, 0)
    IN \/ WriteFails(op)
       \/ Replay(op, "input", payload, who, None)
       \/ /\ Fresh(op)
          /\ AppendMessage(target, [role |-> "user", content |-> text, calls |-> <<>>, callId |-> None])
          /\ StoreOp(op, "input", payload, who, None, <<Receipt(seq + 1, who, op)>>, None)
          /\ UNCHANGED <<textIds, runStatus>>

-----------------------------------------------------------------------------
(* record_text_delta *)

DeltaAccepted(key, prev) ==
    /\ prev # None => prev.id \in DOMAIN messages
    /\ ~Dangling(key)

\* Mutant: a new attempt goes on with the text of the step's earlier attempts.
DeltaContentSpliced(key, text) ==
    IF \E k \in DOMAIN textIds : k.who = key.who /\ messages[textIds[k]].content # None
    THEN messages[textIds[CHOOSE k \in DOMAIN textIds :
            k.who = key.who /\ messages[textIds[k]].content # None]].content \o text
    ELSE text

\* (current.content or "") + text, or the text alone in a new message.
DeltaContent(key, text) ==
    IF key \notin DOMAIN textIds \/ messages[textIds[key]].content = None
    THEN text
    ELSE messages[textIds[key]].content \o text

KeyCalls(key) == IF key \in DOMAIN textIds THEN messages[textIds[key]].calls ELSE <<>>

RecordTextDelta(who, attempt, text, op, prev) ==
    LET key     == [who |-> who, attempt |-> attempt]
        payload == PayloadOf(text, <<>>, <<>>, attempt)
    IN \/ WriteFails(op)
       \/ Replay(op, "text_delta", payload, who, prev)
       \/ Fresh(op) /\ ~DeltaAccepted(key, prev) /\ Reject(op)
       \/ /\ Fresh(op) /\ DeltaAccepted(key, prev)
          /\ WriteText(key, DeltaContent(key, text), KeyCalls(key))
          /\ StoreOp(op, "text_delta", payload, who, prev, <<Receipt(TextId(key), who, op)>>, None)
          /\ UNCHANGED runStatus

-----------------------------------------------------------------------------
(* record_text_final *)

FinalAccepted(key, prev) ==
    /\ prev # None => prev.op \in DOMAIN ops /\ prev.id \in DOMAIN messages
    /\ ~Dangling(key)

\* A value that is given replaces the message's; None keeps what is there.
KeptText(key, text) ==
    IF text = None /\ key \in DOMAIN textIds THEN messages[textIds[key]].content ELSE text

RecordTextFinal(who, attempt, text, calls, op, prev) ==
    LET key     == [who |-> who, attempt |-> attempt]
        payload == PayloadOf(text, calls, <<>>, attempt)
    IN \/ WriteFails(op)
       \/ Replay(op, "text_final", payload, who, prev)
       \/ Fresh(op) /\ ~FinalAccepted(key, prev) /\ Reject(op)
       \/ /\ Fresh(op) /\ FinalAccepted(key, prev)
          /\ WriteText(key, KeptText(key, text), IF calls = <<>> THEN KeyCalls(key) ELSE calls)
          /\ StoreOp(op, "text_final", payload, who, prev, <<Receipt(TextId(key), who, op)>>, None)
          /\ UNCHANGED runStatus

-----------------------------------------------------------------------------
(* record_tool_calls *)

\* A previous receipt must be the committed batch it names.
BatchCommitted(prev) == prev.op \in DOMAIN ops /\ ops[prev.op].batch = prev

\* _unrecorded: every call's tool is outside the transcript; a mix is an error.
Mixed(calls)      == Values(calls) \cap UnrecordedCalls # {} /\ ~(Values(calls) \subseteq UnrecordedCalls)
Unrecorded(calls) == calls # <<>> /\ Values(calls) \subseteq UnrecordedCalls

CallsAccepted(key, calls, prev) ==
    /\ prev # None => BatchCommitted(prev)
    /\ ~Mixed(calls)
    /\ ~Unrecorded(calls) => ~Dangling(key)

\* The receipt of a batch: one record per call, all on the assistant message.
BatchOf(who, op, calls, id) ==
    [who |-> who, op |-> op, calls |-> [i \in DOMAIN calls |-> [call |-> calls[i], id |-> id]],
     message |-> id, required |-> TRUE]

\* The receipt of a batch outside the transcript: nothing to pair.
UnrecordedBatch(who, op) ==
    [who |-> who, op |-> op, calls |-> <<>>, message |-> 0, required |-> FALSE]

RecordToolCalls(who, attempt, text, calls, op, prev) ==
    LET key     == [who |-> who, attempt |-> attempt]
        payload == PayloadOf(text, calls, <<>>, 0)
    IN \/ WriteFails(op)
       \/ Replay(op, "tool_calls", payload, who, prev)
       \/ Fresh(op) /\ ~CallsAccepted(key, calls, prev) /\ Reject(op)
       \/ /\ Fresh(op) /\ CallsAccepted(key, calls, prev)
          /\ Unrecorded(calls)
          /\ StoreOp(op, "tool_calls", payload, who, prev, <<>>, UnrecordedBatch(who, op))
          /\ UNCHANGED <<messages, order, textIds, version, runStatus, seq>>
       \/ /\ Fresh(op) /\ CallsAccepted(key, calls, prev)
          /\ ~Unrecorded(calls)
          /\ WriteText(key, KeptText(key, text), calls)
          /\ StoreOp(op, "tool_calls", payload, who, prev, <<>>, BatchOf(who, op, calls, TextId(key)))
          /\ UNCHANGED runStatus

-----------------------------------------------------------------------------
(* record_tool_results *)

\* The receipt is a committed batch of this run, step and target.
ResultsAccepted(who, prev) == BatchCommitted(prev) /\ prev.who = who

\* Mutant: results are not paired with the calls of the batch.
UnpairedUnchecked(results, prev) == {i \in DOMAIN results : Values(prev.calls) = {}}

\* The results that the batch does not contain.
Unpaired(results, prev) ==
    {i \in DOMAIN results : \A r \in Values(prev.calls) :
        r.call # results[i].call \/ r.id \notin DOMAIN messages}

\* The first loop goes through the results in order, draws an identity and prepares a
\* message for each, and raises at the first one it cannot pair: n are prepared.
Prepares(results, prev, n) ==
    /\ \A i \in Unpaired(results, prev) : n < i
    /\ n < Len(results) => n + 1 \in Unpaired(results, prev)

\* Mutant: each message is appended as soon as it is prepared.
WrittenAsPrepared(results, n) == SubSeq(results, 1, n)

\* The second loop appends, and runs only when every result was prepared.
Written(results, n) == IF n = Len(results) THEN results ELSE <<>>

\* Mutant: the history lists the identities from one too low.
AppendResultsOffByOne(target, results) ==
    LET new == seq + 1 .. seq + Len(results)
    IN /\ messages' = [m \in DOMAIN messages \cup new |->
                         IF m \in new
                         THEN [role |-> "tool", content |-> results[m - seq].output, calls |-> <<>>,
                               callId |-> results[m - seq].call]
                         ELSE messages[m]]
       /\ order' = [order EXCEPT ![target] = @ \o [i \in DOMAIN results |-> seq + i - 1]]
       /\ version' = version + Len(results)

\* One _append per prepared message, with the identity that was drawn for it.
AppendResults(target, results) ==
    LET new == seq + 1 .. seq + Len(results)
    IN /\ messages' = [m \in DOMAIN messages \cup new |->
                         IF m \in new
                         THEN [role |-> "tool", content |-> results[m - seq].output, calls |-> <<>>,
                               callId |-> results[m - seq].call]
                         ELSE messages[m]]
       /\ order' = [order EXCEPT ![target] = @ \o [i \in DOMAIN results |-> seq + i]]
       /\ version' = version + Len(results)

RecordToolResults(who, results, op, prev) ==
    LET payload == PayloadOf(None, <<>>, results, 0)
    IN \/ WriteFails(op)
       \/ Replay(op, "tool_results", payload, who, prev)
       \/ Fresh(op) /\ ~ResultsAccepted(who, prev) /\ Reject(op)
       \/ /\ Fresh(op) /\ ResultsAccepted(who, prev)
          /\ ~prev.required
          /\ Returns(op, "ok")
          /\ UNCHANGED <<facts, failOps, seq>>
       \/ /\ Fresh(op) /\ ResultsAccepted(who, prev)
          /\ prev.required
          /\ \E n \in 0 .. Len(results) :
               /\ Prepares(results, prev, n)
               /\ seq' = seq + n
               /\ AppendResults(who.target, Written(results, n))
               /\ \/ n < Len(results) /\ Returns(op, "error") /\ UNCHANGED <<ops, failOps>>
                  \/ n = Len(results) /\ StoreOp(op, "tool_results", payload, who, prev,
                        [i \in DOMAIN results |-> Receipt(seq + i, who, op)], None)
          /\ UNCHANGED <<textIds, runStatus>>

-----------------------------------------------------------------------------
(* finalize_run, and the failure injection *)

FinalWho(run) == [run |-> run, step |-> NoStep, target |-> None]

FinalizeRun(run, status) ==
    LET op      == <<run, status>>
        payload == PayloadOf(None, <<>>, <<>>, 0)
    IN \/ WriteFails(op)
       \/ Replay(op, "run_final", payload, FinalWho(run), None)
       \/ /\ Fresh(op)
          /\ runStatus' = [runStatus EXCEPT ![run] = status]
          /\ StoreOp(op, "run_final", payload, FinalWho(run), None, <<>>, None)
          /\ UNCHANGED <<messages, order, textIds, version, seq>>

InjectWriteFailure(op) ==
    /\ op \notin failOps /\ Cardinality(failOps) < MaxFaults
    /\ failOps' = failOps \cup {op}
    /\ UNCHANGED <<facts, seq, reply>>

-----------------------------------------------------------------------------

Init ==
    /\ messages = <<>> /\ ops = <<>> /\ textIds = <<>>
    /\ order = [t \in Targets |-> <<>>]
    /\ failOps = {}
    /\ version = 0 /\ seq = 0
    /\ runStatus = [r \in Runs |-> None]
    /\ reply = [op |-> None, how |-> "none"]

StepWho == [run : Runs, step : Steps, target : Targets]

Input == \E r \in Runs, t \in Targets, text \in Texts, op \in OpIds :
    seq < MaxSeq /\ RecordInput(r, t, text, op)

TextDelta == \E w \in StepWho, a \in Attempts, text \in Texts, op \in OpIds,
                prev \in {None} \cup Issued \cup ForeignReceipts :
    seq < MaxSeq /\ RecordTextDelta(w, a, text, op, prev)

TextFinal == \E w \in StepWho, a \in Attempts, text \in Texts \cup {None}, calls \in Batches \cup {<<>>},
                op \in OpIds, prev \in {None} \cup Issued \cup ForeignReceipts :
    seq < MaxSeq /\ RecordTextFinal(w, a, text, calls, op, prev)

ToolCalls == \E w \in StepWho, a \in Attempts, text \in Texts \cup {None}, calls \in Batches,
                op \in OpIds, prev \in {None} \cup IssuedBatches \cup ForeignBatches :
    seq < MaxSeq /\ RecordToolCalls(w, a, text, calls, op, prev)

ToolResults == \E w \in StepWho, results \in ResultLists, op \in OpIds,
                  prev \in IssuedBatches \cup ForeignBatches :
    seq + Len(results) <= MaxSeq /\ RecordToolResults(w, results, op, prev)

Finalize == \E r \in Runs, s \in Finals : FinalizeRun(r, s)

Inject == \E op \in OpIds \cup (Runs \X Finals) : InjectWriteFailure(op)

Next == Input \/ TextDelta \/ TextFinal \/ ToolCalls \/ ToolResults \/ Finalize \/ Inject

Spec == Init /\ [][Next]_vars

-----------------------------------------------------------------------------
(* Properties *)

\* The messages, the histories and the attempts' messages.
StoreTyped ==
    /\ seq \in Nat /\ version \in Nat
    /\ DOMAIN messages \subseteq 1 .. seq
    /\ messages \in [DOMAIN messages -> Message]
    /\ order \in [Targets -> Seq(Nat)]
    /\ DOMAIN textIds \subseteq Keys
    /\ textIds \in [DOMAIN textIds -> Nat]

\* The committed operations.
OpsTyped ==
    /\ DOMAIN ops \subseteq OpIds \cup FinalOps
    /\ ops \in [DOMAIN ops -> Committed]

\* Every piece of recorder state has its type, and no identity was drawn twice ahead of _seq.
TypeOK ==
    /\ StoreTyped
    /\ OpsTyped
    /\ failOps \subseteq OpIds \cup FinalOps
    /\ runStatus \in [Runs -> Status \cup {None}]

InHistory(t, id) == \E i \in DOMAIN order[t] : order[t][i] = id

\* Every identity in a target's _order is a committed message.
HistoryCommitted == \A t \in Targets : \A i \in DOMAIN order[t] : order[t][i] \in DOMAIN messages

\* A history lists its messages in the order their identities were drawn.
HistoryOrdered == \A t \in Targets : \A i, j \in DOMAIN order[t] : i < j => order[t][i] < order[t][j]

\* No message is in two histories.
HistoryDisjoint ==
    \A t, u \in Targets : \A m \in DOMAIN messages : InHistory(t, m) /\ InHistory(u, m) => t = u

\* Every committed message is in a history.
HistoryComplete == \A m \in DOMAIN messages : \E t \in Targets : InHistory(t, m)

\* Two receipts name one message only when both are of the text methods.
OneAuthor ==
    \A o, p \in DOMAIN ops :
        \A i \in DOMAIN ops[o].receipts, j \in DOMAIN ops[p].receipts :
            ops[o].receipts[i].id = ops[p].receipts[j].id =>
                \/ o = p /\ i = j
                \/ {ops[o].kind, ops[p].kind} \subseteq {"text_delta", "text_final"}

\* snapshot() never fails and never repeats or loses a message: every identity in a
\* target's _order is a committed message, each history lists its messages in the
\* order their identities were drawn, no message is in two histories, and every
\* committed message is in one.  An input or a tool result is written by one operation,
\* once: however often a logical operation is retried, no message has two authors.
HistoryWellFormed ==
    HistoryCommitted /\ HistoryOrdered /\ HistoryDisjoint /\ HistoryComplete /\ OneAuthor

\* An attempt's text has one message, in the history of the target it was written
\* to, and no two attempts (nor two steps, runs or targets) share one: a failed
\* attempt is never spliced into another attempt's answer.
AttemptsIsolated ==
    /\ \A k \in DOMAIN textIds :
          /\ k.who.target \in Targets
          /\ textIds[k] \in DOMAIN messages
          /\ messages[textIds[k]].role = "assistant"
          /\ InHistory(k.who.target, textIds[k])
    /\ \A k, l \in DOMAIN textIds : textIds[k] = textIds[l] => k = l

\* The kinds of operation that hand out message receipts, with the role they write.
Writes == {<<"input", "user">>, <<"text_delta", "assistant">>, <<"text_final", "assistant">>,
           <<"tool_results", "tool">>}

Resolves(o) ==
    /\ \A i \in DOMAIN ops[o].receipts :
          /\ ops[o].receipts[i].op = o /\ ops[o].receipts[i].who = ops[o].who
          /\ ops[o].who.target \in Targets
          /\ ops[o].receipts[i].id \in DOMAIN messages
          /\ <<ops[o].kind, messages[ops[o].receipts[i].id].role>> \in Writes
          /\ InHistory(ops[o].who.target, ops[o].receipts[i].id)
    /\ ops[o].batch # None =>
          /\ ops[o].batch.op = o /\ ops[o].batch.who = ops[o].who
          /\ ops[o].batch.required =>
                /\ ops[o].who.target \in Targets
                /\ ops[o].batch.message \in DOMAIN messages
                /\ messages[ops[o].batch.message].role = "assistant"
                /\ InHistory(ops[o].who.target, ops[o].batch.message)
                /\ \A r \in Values(ops[o].batch.calls) : r.id = ops[o].batch.message

\* A committed operation's receipts carry its own identity and point at messages
\* of the role it writes that exist in the history of the target it wrote to; a batch
\* receipt's calls all point at the one assistant message of the batch.
ReceiptsResolve == \A o \in DOMAIN ops : Resolves(o)

\* o holds results that answer the batch it was given.
Answers(o) ==
    /\ ops[o].prev # None
    /\ ops[o].prev.op \in DOMAIN ops
    /\ ops[ops[o].prev.op].batch = ops[o].prev
    /\ ops[o].prev.who = ops[o].who
    /\ \A i \in DOMAIN ops[o].receipts :
          /\ ops[o].prev.message < ops[o].receipts[i].id
          /\ messages[ops[o].receipts[i].id].role = "tool"
          /\ \E r \in Values(ops[o].prev.calls) : r.call = messages[ops[o].receipts[i].id].callId

\* Committed results answer a committed batch of the same run, step and target, each
\* answers a call of it, and each stands after the assistant message of the batch.
ResultsFollowCalls == \A o \in DOMAIN ops : ops[o].kind = "tool_results" => Answers(o)

\* o committed the chunk c to the message m.
CommittedTo(o, m, c) ==
    /\ ops[o].payload.text # None /\ c \in Values(ops[o].payload.text)
    /\ \/ m \in {ops[o].receipts[i].id : i \in DOMAIN ops[o].receipts}
       \/ ops[o].batch # None /\ ops[o].batch.message = m

\* An assistant message holds only text that operations on that message committed.
TextIsCommitted ==
    \A m \in DOMAIN messages : messages[m].role = "assistant" /\ messages[m].content # None =>
        \A c \in Values(messages[m].content) : \E o \in DOMAIN ops : CommittedTo(o, m, c)

\* The message m is named by what the operation o committed.
Names(o, m) ==
    \/ \E i \in DOMAIN ops[o].receipts : ops[o].receipts[i].id = m
    \/ ops[o].batch # None /\ ops[o].batch.required /\ ops[o].batch.message = m

\* The committed results of o are in the history one by one, as they were passed.
WholeBatch(o) ==
    /\ DOMAIN ops[o].receipts = DOMAIN ops[o].payload.results
    /\ \A i \in DOMAIN ops[o].receipts :
          /\ messages[ops[o].receipts[i].id].callId = ops[o].payload.results[i].call
          /\ messages[ops[o].receipts[i].id].content = ops[o].payload.results[i].output

\* record_tool_results writes all of its results or none.  Its checks stand in a loop that
\* also draws the identities, and the second of two results may be the one that is refused:
\* a message stands in a history only as part of an operation that was committed, and a
\* committed batch has each of its results there.
WritesAreWhole ==
    /\ \A m \in DOMAIN messages : \E o \in DOMAIN ops : Names(o, m)
    /\ \A o \in DOMAIN ops : ops[o].kind = "tool_results" => WholeBatch(o)

\* A committed operation is never forgotten or rewritten, so that its replay returns
\* the receipts of the original commit.
CommittedOpsStable ==
    [][ \A o \in DOMAIN ops : o \in DOMAIN ops' /\ ops'[o] = ops[o] ]_vars

\* History only grows: a step appends to one target's history at most, and what was
\* in it stays, in place, with its role; inputs and tool results are never rewritten.
HistoryAppendOnly ==
    [][ /\ \A t \in Targets :
              /\ Len(order[t]) <= Len(order'[t])
              /\ \A i \in DOMAIN order[t] : order'[t][i] = order[t][i]
        /\ \A t, u \in Targets : order'[t] # order[t] /\ order'[u] # order[u] => t = u
        /\ \A m \in DOMAIN messages :
              /\ m \in DOMAIN messages'
              /\ messages'[m].role = messages[m].role
              /\ messages[m].role # "assistant" => messages'[m] = messages[m] ]_vars

\* Two snapshots of a target with the same version are the same snapshot: the double
\* read of the step provider compares versions only.
VersionCoversHistory == [][ version' = version => UNCHANGED <<messages, order>> ]_vars

=============================================================================
