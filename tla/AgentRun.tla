------------------------------- MODULE AgentRun -------------------------------
(***************************************************************************)
(* One run of the default assembly: DefaultRuntime._run (runner.py), the   *)
(* AgentLoop it drives (core.py) and the three default pipelines           *)
(* (pipelines/model.py, tools.py, completion.py), under a RunControl.      *)
(*                                                                         *)
(* The run is one chain of async generators, so it has one program         *)
(* counter.  An action is the code between two suspension points: an       *)
(* await that can really suspend (a model event, a tool, a recorder or     *)
(* policy call of a host's adapter) or a yield, at which the consumer      *)
(* holds the event (`held`) and the run is stopped until it is pulled.     *)
(* The model, the tool, the policies, the host that stops the run, the     *)
(* clock and the consumer are the environment.                             *)
(*                                                                         *)
(* The recorder is seen through what a run reads of it: which facts are    *)
(* committed, and that a write may fail before it commits (Transcript is   *)
(* the recorder itself).  Observation, context building and capability     *)
(* snapshots change no control here; their failures do, and are outcomes   *)
(* of the step that calls them.                                            *)
(***************************************************************************)
EXTENDS Integers, Sequences, FiniteSets

CONSTANTS
    Entries,         \* the execution entries of the request: "model", "tools", "completed"
    NInputs,         \* len(request.input_items)
    MaxCalls,        \* calls in a batch, at most
    MaxSteps,        \* limits.max_steps
    MaxRounds,       \* limits.max_model_rounds
    Attempts,        \* limits.recovery.remaining_attempts
    RetryPartial,    \* limits.recovery.retry_partial_output
    TokenLimit,      \* limits.max_estimated_tokens
    Estimates,       \* what one model attempt may be estimated at
    StepsUsed, RoundsUsed, TokensUsed,   \* request.consumed
    StopSources,     \* the host's stop requests: "user_stop", "host_cancel"
    MaxReports,      \* bound: progress and external-work events of one call
    MaxFaults        \* bound: recorder writes that fail

ASSUME Limits ==
    /\ Entries \subseteq {"model", "tools", "completed"}
    /\ {NInputs, MaxSteps, MaxRounds, Attempts, TokenLimit, StepsUsed, RoundsUsed, TokensUsed,
        MaxReports, MaxFaults} \subseteq Nat
    /\ MaxCalls \in Nat \ {0} /\ Estimates \subseteq Nat
    /\ RetryPartial \in BOOLEAN
    /\ StopSources \subseteq {"user_stop", "host_cancel"}

NoResult == -1
Closed  == "consumer_closed"
Reasons == {"user_stop", "host_cancel", Closed, "deadline", "idle_timeout"}
Status  == {"succeeded", "failed", "cancelled", "waiting"}
Flows   == {"continue", "finish", "wait", "wait_no_ref"}

Locations ==
    {"start", "app", "resolve", "begin", "inputs", "allocate", "prepare", "preparing", "attempt", "stream", "retry",
     "final", "dispatch", "batch", "recordCalls", "call", "calling", "results", "policy",
     "complete", "recordText", "completing", "decide", "succeed",
     "unwind", "handle", "commit", "cleanup", "done"}

VARIABLES
    pc,          \* where the run is
    held,        \* the event the consumer holds, or "none"
    \* the request and its RunControl
    entry, continueAfter,
    stops,       \* the _events that are set
    first,       \* _first, or "none"
    late,        \* the deadline has passed
    lapses,      \* what has ended a wait and was no stop: "silence", "work_cancelled"
    \* AgentLoop and the model pipeline
    stepNo, rounds,
    attempt,     \* the attempt of the current model step, 0 before the first
    outputs,     \* the kinds of delta this attempt has put out
    pending,     \* the effective result: -1 none yet, 0 text, n a batch of n calls
    reserved,    \* ExecutionBudgetLedger._reserved
    estimate,    \* prepared.estimated_tokens
    \* the tool and completion pipelines
    calls,       \* len(command.calls) of the current batch
    required,    \* receipt.recording_required
    nextCall,    \* the call to invoke next
    work,        \* the tool task: "none", "running", "done", "raised"
    reports,     \* events this call has queued
    out,         \* how many of them have been put out
    flow,        \* decision.flow
    returned,    \* AgentLoop.run has run to its end
    \* the recorder
    inputs,      \* input items recorded
    finals,      \* <<step, attempt>> whose final text is recorded
    batches,     \* <<step, recording_required>> of the committed tool-call batches
    answered,    \* steps whose tool results are recorded
    status,      \* the committed run status, or "none"
    faults,      \* writes and state commits that failed
    \* effects outside the process
    requested,   \* <<step, attempt>> of the model requests made
    invoked,     \* <<step, call>> of the tool calls made, in order
    external,    \* <<step, call>> that declared external work
    \* the end of the run
    ending,      \* the terminal being prepared
    yielded,     \* yielded_terminal
    published    \* the terminal events the consumer received

request  == <<entry, continueAfter>>
control  == <<stops, first, late, lapses>>
steps    == <<stepNo, rounds>>
model    == <<attempt, outputs, pending>>
ledger   == <<reserved, estimate>>
batch    == <<calls, required, nextCall>>
tool     == <<work, reports, out>>
decision == <<flow, returned>>
facts    == <<inputs, finals, batches, answered>>
recorder == <<facts, status, faults>>
effects  == <<requested, invoked, external>>
terminal == <<ending, yielded, published>>
loop     == <<steps, model, ledger, batch, decision>>
vars     == <<pc, held, request, control, loop, tool, recorder, effects, terminal>>

-----------------------------------------------------------------------------
(* Stopping, yielding and raising *)

Running(l) == pc = l /\ held = "none"

\* RunControl.first_reason: the first trigger, else the deadline.
FirstReason == IF first # "none" THEN first ELSE IF late THEN "deadline" ELSE "none"
Stopped     == FirstReason # "none"

\* RunControl._trigger
Trigger(reason) ==
    /\ stops' = stops \cup {reason}
    /\ first' = IF first = "none" THEN reason ELSE first

\* The body of the runner's `async for`: an event of the loop goes to the consumer,
\* unless the consumer is known to be gone, which breaks out of the loop.
Emit(event, next) ==
    IF Closed \in stops
    THEN pc' = "succeed" /\ UNCHANGED held
    ELSE pc' = next /\ held' = event

\* Mutant: the exception goes on while the tool call is still in flight.
RaiseWithoutWaiting(newStatus, level, reason) ==
    /\ ending' = [status |-> newStatus, level |-> level, reason |-> reason, work |-> {}]
    /\ pc' = "handle"
    /\ UNCHANGED <<held, yielded, published>>

\* An exception on its way to the except clause at `level`; a tool call in flight is
\* cancelled and awaited first (_invoke's finally).
Raise(newStatus, level, reason) ==
    /\ ending' = [status |-> newStatus, level |-> level, reason |-> reason, work |-> {}]
    /\ pc' = IF work = "running" /\ pc \in {"calling", "unwind"} THEN "unwind" ELSE "handle"
    /\ UNCHANGED <<held, yielded, published>>

Fail == Raise("failed", "handler", "none")

\* raise_if_stopped
RaiseStopped == Raise("cancelled", "handler", FirstReason)

\* A recorder write (or a required state commit) that raises RecordingError.
WriteFails ==
    /\ faults < MaxFaults
    /\ faults' = faults + 1
    /\ Fail

-----------------------------------------------------------------------------
(* DefaultRuntime._run: resolution, RunStarted, inputs *)

\* The except clauses that an exception of the current wait meets.
Catcher == IF pc \in {"app", "resolve"} THEN "outer" ELSE "handler"

\* Before the run's own try block an exception meets the outer except clauses.
RaiseEarly(newStatus) == Raise(newStatus, "outer", FirstReason)

\* wait_cancellable refuses to start a wait on a stopped run.
Start ==
    /\ Running("start")
    /\ IF Stopped THEN RaiseEarly("cancelled")
       ELSE pc' = "app" /\ UNCHANGED <<held, terminal>>
    /\ UNCHANGED <<request, control, loop, tool, recorder, effects>>

\* wait_cancellable on work that ends cancelled of itself: no stop has to be set, and
\* without one the reason given is the host's.
WorkCancelled ==
    /\ Raise("cancelled", Catcher, IF Stopped THEN FirstReason ELSE "host_cancel")
    /\ lapses' = lapses \cup {"work_cancelled"}

ApplicationRead ==
    /\ Running("app")
    /\ \/ RaiseEarly("failed") /\ UNCHANGED lapses
       \/ WorkCancelled
       \/ /\ IF Stopped THEN RaiseEarly("cancelled")
             ELSE pc' = "resolve" /\ UNCHANGED <<held, terminal>>
          /\ UNCHANGED lapses
    /\ UNCHANGED <<request, stops, first, late, loop, tool, recorder, effects>>

\* A resolution without a snapshot is a failure (accept_resolution).
Resolved ==
    /\ Running("resolve")
    /\ \/ RaiseEarly("failed") /\ UNCHANGED lapses
       \/ WorkCancelled
       \/ pc' = "begin" /\ UNCHANGED <<held, terminal, lapses>>
    /\ UNCHANGED <<request, stops, first, late, loop, tool, recorder, effects>>

RunStarted ==
    /\ Running("begin")
    /\ pc' = "inputs" /\ held' = "RunStarted"
    /\ UNCHANGED <<request, control, loop, tool, recorder, effects, terminal>>

RecordInput ==
    /\ Running("inputs") /\ inputs < NInputs
    /\ \/ WriteFails /\ UNCHANGED inputs
       \/ inputs' = inputs + 1 /\ UNCHANGED <<pc, held, faults, terminal>>
    /\ UNCHANGED <<request, control, loop, tool, finals, batches, answered, status, effects>>

\* A CompletedEntry goes straight to its terminal; the loop has nothing to run.
InputsRecorded ==
    /\ Running("inputs") /\ inputs = NInputs
    /\ pc' = IF entry = "completed" THEN "succeed" ELSE "allocate"
    /\ returned' = (entry = "completed")
    /\ UNCHANGED <<held, request, control, steps, model, ledger, batch, flow, tool, recorder, effects, terminal>>

-----------------------------------------------------------------------------
(* AgentLoop.run: allocate and prepare *)

\* The batch of a ToolBatchEntry: no model round has been used yet.
InEntryBatch == entry = "tools" /\ rounds = RoundsUsed

\* Where the loop allocates the step of the entry batch.
EntryStep == entry = "tools" /\ stepNo = StepsUsed

MayAllocate ==
    /\ stepNo + 1 <= MaxSteps
    /\ ~EntryStep => /\ Attempts > 0
                     /\ reserved < TokenLimit
                     /\ rounds + 1 <= MaxRounds

Allocate ==
    /\ Running("allocate")
    /\ IF Stopped THEN RaiseStopped /\ UNCHANGED steps
       ELSE IF ~MayAllocate THEN Fail /\ UNCHANGED steps
       ELSE /\ stepNo' = stepNo + 1
            /\ rounds' = IF EntryStep THEN rounds ELSE rounds + 1
            /\ Emit("StepStarted", "prepare") /\ UNCHANGED terminal
    /\ UNCHANGED <<request, control, model, ledger, batch, decision, tool, recorder, effects>>

BeginPrepare ==
    /\ Running("prepare")
    /\ IF Stopped THEN RaiseStopped
       ELSE pc' = "preparing" /\ UNCHANGED <<held, terminal>>
    /\ UNCHANGED <<request, control, loop, tool, recorder, effects>>

\* The step provider returns a prepared step, or raises (a version conflict, a prompt
\* over its budget, a contributor that failed).
Prepared ==
    /\ Running("preparing")
    /\ \/ Fail /\ UNCHANGED <<estimate, attempt, outputs, lapses>>
       \/ WorkCancelled /\ UNCHANGED <<estimate, attempt, outputs>>
       \/ /\ estimate' \in Estimates
          /\ attempt' = 0 /\ outputs' = {}
          /\ pc' = IF InEntryBatch THEN "batch" ELSE "attempt"
          /\ UNCHANGED <<held, terminal, lapses>>
    /\ UNCHANGED <<request, stops, first, late, steps, pending, reserved, batch, decision, tool, recorder, effects>>

-----------------------------------------------------------------------------
(* DefaultModelPipeline *)

\* Mutant: only the first attempt of a step reserves its estimate.
BeginAttemptUnpaid ==
    /\ Running("attempt")
    /\ IF Stopped THEN RaiseStopped /\ UNCHANGED <<reserved, model, requested>>
       ELSE IF reserved + estimate > TokenLimit THEN Fail /\ UNCHANGED <<reserved, model, requested>>
       ELSE /\ reserved' = IF attempt = 0 THEN reserved + estimate ELSE reserved
            /\ attempt' = attempt + 1 /\ outputs' = {} /\ pending' = NoResult
            /\ requested' = requested \cup {<<stepNo, attempt + 1>>}
            /\ pc' = "stream" /\ UNCHANGED <<held, terminal>>
    /\ UNCHANGED <<request, control, steps, estimate, batch, decision, tool, recorder, invoked, external>>

\* ExecutionBudgetLedger.reserve, then the request: every attempt pays.
BeginAttempt ==
    /\ Running("attempt")
    /\ IF Stopped THEN RaiseStopped /\ UNCHANGED <<reserved, model, requested>>
       ELSE IF reserved + estimate > TokenLimit THEN Fail /\ UNCHANGED <<reserved, model, requested>>
       ELSE /\ reserved' = reserved + estimate
            /\ attempt' = attempt + 1 /\ outputs' = {} /\ pending' = NoResult
            /\ requested' = requested \cup {<<stepNo, attempt + 1>>}
            /\ pc' = "stream" /\ UNCHANGED <<held, terminal>>
    /\ UNCHANGED <<request, control, steps, estimate, batch, decision, tool, recorder, invoked, external>>

\* A text or reasoning delta: text is recorded before it is put out.
ModelDelta ==
    /\ Running("stream") /\ pending = NoResult
    /\ \/ WriteFails /\ UNCHANGED outputs
       \/ /\ \E kind \in {"text", "reasoning"} : outputs' = outputs \cup {kind}
          /\ Emit("Delta", "stream") /\ UNCHANGED <<faults, terminal>>
    /\ UNCHANGED <<request, control, steps, attempt, pending, ledger, batch, decision, tool,
                   facts, status, effects>>

\* An effective completion: text, or a batch of calls.
ModelResult ==
    /\ Running("stream") /\ pending = NoResult
    /\ pending' \in 0 .. MaxCalls
    /\ UNCHANGED <<pc, held, request, control, steps, attempt, outputs, ledger, batch, decision, tool,
                   recorder, effects, terminal>>

\* Anything after the completion, or an exception that is no AdapterError.
ModelProtocolError ==
    /\ Running("stream")
    /\ Fail
    /\ UNCHANGED <<request, control, loop, tool, recorder, effects>>

\* The request failed: it may be tried again unless output is already out.
ModelAdapterError ==
    /\ Running("stream")
    /\ IF outputs # {} /\ ~RetryPartial THEN Fail
       ELSE pc' = "retry" /\ UNCHANGED <<held, terminal>>
    /\ UNCHANGED <<request, control, loop, tool, recorder, effects>>

\* The stream ends; without an effective completion the attempt was empty.
ModelStreamEnds ==
    /\ Running("stream")
    /\ pc' = IF pending = NoResult THEN "retry" ELSE "final"
    /\ UNCHANGED <<held, request, control, loop, tool, recorder, effects, terminal>>

Retry ==
    /\ Running("retry")
    /\ IF attempt < Attempts THEN pc' = "attempt" /\ UNCHANGED <<held, terminal>>
       ELSE Fail
    /\ UNCHANGED <<request, control, loop, tool, recorder, effects>>

\* Mutant: an answer that asks for tools is not recorded as a final text.
RecordFinalTextOnly ==
    /\ Running("final")
    /\ finals' = IF pending = 0 THEN finals \cup {<<stepNo, attempt>>} ELSE finals
    /\ Emit("ModelCompleted", "dispatch")
    /\ UNCHANGED <<request, control, loop, tool, inputs, batches, answered, status, faults, effects, terminal>>

RecordFinal ==
    /\ Running("final")
    /\ \/ WriteFails /\ UNCHANGED finals
       \/ /\ finals' = finals \cup {<<stepNo, attempt>>}
          /\ Emit("ModelCompleted", "dispatch") /\ UNCHANGED <<faults, terminal>>
    /\ UNCHANGED <<request, control, loop, tool, inputs, batches, answered, status, effects>>

\* The loop announces the phase the result calls for.
Dispatch ==
    /\ Running("dispatch")
    /\ calls' = pending
    /\ Emit("StepStarted", IF pending > 0 THEN "batch" ELSE "complete")
    /\ UNCHANGED <<request, control, steps, model, ledger, required, nextCall, decision, tool,
                   recorder, effects, terminal>>

-----------------------------------------------------------------------------
(* DefaultToolPipeline *)

\* The whole batch is validated before anything is recorded or called.
BeginBatch ==
    /\ Running("batch")
    /\ \/ Stopped /\ RaiseStopped
       \/ ~Stopped /\ Fail
       \/ ~Stopped /\ pc' = "recordCalls" /\ UNCHANGED <<held, terminal>>
    /\ UNCHANGED <<request, control, loop, tool, recorder, effects>>

\* Mutant: the calls go out although recording them failed.
RecordCallsBestEffort ==
    /\ Running("recordCalls")
    /\ required' \in BOOLEAN
    /\ batches' \in {batches, batches \cup {<<stepNo, required'>>}}
    /\ nextCall' = 1
    /\ Emit("ToolCallRecorded", "call")
    /\ UNCHANGED <<request, control, steps, model, ledger, calls, decision, tool,
                   inputs, finals, answered, status, faults, effects, terminal>>

\* Mutant: calls counted from zero.
RecordCallsFromZero ==
    /\ Running("recordCalls")
    /\ required' \in BOOLEAN
    /\ batches' = batches \cup {<<stepNo, required'>>}
    /\ nextCall' = 0
    /\ Emit("ToolCallRecorded", "call")
    /\ UNCHANGED <<request, control, steps, model, ledger, calls, decision, tool,
                   inputs, finals, answered, status, faults, effects, terminal>>

\* The recorder decides whether this batch belongs to the transcript.
RecordCalls ==
    /\ Running("recordCalls")
    /\ \/ WriteFails /\ UNCHANGED <<batches, required, nextCall>>
       \/ /\ required' \in BOOLEAN
          /\ batches' = batches \cup {<<stepNo, required'>>}
          /\ nextCall' = 1
          /\ Emit("ToolCallRecorded", "call") /\ UNCHANGED <<faults, terminal>>
    /\ UNCHANGED <<request, control, steps, model, ledger, calls, decision, tool,
                   inputs, finals, answered, status, effects>>

\* Mutant: the stop is looked at once per batch, not before each call.
InvokeToolUnchecked ==
    /\ Running("call") /\ nextCall <= calls
    /\ invoked' = Append(invoked, <<stepNo, nextCall>>)
    /\ work' = "running" /\ reports' = 0 /\ out' = 0
    /\ pc' = "calling"
    /\ UNCHANGED <<held, request, control, loop, recorder, requested, external, terminal>>

InvokeTool ==
    /\ Running("call") /\ nextCall <= calls
    /\ IF Stopped THEN RaiseStopped /\ UNCHANGED <<invoked, tool>>
       ELSE /\ invoked' = Append(invoked, <<stepNo, nextCall>>)
            /\ work' = "running" /\ reports' = 0 /\ out' = 0
            /\ pc' = "calling" /\ UNCHANGED <<held, terminal>>
    /\ UNCHANGED <<request, control, loop, recorder, requested, external>>

\* The tool reports progress or declares work that outlives the call.
ToolReports ==
    /\ work = "running" /\ reports < MaxReports
    /\ reports' = reports + 1
    /\ \/ external' = external \cup {<<stepNo, nextCall>>}
       \/ UNCHANGED external
    /\ UNCHANGED <<pc, held, request, control, loop, work, out, recorder, requested, invoked, terminal>>

ToolEnds ==
    /\ work = "running" /\ pc # "unwind"
    /\ work' \in {"done", "raised"}
    /\ UNCHANGED <<pc, held, request, control, loop, reports, out, recorder, effects, terminal>>

\* Reports go out before the result is looked at.
EmitReport ==
    /\ Running("calling") /\ out < reports
    /\ out' = out + 1
    /\ Emit("ToolReport", "calling")
    /\ UNCHANGED <<request, control, loop, work, reports, recorder, effects, terminal>>

ToolResult ==
    /\ Running("calling") /\ out = reports /\ work = "done"
    /\ work' = "none"
    /\ nextCall' = nextCall + 1
    /\ Emit("ToolResult", "call")
    /\ UNCHANGED <<request, control, steps, model, ledger, calls, required, decision, reports, out,
                   recorder, effects, terminal>>

ToolRaised ==
    /\ Running("calling") /\ out = reports /\ work = "raised"
    /\ Fail
    /\ UNCHANGED <<request, control, loop, tool, recorder, effects>>

\* Mutant: the results are never recorded.
CallsDoneUnrecorded ==
    /\ Running("call") /\ nextCall > calls
    /\ pc' = "policy"
    /\ UNCHANGED <<held, request, control, loop, tool, recorder, effects, terminal>>

CallsDone ==
    /\ Running("call") /\ nextCall > calls
    /\ pc' = IF required THEN "results" ELSE "policy"
    /\ UNCHANGED <<held, request, control, loop, tool, recorder, effects, terminal>>

\* Mutant: a failing commit of the results is logged and passed over.
RecordResultsBestEffort ==
    /\ Running("results")
    /\ \/ faults < MaxFaults /\ faults' = faults + 1 /\ UNCHANGED answered
       \/ answered' = answered \cup {stepNo} /\ UNCHANGED faults
    /\ pc' = "policy"
    /\ UNCHANGED <<held, request, control, loop, tool, inputs, finals, batches, status, effects, terminal>>

RecordResults ==
    /\ Running("results")
    /\ \/ WriteFails /\ UNCHANGED answered
       \/ /\ answered' = answered \cup {stepNo}
          /\ pc' = "policy" /\ UNCHANGED <<held, faults, terminal>>
    /\ UNCHANGED <<request, control, loop, tool, inputs, finals, batches, status, effects>>

\* The result policy commits state and decides; its failure is a RecordingError.
ApplyPolicy ==
    /\ Running("policy")
    /\ \/ WriteFails /\ UNCHANGED flow
       \/ /\ flow' \in Flows
          /\ Emit("ToolBatchCompleted", "decide") /\ UNCHANGED <<faults, terminal>>
    /\ UNCHANGED <<request, control, steps, model, ledger, batch, returned, tool, facts, status, effects>>

-----------------------------------------------------------------------------
(* DefaultCompletionPipeline *)

BeginCompletion ==
    /\ Running("complete")
    /\ IF Stopped THEN RaiseStopped
       ELSE pc' = "recordText" /\ UNCHANGED <<held, terminal>>
    /\ UNCHANGED <<request, control, loop, tool, recorder, effects>>

\* The same logical operation as RecordFinal: a replay.
RecordText ==
    /\ Running("recordText")
    /\ \/ WriteFails
       \/ pc' = "completing" /\ UNCHANGED <<held, faults, terminal>>
    /\ UNCHANGED <<request, control, loop, tool, facts, status, effects>>

\* The completion policy; a WAIT without a reference is refused here.
ApplyCompletion ==
    /\ Running("completing")
    /\ \/ WriteFails /\ UNCHANGED flow
       \/ Fail /\ UNCHANGED <<flow, faults>>
       \/ /\ flow' \in Flows \ {"wait_no_ref"}
          /\ Emit("CompletionCompleted", "decide") /\ UNCHANGED <<faults, terminal>>
    /\ UNCHANGED <<request, control, steps, model, ledger, batch, returned, tool, facts, status, effects>>

-----------------------------------------------------------------------------
(* The loop acts on the decision *)

Ends ==
    \/ flow = "finish"
    \/ flow = "continue" /\ InEntryBatch /\ ~continueAfter

\* RunWaiting passes the consumer check, then its status is committed.
Decide ==
    /\ Running("decide")
    /\ IF flow = "wait_no_ref" THEN Fail /\ UNCHANGED returned
       ELSE IF flow = "wait"
       THEN /\ pc' = IF Closed \in stops THEN "succeed" ELSE "commit"
            /\ ending' = [status |-> "waiting", level |-> "body", reason |-> "none", work |-> {}]
            /\ UNCHANGED <<held, yielded, published, returned>>
       ELSE /\ pc' = IF Ends THEN "succeed" ELSE "allocate"
            /\ returned' = Ends
            /\ UNCHANGED <<held, terminal>>
    /\ UNCHANGED <<request, control, steps, model, ledger, batch, flow, tool, recorder, effects>>

Succeed ==
    /\ Running("succeed")
    /\ ending' = [status |-> "succeeded", level |-> "body", reason |-> "none", work |-> {}]
    /\ pc' = "commit"
    /\ UNCHANGED <<held, request, control, loop, tool, recorder, effects, yielded, published>>

-----------------------------------------------------------------------------
(* Interruptions *)

\* Mutant: a blocked tool is not waited for together with the stop.
WaitsWithoutTools == {"app", "resolve", "preparing", "stream", "retry", "final", "recordCalls",
                      "results", "policy", "recordText", "completing"}

\* The awaits that a stop interrupts (wait_cancellable, wait_next, sleep_cancellable).
Waits == {"app", "resolve", "preparing", "stream", "retry", "final", "recordCalls", "calling",
          "results", "policy", "recordText", "completing"}

\* The streams on which inter-event silence is a reason of its own.
IdleWaits == {"stream", "recordCalls", "calling", "results", "policy", "recordText", "completing"}

Waiting == held = "none" /\ pc \in Waits /\ (pc = "retry" => attempt < Attempts)

\* A recorder call that is cancelled may have committed or not.
MaybeWritten ==
    /\ inputs' \in {inputs, IF pc = "inputs" THEN inputs + 1 ELSE inputs}
    /\ finals' \in {finals, IF pc = "final" THEN finals \cup {<<stepNo, attempt>>} ELSE finals}
    /\ batches' \in {batches} \cup
           {IF pc = "recordCalls" THEN batches \cup {<<stepNo, q>>} ELSE batches : q \in BOOLEAN}
    /\ answered' \in {answered, IF pc = "results" THEN answered \cup {stepNo} ELSE answered}

\* What wakes a waiting run: the stop that was requested, or silence.
Interrupted ==
    /\ Waiting
    /\ \/ Stopped /\ Raise("cancelled", Catcher, FirstReason) /\ UNCHANGED lapses
       \/ /\ pc \in IdleWaits /\ Raise("cancelled", Catcher, "idle_timeout")
          /\ lapses' = lapses \cup {"silence"}
    /\ MaybeWritten
    /\ UNCHANGED <<request, stops, first, late, loop, tool, status, faults, effects>>

\* The host cancels the task that drives the stream; an event stream or a tool that
\* ends cancelled of itself raises the same error.  Before the run's own try block
\* nothing catches it; inside, the run is finalized and the cancellation goes on.
TaskCancelled ==
    /\ \/ Waiting
       \/ Running("inputs") /\ inputs < NInputs
       \/ pc = "unwind"
    /\ IF pc \in {"app", "resolve"}
       THEN pc' = "cleanup" /\ UNCHANGED <<held, terminal>>
       ELSE Raise("cancelled", "reraise", "none")
    /\ MaybeWritten
    /\ UNCHANGED <<request, control, loop, tool, status, faults, effects>>

\* _invoke waits for its cancelled tool task before the exception goes on.
ToolCancelled ==
    /\ pc = "unwind" /\ work = "running"
    /\ work' = "done"
    /\ UNCHANGED <<pc, held, request, control, loop, reports, out, recorder, effects, terminal>>

Unwound ==
    /\ pc = "unwind" /\ work # "running"
    /\ pc' = "handle"
    /\ UNCHANGED <<held, request, control, loop, tool, recorder, effects, terminal>>

-----------------------------------------------------------------------------
(* The except clauses, the terminal event, and the end *)

\* Mutant: only the run's control is asked for the reason.
HandleControlOnly ==
    /\ Running("handle")
    /\ ending' = IF ending.status = "cancelled"
                 THEN [ending EXCEPT !.reason = FirstReason, !.work = external]
                 ELSE ending
    /\ work' = IF work = "running" THEN work ELSE "none"
    /\ pc' = "commit"
    /\ UNCHANGED <<held, request, control, loop, reports, out, recorder, effects, yielded, published>>

\* The except clause builds its event: the stop reason is read again here.
Handle ==
    /\ Running("handle")
    /\ ending' = IF ending.status = "cancelled"
                 THEN [ending EXCEPT !.reason = IF Stopped THEN FirstReason ELSE ending.reason,
                                     !.work = external]
                 ELSE ending
    /\ work' = IF work = "running" THEN work ELSE "none"
    /\ pc' = "commit"
    /\ UNCHANGED <<held, request, control, loop, reports, out, recorder, effects, yielded, published>>

\* The event is shown unless the consumer is gone, a terminal was shown, or the
\* cancellation is raised again.
Shows == Closed \notin stops /\ ~yielded /\ ending.level # "reraise"

\* _commit_terminal: finalize, then yield.
Commit ==
    /\ Running("commit")
    /\ status' = ending.status
    /\ yielded' = (yielded \/ Shows \/ ending.status = "waiting")
    /\ held' = IF Shows THEN "Terminal" ELSE held
    /\ published' = IF Shows THEN Append(published, ending) ELSE published
    /\ pc' = "cleanup"
    /\ UNCHANGED <<request, control, loop, tool, facts, faults, effects, ending>>

\* Mutant: the event is shown before its status is committed.
CommitFailsShown ==
    /\ Running("commit")
    /\ faults < MaxFaults /\ faults' = faults + 1
    /\ published' = IF Shows THEN Append(published, ending) ELSE published
    /\ pc' = "cleanup"
    /\ UNCHANGED <<held, request, control, loop, tool, facts, status, effects, ending, yielded>>

\* A failing finalization is one more exception: of the try block, of an inner except
\* clause, or of an outer one, from which it escapes to the consumer.
CommitFails ==
    /\ Running("commit")
    /\ faults < MaxFaults /\ faults' = faults + 1
    /\ IF ending.level = "outer" THEN pc' = "cleanup" /\ UNCHANGED <<held, terminal>>
       ELSE Raise("failed", IF ending.level = "body" THEN "handler" ELSE "outer", "none")
    /\ UNCHANGED <<request, control, loop, tool, facts, status, effects>>

\* A cancellation, or one more, lands in the finalization.
CommitCancelled ==
    /\ Running("commit")
    /\ status' \in {status, ending.status}
    /\ IF ending.level = "body" THEN Raise("cancelled", "reraise", "none")
       ELSE pc' = "cleanup" /\ UNCHANGED <<held, terminal>>
    /\ UNCHANGED <<request, control, loop, tool, facts, faults, effects>>

\* The finally block: the scope cancels what still runs and waits a bounded time.
Cleanup ==
    /\ Running("cleanup")
    /\ IF ~yielded /\ Closed \notin stops THEN Trigger(Closed) ELSE UNCHANGED <<stops, first>>
    /\ work' \in {"none", IF work = "running" THEN "running" ELSE "none"}
    /\ pc' = "done"
    /\ UNCHANGED <<held, request, late, lapses, loop, reports, out, recorder, effects, terminal>>

-----------------------------------------------------------------------------
(* The environment: host, clock and consumer *)

StopRequested ==
    /\ pc # "done"
    /\ \E r \in StopSources \cup {Closed} : r \notin stops /\ Trigger(r)
    /\ UNCHANGED <<pc, held, request, late, lapses, loop, tool, recorder, effects, terminal>>

DeadlinePasses ==
    /\ pc # "done" /\ ~late
    /\ late' = TRUE
    /\ UNCHANGED <<pc, held, request, stops, first, lapses, loop, tool, recorder, effects, terminal>>

Pull ==
    /\ held # "none"
    /\ held' = "none"
    /\ UNCHANGED <<pc, request, control, loop, tool, recorder, effects, terminal>>

\* aclose() at a yield: GeneratorExit passes every except clause.
ConsumerCloses ==
    /\ held # "none"
    /\ held' = "none" /\ pc' = "cleanup"
    /\ UNCHANGED <<request, control, loop, tool, recorder, effects, terminal>>

-----------------------------------------------------------------------------

Init ==
    /\ pc = "start" /\ held = "none"
    /\ entry \in Entries
    /\ continueAfter \in IF entry = "tools" THEN BOOLEAN ELSE {FALSE}
    /\ stops = {} /\ first = "none" /\ late = FALSE /\ lapses = {}
    /\ stepNo = StepsUsed /\ rounds = RoundsUsed
    /\ attempt = 0 /\ outputs = {} /\ pending = NoResult
    /\ reserved = TokensUsed /\ estimate = 0
    /\ calls \in IF entry = "tools" THEN 1 .. MaxCalls ELSE {0}
    /\ required = TRUE /\ nextCall = 1
    /\ work = "none" /\ reports = 0 /\ out = 0
    /\ flow = "continue" /\ returned = FALSE
    /\ inputs = 0 /\ finals = {} /\ batches = {} /\ answered = {}
    /\ status = "none" /\ faults = 0
    /\ requested = {} /\ invoked = <<>> /\ external = {}
    /\ ending = [status |-> "failed", level |-> "body", reason |-> "none", work |-> {}]
    /\ yielded = FALSE /\ published = <<>>

\* What the event loop runs once the run's own code is ready.
RunStep ==
    \/ Start \/ RunStarted \/ RecordInput \/ InputsRecorded
    \/ Allocate \/ BeginPrepare \/ BeginAttempt \/ Retry \/ RecordFinal \/ Dispatch
    \/ BeginBatch \/ RecordCalls \/ InvokeTool \/ EmitReport \/ ToolResult \/ ToolRaised
    \/ CallsDone \/ RecordResults
    \/ BeginCompletion \/ RecordText \/ Decide \/ Succeed
    \/ Unwound \/ Handle \/ Commit \/ CommitFails \/ Cleanup

\* What the application, the model, the policies and the tool answer.
Answer ==
    \/ ApplicationRead \/ Resolved \/ Prepared
    \/ ModelDelta \/ ModelResult \/ ModelProtocolError \/ ModelAdapterError \/ ModelStreamEnds
    \/ ToolReports \/ ToolEnds \/ ApplyPolicy \/ ApplyCompletion

Next ==
    \/ RunStep \/ Answer
    \/ Interrupted \/ TaskCancelled \/ CommitCancelled \/ ToolCancelled
    \/ StopRequested \/ DeadlinePasses \/ Pull \/ ConsumerCloses

Spec == Init /\ [][Next]_vars

\* asyncio runs what is ready, a stopped wait is sooner or later not beaten by one
\* more event, a cancelled tool returns, and the consumer pulls or closes.
Fairness ==
    /\ WF_vars(RunStep)
    /\ SF_vars(Interrupted /\ Stopped)
    /\ WF_vars(ToolCancelled)
    /\ WF_vars(Pull \/ ConsumerCloses)

FairSpec == Spec /\ Fairness

-----------------------------------------------------------------------------
(* Properties *)

Ending == [status : Status, level : {"body", "handler", "outer", "reraise"},
           reason : Reasons \cup {"none"}, work : SUBSET (Nat \X Nat)]

Events == {"none", "RunStarted", "StepStarted", "Delta", "ModelCompleted", "ToolCallRecorded",
           "ToolReport", "ToolResult", "ToolBatchCompleted", "CompletionCompleted", "Terminal"}

WhereType    == pc \in Locations /\ held \in Events
RequestType  == entry \in Entries /\ continueAfter \in BOOLEAN
ControlType  == /\ stops \subseteq Reasons /\ first \in Reasons \cup {"none"} /\ late \in BOOLEAN
                /\ lapses \subseteq {"silence", "work_cancelled"}
StepsType    == stepNo \in Nat /\ rounds \in Nat
ModelType    == attempt \in Nat /\ outputs \subseteq {"text", "reasoning"} /\ pending \in -1 .. MaxCalls
LedgerType   == reserved \in Nat /\ estimate \in Nat
BatchType    == calls \in -1 .. MaxCalls /\ required \in BOOLEAN /\ nextCall \in Nat \ {0}
ToolType     == work \in {"none", "running", "done", "raised"} /\ reports \in Nat /\ out \in Nat
DecisionType == flow \in Flows /\ returned \in BOOLEAN
FactsType    == /\ inputs \in Nat /\ finals \subseteq Nat \X Nat
                /\ batches \subseteq Nat \X BOOLEAN /\ answered \subseteq Nat
LogType      == status \in Status \cup {"none"} /\ faults \in Nat
EffectsType  == /\ requested \subseteq Nat \X Nat /\ external \subseteq Nat \X Nat
                /\ invoked \in Seq(Nat \X Nat)
TerminalType == ending \in Ending /\ yielded \in BOOLEAN /\ published \in Seq(Ending)

\* Every variable of the run has its type.
TypeOK ==
    /\ WhereType /\ RequestType /\ ControlType
    /\ StepsType /\ ModelType /\ LedgerType /\ BatchType /\ ToolType /\ DecisionType
    /\ FactsType /\ LogType /\ EffectsType /\ TerminalType

\* The consumer sees one terminal event at most, and it is the status the recorder
\* holds, however many finalizations failed, were cancelled or raced a stop before.
TerminalMatchesStatus ==
    /\ Len(published) <= 1
    /\ \A i \in DOMAIN published : published[i].status = status

\* A published success is a loop that ran to its end: no stop, failure, wait or
\* break was turned into it.
PublishedSuccessIsFinished ==
    \A i \in DOMAIN published : published[i].status = "succeeded" => returned

\* A tool call reaches the outside world only after its batch is committed, at most
\* once, and in the order of the batch, one at a time.
InvokedOnceAfterRecord ==
    /\ \A i \in DOMAIN invoked : \E q \in BOOLEAN : <<invoked[i][1], q>> \in batches
    /\ \A i, j \in DOMAIN invoked : i < j =>
          \/ invoked[i][1] < invoked[j][1]
          \/ invoked[i][1] = invoked[j][1] /\ invoked[i][2] < invoked[j][2]

\* While a model request is out, every committed batch that belongs to the transcript
\* has its results committed: the model never sees a call without its answer.
ModelSeesResults ==
    pc \in {"stream", "final"} => \A b \in batches : b[2] => b[1] \in answered

\* No run goes over its limits, whatever it had consumed before it started, and every
\* model request, retries included, is paid for out of the ledger.
BudgetsRespected ==
    /\ reserved > TokensUsed => reserved <= TokenLimit
    /\ stepNo > StepsUsed => stepNo <= MaxSteps
    /\ rounds > RoundsUsed => rounds <= MaxRounds
    /\ \A r \in requested : r[2] \in 1 .. Attempts
    /\ \A e \in Estimates : (\A x \in Estimates : e <= x) =>
          reserved >= TokensUsed + e * Cardinality(requested)

\* A step has the final text of one attempt, and calls are recorded only for the
\* attempt whose final text is: a failed attempt leaves no answer behind.
OneAnswerPerStep ==
    /\ \A f, g \in finals : f[1] = g[1] => f = g
    /\ \A b \in batches : (entry = "tools" /\ b[1] = StepsUsed + 1) \/ \E f \in finals : f[1] = b[1]

\* A run that tells its consumer it was cancelled has no call in flight and names all
\* the work that outlives it, also work declared while the call was being cancelled.
ExternalWorkReported ==
    \A i \in DOMAIN published : published[i].status = "cancelled" =>
        published[i].work = external /\ work = "none"

\* Once a stop is requested or the deadline has passed, no model request and no tool
\* call is started.
StopHaltsEffects == [][ Stopped => UNCHANGED <<requested, invoked>> ]_vars

\* After a write failed the run only ends: nothing is requested, called or recorded
\* but its status, and that is never "succeeded" or "waiting".
FaultHaltsRun ==
    [][ faults > 0 => /\ UNCHANGED <<requested, invoked, inputs, finals, batches, answered, stepNo>>
                      /\ status' \in {status, "failed", "cancelled"} ]_vars

\* A consumer known to be gone is shown nothing but the RunStarted event, which goes
\* out before the first look at it.
SilentAfterClose ==
    [][ held' # held /\ Closed \in stops => held' \in {"none", "RunStarted"} ]_vars

\* A reason has a fact behind it; "host_cancel" has two, for wait_cancellable gives it
\* to a run whose work was cancelled although nothing had stopped the run.
RealReason(r) ==
    \/ r \in stops
    \/ r = "deadline" /\ late
    \/ r = "idle_timeout" /\ "silence" \in lapses
    \/ r = "host_cancel" /\ "work_cancelled" \in lapses

\* A stop, or the deadline, ends the run wherever it is: in a silent model, a blocked
\* tool, a backoff, a slow policy or a consumer that has to be drained.
StopEndsRun == Stopped ~> pc = "done"

\* A run that tells its consumer why it was cancelled names a reason that happened in
\* this run: a source that was triggered, a deadline that had passed, a silence that
\* was waited out, or, for the host's, work of the host that ended cancelled.  A source
\* that fires between the interruption and the report may replace the reason, never
\* leave one that has nothing behind it.
CancelReasonReal ==
    \A i \in DOMAIN published : published[i].status = "cancelled" => RealReason(published[i].reason)

\* The run is an implementation of what RunPromise says, whatever the model, the tools,
\* the recorder, the host and the consumer do.
Promise == INSTANCE RunPromise WITH
    stopped  <- Stopped,
    effects  <- <<requested, invoked>>,
    finished <- returned,
    recorded <- status,
    shown    <- IF published = <<>> THEN "none" ELSE published[Len(published)].status,
    over     <- pc = "done"

KeepsPromise == Promise!Spec

\* The recorder holds "succeeded" only for a run whose loop ran to its end.
SuccessMeansFinished == status = "succeeded" => returned

\* A model step whose attempt has already put out text is not attempted again, unless
\* the request allows it.
PartialOutputNotRetried == pc = "retry" /\ attempt < Attempts /\ "text" \in outputs => RetryPartial

-----------------------------------------------------------------------------
(* The inductive invariant behind what a run says at its end *)

\* Nothing is published before the last phase, and then it is the ending that was
\* committed, with the facts the consumer relies on.
PublishedInv ==
    published # <<>> =>
        /\ pc \in {"cleanup", "done"}
        /\ published = <<ending>>
        /\ status = ending.status
        /\ ending.status = "succeeded" => returned
        /\ ending.status = "cancelled" => ending.work = external /\ work = "none"

\* An exception ends in failure or cancellation.
RaisedInv == pc \in {"unwind", "handle"} => ending.status \in {"failed", "cancelled"}

\* Only a consumer that is gone lets an unfinished run pass for a success.
SuccessInv ==
    /\ pc = "succeed" /\ ~returned => Closed \in stops
    /\ pc = "commit" /\ ending.status = "succeeded" /\ ~returned => Closed \in stops

\* A call in flight is waited for, or nobody is told.
InFlightInv ==
    work = "running" =>
        \/ pc \in {"calling", "unwind"}
        \/ Closed \in stops
        \/ pc \in {"cleanup", "done"} /\ published = <<>>

\* The cancellation about to be committed names the work left behind.
CancelInv ==
    pc = "commit" /\ ending.status = "cancelled" /\ ending.level # "reraise" /\ Closed \notin stops =>
        ending.work = external /\ work = "none"

\* After a failed write the run is on its way out, and not to a success.
FaultInv ==
    faults > 0 => /\ pc \in {"unwind", "handle", "commit", "cleanup", "done"}
                  /\ pc = "commit" => ending.status \in {"failed", "cancelled"}

\* A status is recorded only on the way out.
StatusInv == status # "none" => pc \in {"unwind", "handle", "commit", "cleanup", "done"}

\* The loop has run to its end only on the way out.
ReturnedInv == returned => pc \in {"succeed", "unwind", "handle", "commit", "cleanup", "done"}

\* A run that is over holds nothing out to its consumer.
DoneInv == pc = "done" => held = "none"

EndInv ==
    /\ PublishedInv /\ RaisedInv /\ SuccessInv /\ InFlightInv /\ CancelInv /\ FaultInv
    /\ StatusInv /\ ReturnedInv /\ DoneInv

\* The cancellation on its way to the consumer has a reason; one that is raised again
\* needs none.
ReasonInv ==
    /\ first # "none" => first \in stops
    /\ ending.status = "cancelled" /\ ending.level # "reraise" => RealReason(ending.reason)
    /\ \A i \in DOMAIN published : published[i].status = "cancelled" => RealReason(published[i].reason)

-----------------------------------------------------------------------------
(* The inductive invariant behind what a run does step by step *)

InStep == {"prepare", "preparing", "attempt", "stream", "retry", "final"}

\* Steps and rounds only grow from what was consumed, and the entry batch is the
\* first step, before any model round.
CountInv ==
    /\ StepsUsed <= stepNo /\ RoundsUsed <= rounds
    /\ stepNo = StepsUsed => rounds = RoundsUsed
    /\ entry = "tools" /\ rounds = RoundsUsed => stepNo <= StepsUsed + 1
    /\ pc \in {"prepare", "preparing"} => stepNo > StepsUsed

\* Outside the tool phase every batch of the transcript is answered; inside it, all
\* but the current one.
AnsweredInv ==
    /\ pc \in InStep \cup {"start", "app", "resolve", "begin", "inputs", "allocate", "dispatch", "batch",
                           "recordCalls", "policy", "decide", "complete", "recordText", "completing"} =>
          \A b \in batches : b[2] => b[1] \in answered
    /\ pc \in {"call", "calling", "results"} =>
          \A b \in batches : b[2] => b[1] \in answered \/ (b[1] = stepNo /\ required)

\* A step has no final text until its attempts are over, and one after.
FinalsInv ==
    /\ \A f \in finals : f[1] <= stepNo
    /\ pc \in InStep => \A f \in finals : f[1] < stepNo
    /\ \A f, g \in finals : f[1] = g[1] => f = g

\* The step that may record calls is the entry batch or has its final text.
HasAnswer(n) == (entry = "tools" /\ n = StepsUsed + 1) \/ \E f \in finals : f[1] = n
BatchInv ==
    /\ pc \in {"dispatch", "batch", "recordCalls"} => HasAnswer(stepNo)
    /\ \A b \in batches : HasAnswer(b[1])

\* The calls made so far come before the next one.
InvokedInv ==
    /\ \A i \in DOMAIN invoked : invoked[i][1] <= stepNo
    /\ pc \in InStep \cup {"dispatch", "batch", "recordCalls"} => \A i \in DOMAIN invoked : invoked[i][1] < stepNo
    /\ pc \in {"call", "calling"} => \E q \in BOOLEAN : <<stepNo, q>> \in batches
    /\ pc = "call" => \A i \in DOMAIN invoked : invoked[i][1] < stepNo \/ invoked[i][2] < nextCall
    /\ pc = "calling" => \A i \in DOMAIN invoked : invoked[i][1] < stepNo \/ invoked[i][2] <= nextCall

\* An attempt that is about to start is within the allowance, and its estimate is one.
AttemptInv ==
    /\ pc \in {"prepare", "preparing"} /\ ~InEntryBatch => Attempts > 0
    /\ pc = "attempt" => attempt < Attempts /\ estimate \in Estimates
    /\ pc \in {"stream", "retry"} => estimate \in Estimates

LoopInv == CountInv /\ AnsweredInv /\ FinalsInv /\ BatchInv /\ InvokedInv /\ AttemptInv

=============================================================================
