# Verification of the agent runtime

TLA+ models of `src/src/agent_runtime`, a Python/asyncio library that runs an
agent: it records what happened, prepares each model request, drives the model
and the tools, and ends every run with one terminal event. TLC checks the models
on small instances; TLAPS proves the main properties for every instance.

## 1. Inventory

| component | state | operations | who uses it |
|---|---|---|---|
| Recorder (`recording.py`, `MemoryTranscript`) | messages by id, one history per target, committed logical operations, the message of each attempt, run statuses, a version | `record_input`, `record_text_delta`, `record_text_final`, `record_tool_calls`, `record_tool_results`, `finalize_run`, `snapshot` | every pipeline writes, the step provider reads |
| Runtime (`runner.py`) | session, scope, whether a terminal was yielded | resolve, start, record inputs, drive the loop, commit the terminal, handle each exception, clean up | the host; the consumer pulls its events |
| Agent loop (`core.py`) | step and model-round counters | allocate, prepare, model, tools or completion, decide | the runtime |
| Model pipeline (`pipelines/model.py`) | attempt, whether output was emitted, last error | reserve, stream, record deltas, record the final text, retry | the loop |
| Tool pipeline (`pipelines/tools.py`) | outcomes of a batch, queued reports, external work | validate, record calls, invoke, forward reports, record results, apply the policy | the loop |
| Completion pipeline (`pipelines/completion.py`) | – | record the text, apply the policy | the loop |
| Run control (`contracts.py`, `RunControl`) | reasons set, the first one, the deadline | triggers, `first_reason`, `wait` | host, consumer, clock, every wait |
| Lifecycle (`lifecycle.py`) | tasks and streams of a scope, closed flags | cancellable waits, `cancel_and_wait`, `RunScope.aclose`, `CallbackStream` | all of the above |
| Step provider (`context/manager.py`) | stored projection, contributor cache | `prepare`, `invalidate_summary` | the loop |
| Compression (`context/compress.py`) | – | pair, group, trim, summarize | the step provider |
| Budgets (`context/budget.py`) | reserved tokens | `reserve`, `available_for_prompt`, estimates | model pipeline, step provider |
| Application state (`application.py`) | versioned snapshot | `commit`, `current` | policies write, the step provider reads |
| Capabilities (`capabilities/providers.py`) | binding sets by registry, the session's snapshot and version | `resolve`, `publish`, `activate` | the runtime resolves, the tool pipeline looks bindings up and activates, the step provider reads |
| Observer (`observability.py`) | bounded queue, pump task, closed flag | `on_event`, `aclose` | the runtime |
| OpenAI adapter (`adapters/openai.py`) | producer task and queue per stream, open streams | `stream`, `aclose` | the model pipeline, the host |

How they interact: the run is one chain of async generators pulled by its
consumer. At an `await` that really suspends, other tasks run: the tool, the
host that stops the run, the clock, other runs that share the recorder. A stop
is a flag that every wait watches. The recorder is the only owner of history;
the step provider notices concurrent writes by comparing versions.

What is hard here, and what makes each part correct:

- *Recorder.* Operations are retried, with the same or another payload, and may
  fail half way. Correct: one operation writes once and whole or not at all;
  attempts never share a message; a history changes only together with its version.
- *Run.* Stops, the deadline, a cancelled task, a closing consumer and failing
  writes meet every point of the run, tools in flight included. Correct: nothing
  new starts after a stop or a failed write; what is published is what is
  committed; external work is named; a stop ends the run.
- *Loop and pipelines.* Correct: a call is invoked once and after its record, a
  request follows the results it depends on, no limit is exceeded by retries or
  restored counters.
- *Step provider and compression.* Other tasks write between the reads of one
  preparation; histories hold broken groups; a stored projection may be stale.
  Correct: one consistent snapshot, calls and results together, oldest dropped
  first, within the budget, refused only when nothing may be dropped.
- *Cleanup: scope, observer, protected awaits.* The task that cleans up may itself be
  cancelled, once or again; streams fail or hang, tasks ignore cancellation, the
  observer's queue is full when it is closed; the recorder may refuse the status or not
  return. Correct: the cleanup ends unless code of the host holds it in an await without a
  bound, reports what it left, and loses no cancellation.
- *Adapter.* A producer and its consumer share a queue, a deadline and an SDK stream
  that may be opened after the consumer has gone. Correct: events are what was sent,
  in order; every stream opened is released or still owned; every pull returns.
- *Capabilities.* Runs publish concurrently in registries that number alike. Correct:
  a tool runs on the backend selected for its run; only "no match" passes a request
  on.

`PROJECT.json` lists the hazards line by line with the properties that cover them.

## 2. Modules

| module | models | proofs |
|---|---|---|
| `Transcript` | the recorder; one action per method, because each body holds one lock and awaits nothing | `TranscriptProofs` (steps), `RecorderProofs` (invariants) |
| `RunPromise` | abstract specification of a run: it acts, is stopped, records a status, shows at most one | – |
| `AgentRun` | one run: runtime, loop, the three pipelines, run control, cancellable waits, the consumer; implements `RunPromise` | `AgentRunProofs` |
| `RunCleanup` | the end of a run: the finally block, `IsolatedObserver`, `RunScope.aclose`, `await_despite_cancellation` | `RunCleanupProofs` |
| `StepContext` | one step provider with both compressors, and the tasks that write meanwhile | `StepContextProofs` |
| `Capabilities` | registries, fixed and host providers, resolver chain, the sessions of several runs | `CapabilitiesProofs` |
| `ModelStream` | the streams of one OpenAI adapter: generators, producers, the adapter's close | `ModelStreamProofs` |

`StepContext` and `ModelStream` use `Positions`: filters and scans of a sequence, written as
functions of the positions they keep (`Rank`, `Nth`, `Pick`, `Chain`); `PositionFacts` has the
lemmas about them. `MCTranscript`, `MCAgentRun`, `MCRunCleanup`, `MCStepContext`,
`MCCapabilities` and `MCModelStream` give TLC their constants.

**Transcript.** Callers are unconstrained: any method, identity, operation id and
receipt, issued or made up. A text is a sequence of chunks, so concatenation
shows. Each method is its guards (`_check_fail`, replay, receipt and pairing
checks) in the order of the code, then its writes. `record_tool_results` is its two loops:
`Prepares` says how far the first one comes, drawing identities and checking one result
after the other, `Written` what the second appends. `Replay` is the branch of an
operation id that is already committed; `Fresh` the other one.

**AgentRun.** `pc` is the suspension point of the generator chain, `held` the event
the consumer has and has not yet answered. `Emit` is a yield through the layers
up to the consumer, with the runner's look at `consumer_closed`; `Raise` an
exception on its way to the handler of its level; `Interrupted` every cancellable
wait that loses to a stop or to inter-event silence; `WorkCancelled` the work of a
`wait_cancellable` that ends cancelled of itself, which is given the host's reason if no
stop is set; `TaskCancelled` the host cancelling the task. `lapses` keeps which silences
and cancelled works there were, so that a published reason can be compared with facts.
The recorder appears as the set of committed facts, and a
write may fail (`WriteFails`), or be cancelled with or without having committed
(`MaybeWritten`). Models, tools and policies return everything their interface
allows. Not in this module: a result policy that switches the record target or
activates capabilities, and extra contributions. Its action `Cleanup` is
the finally block as one step; `RunCleanup` is what happens inside it.

**RunPromise.** Six variables without the run's machinery. `AgentRun!Promise`
instantiates it: `stopped` is the union of the stop sources and the deadline, `effects`
the requests and invocations made, `finished` that the loop returned, `recorded` the
status in the recorder, `shown` the terminal event published. The refinement adds what
no single invariant says: no effect after a stop or after a status is recorded, a status
may be recorded again only while none was shown, and nothing changes once it is shown.

**RunCleanup.** `pc` is the await at which the driving task is suspended. Before the
cleanup it is in one of three places which differ in what a cancellation of the task meets:
the set-up and the except clauses, where no clause catches it and only the finally block
runs, and the body, where CANCELLED is finalized (`RunCancelled`). `recorded` is what
becomes of that status: a recorder may commit it, refuse it (`FinalizeFails`: its exception
replaces the `CancelledError`, and `FailureCommitted` is the outer clause that commits
FAILED), or not return (`hung`). A recorder that is cancelled is assumed to let the
`CancelledError` through, and the commit of FAILED is one step. asyncio's
bookkeeping is explicit: `cancelling` (`Task.cancelling`), `must` (a pending
`CancelledError`), and `saved`, what the protected await it is in has suppressed.
`Enter`, `Reenter` and `LeaveAll` are `await_despite_cancellation` entered, left and
entered again, and left for the last time. `clears` says whether taking the count back
to zero withdraws the pending error, which asyncio does from Python 3.13 on. The host's
observer and the close of a stream may go on although a timeout or a cancellation ended
them. Scope tasks and streams exist from the beginning; the pump is kept apart from
`Tasks`, since `isolated.aclose()` has always seen it exit before the scope is closed.

**ModelStream.** One generator and one producer per stream. An action runs from one
suspension to the next. The SDK is external: it answers, fails, hangs, or opens a stream
although its caller was cancelled. What it sends is a script; a text event is the place
of its chunk. `Faithful` states the result independently of the accumulation, from the
whole script. A call's name follows its id; finish reason and usage, of
which the last counts, are left out.

**Capabilities.** A binding set is a function from tools to invoker keys, its reference
the number its registry gave it. `history` keeps every snapshot a run had, with the keys
selected for it, which no code reads: it is what `RoutedAsSelected` compares with the
registry. The runtime looks into the registry it was given, or else into `chain.bindings`
(`_binding_registry`), which is the one given to the chain, the first one a provider has,
or one the chain made for itself. `Explicit` is the first or the last of these, `"none"`
the second; when a registry is given, it is given to both. Versions of host snapshots are
arbitrary; versions that are not numerals can never meet one of the session's.

**StepContext.** `_read_consistent` is four steps with writers in between; the
prompt, the stored projection and its key follow; the summarizer's answer is an
action of the environment; the trimming loop is one drop per action, and no one
writes between its actions because it awaits nothing. From `Build` on, `prepare`
reads only what it holds, so writes are delayed until it returns. `Pair` is the scan of
`pair_tool_messages`: `Taken` is what it keeps at an index, `After` where it goes on,
`Complete` its inner loop; `Showable` is an independent definition of the result. A
summarized view that does not fit is paired again, as the trimmer does with what it gets.
`got.instant` is the only variable no code reads: what was current when the
application state was read. A history holds no system message, although `input_items`
may bring one into it: system messages come from contributions and the summary.

## 3. Runs

Numbers are distinct states. `CHECK_DEADLOCK FALSE` everywhere: runs end, callers
may stop, and the bounds stop the environment.

| run | states | shows |
|---|---|---|
| `transcript_mixed` | 157 689 | every method, two attempts, two operations, one failing write, two final statuses: `AttemptsIsolated`, `TextIsCommitted`, `HistoryAppendOnly`, `CommittedOpsStable`, `VersionCoversHistory` |
| `transcript_tools` | 20 369 | batches of one and two calls, unrecorded ones, two targets, made-up batch receipts: `HistoryWellFormed`, `ReceiptsResolve`, `ResultsFollowCalls`, `WritesAreWhole` |
| `run_tools` | 1 220 619 | every entry, two calls, reports and external work, two failing writes, every source of a stop: the refinement `KeepsPromise`, `ExternalWorkReported`, `CancelReasonReal`, `StopHaltsEffects`, `FaultHaltsRun`, and under `FairSpec` the liveness `StopEndsRun` |
| `run_steps` | 1 382 791 | up to two further steps and two attempts under restored counters: order of effects and budgets |
| `step_context` | 2 121 104 | two preparations, both compressors, four writes of any kind, every history of up to four messages |
| `cleanup` | 1 252 694 | both interpreters, queue of two, a stream, a wait's task and a stubborn one, a recorder that refuses or hangs, two late cancellations: `ObservedInOrder`, `ReportIsHonest`, `NothingLeftBehind`, `CancelSurvives`, liveness `CleanupEnds` |
| `adapter` | 541 832 | two streams, one with a hanging close, texts, split calls and malformed arguments: `EventsFaithful`, `NothingLeftOpen`, liveness `PullReturns` |
| `capabilities` | 1 950 704 | two runs, three providers (host without and with a registry, fixed), two registries, host versions below and inside the session's: `RoutedAsSelected`, `OnlyNoMatchContinues` |

What some of these say and do not say:

- `WritesAreWhole`: a message is in a history only as part of a committed operation, and a
  committed batch of results is there whole. It is about `record_tool_results`, whose
  checks stand in a loop; every other method checks before it writes.
- `CancelReasonReal`: the published reason has a fact behind it. It does not say that the
  fact is the host's wish: work that ended cancelled counts for `host_cancel` (below).
- `NothingLeftBehind` says of every run that tasks without a report are left only by a
  cancellation in one of two awaits; the rest of it is about runs that are not cancelled
  again in their cleanup, on an interpreter with `clears` (for the other see
  `cleanup_cancelled`). A run cancelled in its set-up or in an except clause is left
  with the `CancelledError` and whatever status it had; one whose recorder refuses
  CANCELLED may be recorded as failed, and its cancellation is then pending in the task.
- `CleanupEnds` names the awaits nothing bounds (`Held`): a wait's task that ignores its
  cancellation, the finalization, the observer's cancelled pump, a stream's close that
  ignores its timeout. It claims progress everywhere else.

Each property has a mutant in `PROJECT.json`: a plausible bug under which TLC
reports that property violated.

Four runs show where the code and its documentation disagree:

- `run_success` (`runner.py:207`): the consumer closes, the runner leaves the loop
  and commits `succeeded` although the loop never returned and a tool may be in
  flight. Nothing is published, so the promise holds; the recorded status is wrong.
- `run_partial` (`pipelines/model.py:65`): a stream that puts out text and then ends
  without a completion is retried, although `retry_partial_output` is off.
- `step_context_final` (`context/compress.py:117`): a view that ends in a tool group
  can lose that group, hence its final message.
- `cleanup_cancelled` (`lifecycle.py:100`): one cancellation of the run. On Python 3.12,
  which the package supports, `uncancel()` does not withdraw the pending
  `CancelledError`, so leaving one protected await breaks the next one. What can be broken
  this way is the commit of the final status, the drain of the observer and the scope's
  waits; `NothingLeftBehind` is stated for interpreters with `clears`.

More behaviours are in the modules without a run of their own that would refute them:

- `wait_cancellable` (`lifecycle.py:175`) falls back to `host_cancel` when the application
  read, the resolution or a step's preparation ends cancelled of itself, and the run is
  published as cancelled by the host although no stop source was used; `contracts.py:36`
  calls the reasons "distinct stop sources" (`AgentRun!WorkCancelled`).
- The protected wait for the cancelled status (`runner.py:228`) has no timeout: a recorder
  that does not return holds the run before its cleanup begins, while
  `integration-design.md:353` calls protective waits bounded (`RunCleanup!RecorderHangs`).
- A cancellation that arrives while `isolated.aclose()` awaits the cancelled pump
  (`runner.py:301`) leaves the finally block. The scope is not closed, its tasks are
  neither cancelled nor awaited, and no report says so (`RunCleanup!JoinInterrupted`).
- The session counts versions from 1 whatever version the resolved snapshot has
  (`providers.py:139`). A host's snapshot of version 2 and the first publication, also of
  version 2, cannot be told apart by their versions, although "mutations publish a new
  version" (`providers.py:134`; `Capabilities!NextVersion`).

And in the recorder: `finalize_run` with a status used before replays the old operation
and leaves the status of the one in between (`recording.py:567`, `Transcript!Finalize`
with its `Replay`). A `previous_receipt` is hardly checked by the text operations: a delta asks only that its message exists
(`recording.py:267`), a final that its operation and its message do
(`recording.py:332`), whether they were issued together or not. `ReceiptsResolve`
speaks of the receipts the recorder issued.

**Bounds.** The recorder's properties involve at most two operations, two attempts,
two calls and three messages, and each bound allows one more or exactly that. A
run's properties involve one batch of two calls (order inside a batch), two
rounds (results before the next request), two attempts (a retry) and two failing
writes (a failing write and a failing finalization). A conflict in
`_read_consistent` needs three writes, a stale projection a long enough prompt and
one more write: four. With a prompt budget of 2, 1 and 0 tokens and messages of size 1,
histories of four messages reach every branch of both compressors. `MaxWrites`
bounds all writes together, so long histories meet few other writes and short
ones many. In the cleanup a queue of two with two events and the run's last one is
empty, partly full and full when it closes; a second late cancellation is the first that can
break a protected await twice; one stream reaches every way a close ends, and the proofs
of the safety properties are for any number of streams and cancellations. In
the adapter one stream carries the data while the other is only opened and released, so
that the adapter's close meets zero, one and two of them. A foreign registry, a shared
one and three binding sets reach every way a set gets its number.

**Fairness.** `AgentRun!FairSpec`: weak fairness of `RunStep`: asyncio runs what is
ready. Strong fairness of an interrupted wait while stopped: `wait_next`
(`lifecycle.py:145`) and the tool pipeline (`tools.py:198`) prefer a ready event to
a ready stop, so a stop is taken only if the model or tool is sometimes silent; a
source that always has an event ready would starve it, and the property assumes
none does. Weak fairness of `ToolCancelled`: `cancel_and_wait` waits without a
bound, so the run depends on the tool honouring its cancellation. Weak fairness
of pulling or closing: a suspended generator moves only when its consumer does.

`RunCleanup!FairSpec`: ready steps of the driving task and the pump run, and timers fire
(both are steps that stay enabled). Tasks that are not `Stubborn` exit once cancelled. The
host's observer, the closes of streams and the recorder return, or give in to what cancels
them, unless they are in `hung`; of those, and of stubborn tasks, nothing is assumed. Four
awaits have no bound of their own, and in them a hung or stubborn party may stay for good
(`Held`): `cancel_and_wait` (`lifecycle.py:111`), the finalization (`runner.py:228`), the
join of the cancelled pump (`observability.py:75`), and a stream whose close goes on after
its timeout (`lifecycle.py:59`). `CleanupEnds` says that nothing else can hold the cleanup.
That the commit of FAILED after a refused CANCELLED returns is assumed.

`ModelStream!FairSpec`: the generator's ready steps run, deadlines pass, a producer that
was asked to stop ends, and what is released, the close of a stream included, ends or gives
in to its timeout. The last two are assumptions about the SDK: `wait_for` cancels what it
waits for and then awaits it, so neither the timeout of `openai.py:247` nor that of a release
bounds a task that swallows its cancellation, and the adapter's comment "cleanup can never
wait forever" (`openai.py:169`) says more than is checked. Nothing is assumed of the SDK's
answers or of the consumer.

## 4. Proofs

All theorems are for every value of the constants, from the assumptions
`Transcript!Inputs`, `AgentRun!Limits`, `StepContext!Inputs`, `RunCleanup!Setup`,
`ModelStream!Setup` and `Capabilities!Setup`: types of the constants; for the recorder,
that `None` and the finalization ids are not also caller values; for the capabilities,
that fixed providers have a registry, and that a registry is given or some provider of the
chain has one.

- `TranscriptProofs`. A refused or failing call changes nothing but the reply, and
  `StoreOp` is reached only through `Fresh`, which gives `OpsCorrect` without an
  invariant. `VersionCorrect` needs `ShapeInv` (histories
  and messages are functions over the right domains, the version is a number): an
  append or a replacement moves the version by one each, and a list of results by
  its length.
- `RecorderProofs`. `RecorderInv` is the conjunction of the type invariant and the six
  invariants of the recorder; it is inductive, none of the six is alone. That attempts
  share no message needs that identities are drawn above all that exist; that an input or
  a result has one author needs that the receipts of every other operation resolve to
  messages that existed, of another role than the texts rewritten in place. A
  method is taken apart into what it does to the store (`GrowthKeeps`: a run of new
  identities at the end of one history; `RewriteKeeps`: an attempt's own message) and the
  operation it commits (`CommitKeeps`), each proved once. `WholeCorrect` needs both: what
  was written is what the operation names, and what an operation named is not removed, so a
  list of results refused on the way has written nothing. `AppendOnlyCorrect` follows
  from the same two facts about the store.
- `AgentRunProofs`. `TypeCorrect` first. `EndInv` is the strengthening behind what a
  run says at its end: the ending committed is the ending raised, an unfinished
  loop reaches a success commit only with the consumer gone, and a tool is in
  flight only where the run still waits for it or nobody is told. It gives
  `TerminalCorrect`, `SuccessCorrect` and `ExternalWorkCorrect`, and with one lemma on
  what each step changes (`StepFacts`) the action properties `StopCorrect`,
  `FaultCorrect` and `SilentCorrect`. `LoopInv` is the strengthening behind the loop:
  counters, which steps are answered, which final texts exist, where a batch is.
  It gives `ResultsBeforeRequests`, `OneAnswerCorrect`, `InvokedCorrect` and, with the
  cardinality of the requests made, `BudgetsCorrect`.
  `CancelReasonReal` needs its own invariant: a reason kept by an exception on its way had
  its fact when it was raised (a stop, a silence, or work that was cancelled), and facts are
  never taken back. `PromiseCorrect` is the
  refinement: `Init` maps to `Init`, and each action of the run maps to one of
  `RunPromise` or to a stutter; what makes a published status one that is recorded and
  never recorded over is `EndInv`.
- `PositionFacts`. The provers cannot instantiate an induction theorem with an operator,
  so `NatSet` states induction for a set: one that holds 0 and each successor of a member
  holds every number. From it come `ChainIs` (the recursive function of a scan exists) and
  `ScanInduction` (a set of sequences closed under one more piece holds the whole scan);
  from cardinalities come `NthIs`, `PickIs` and `PickSplit`: a filter keeps the order, and
  filtering two adjacent parts gives the concatenation of both.
- `StepContextProofs`. `ProjectionCorrect`: a stored projection fits the tokens in its
  key, and reuse requires that key. `SnapshotsCorrect`: versions only grow, so equal
  reads before and after the application's pin both other versions at the moment
  it was read; `ReadInv` carries those inequalities through the four steps.
  `PairingCorrect`: by induction from the end of the scan, what it takes from an index on
  is the showable messages from there on. This holds for the indices the scan can reach,
  those not inside an answered group (`ScanStep`). `ViewPairedCorrect`: a set of
  well paired sequences is closed under concatenation, under deleting a whole group or a
  plain message, and under a cut where a unit begins, which are all the operations of
  both compressors. `OldestCorrect` and `RefusedCorrect` rest on `ReduceInv`: the view is
  the prompt without its oldest groups and turns, in its order (`Reduces`), for a view
  just made and for the stored one. Each drop keeps `Reduces` because it takes the first
  group or turn of what is left (`GroupReduces`, `PlainReduces`), the summary because it
  keeps a suffix (`ShortReduces`); pairing such a view again changes nothing (`PairAgain`).
- `RunCleanupProofs`. One invariant, `CleanupInv`. `AsyncInv` says what the count and the
  pending error may be at each await; with the balance of counts in `CancelSurvives` it
  is what makes a cancellation end up raised, pending, or in the close of a stream, also when
  the recorder's exception has taken the place of the `CancelledError`.
  `QueueInv` describes the queue as the accepted events not yet delivered, then perhaps
  the sentinel; hence the order of delivery, and completeness for a pump that was not
  forced. `LeftInv` follows a cancellation through the except clauses: while the status is due, the
  run is on its way to the finalization, and only a refusing recorder takes it to the commit of
  FAILED. With `ScopeInv` it gives `NothingLeftBehind`. No theorem covers the run after a
  second cancellation beyond `CancelSurvives` and `ReportIsHonest`: section 3
  says what is lost then.
- `ModelStreamProofs`. `StreamInv`: a generator past its join has no producer, an opened
  stream has an owner until its release begins, and a slow or broken cleanup is no
  normal end. It gives `NothingLeftOpen` for any number of streams. `EventsInv` gives
  `EventsCorrect`: the fragments and texts are those of the chunks read so far
  (`FragmentsOf`, `TextsOf`), each event handed out or queued is the one the script has at
  its place, and while producer and generator both go on, every text read is one of the
  two (`Flow`). A generator that left its loop has asked its producer to stop, so
  nothing is put any more for a consumer that would miss it.
- `CapabilitiesProofs`. `RouteInv`, stronger than the property: the whole binding set
  behind a snapshot is the selection it was published for. It is inductive because a
  registry only grows (a table keeps its number) and a foreign set is copied before its
  number is used; `FixedInv` is the same for what fixed providers published when they were made.

Every invariant and action property of the passing runs is proved. Only model-checked:
liveness under fairness (`StopEndsRun`, `CleanupEnds`, `PullReturns`), which the prover
does not handle, and the four violations.

## 5. Plan

1. Proofs: the parts of `AgentRun` that no run states, and a stronger `RunPromise`.
2. The result policy's switch of record target, composed with `StepContext`: the current
   batch keeps the old snapshot, the next step gets the new one.
3. `AgentRun` composed with `Transcript` in place of its sets of facts, and with
   `RunCleanup` in place of its last step.
4. A stream closed while its iterator is suspended (`lifecycle.py:264`).

## 6. Not modelled

- Schema validation and JSON helpers: pure, they enter as accept or reject.
- Policies and session: a pure choice by priority; every decision is taken.
- The rest of the observer's module: `OpenTelemetryObserver` and `timed` emit spans and
  measure time and keep no state a run reads.
- `request_payload` and `create_openai_client` of the adapter: they build the data of a
  request. The SDK itself is external.
- `_assemble` and the overrides of a request: a static choice of ports before the run.
- Contributor caching and merging, several record targets in one step provider,
  wording of prompts and summaries.
- Ports, exceptions and the testing kit: types, and scripts for host tests.
