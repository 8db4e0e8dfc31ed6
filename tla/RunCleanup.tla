------------------------------ MODULE RunCleanup ------------------------------
(***************************************************************************)
(* The end of a run: the finally block of DefaultRuntime._run (runner.py), *)
(* IsolatedObserver (observability.py), RunScope, CallbackStream.aclose    *)
(* and await_despite_cancellation (lifecycle.py), while the host may       *)
(* cancel the task that drives the run before or during the cleanup.       *)
(*                                                                         *)
(* asyncio's view of that task is two variables: `cancelling`, the count   *)
(* of cancellation requests (Task.cancelling), and `must`, a CancelledError*)
(* that is raised where the task is suspended or suspends next.            *)
(* await_despite_cancellation takes the count back on entry and requests   *)
(* the cancellations again on exit.  Whether taking the count back to zero *)
(* also withdraws the pending CancelledError depends on the interpreter    *)
(* (`clears`: from Python 3.13 on; the package supports 3.12 too).         *)
(*                                                                         *)
(* The cleanup awaits in this order: the tasks of the interrupted wait     *)
(* ("unwind"), the final status ("finalizing"), the observer's queue       *)
(* ("drain"), its cancelled pump ("join"), each stream ("closing") and the *)
(* scope's tasks ("tasks").  Everything else runs between two of them.     *)
(* A cancellation is finalized only where the inner try block catches it:  *)
(* not while the run is set up, nor inside an except clause.               *)
(*                                                                         *)
(* Data: an observed event is its number; a stream is its place in the     *)
(* scope's list.  The observer and a stream may ignore a cancellation or a *)
(* timeout, the recorder may never return (one that is cancelled lets the  *)
(* CancelledError through), and tasks may be Stubborn.                     *)
(***************************************************************************)
EXTENDS Integers, Sequences, FiniteSets, Functions

CONSTANTS
    Interpreters,   \* subset of BOOLEAN: values `clears` may have
    MaxSize,        \* maxsize of the observer's queue
    NStreams,       \* streams registered in the scope
    Tasks,          \* tasks registered in the scope, the pump aside
    WaitTasks,      \* the tasks an interrupted wait cancels and awaits itself
    Stubborn,       \* tasks that need not exit when they are cancelled
    MaxOffers,      \* bound: events offered to the observer
    MaxCancels      \* bound: cancellations by the host during the cleanup

ASSUME Setup ==
    /\ Interpreters \subseteq BOOLEAN
    /\ MaxSize \in Nat \ {0} /\ {NStreams, MaxOffers, MaxCancels} \subseteq Nat
    /\ WaitTasks \subseteq Tasks /\ Stubborn \subseteq Tasks

Sentinel == 0

VARIABLES
    pc,          \* where the task that drives the run is
    \* that task, for asyncio
    cancelling, must, clears,
    saved,       \* `suppressed` of the await_despite_cancellation it is in
    savedIn,     \* ... and of one inside that
    \* IsolatedObserver
    queue, closed,
    pump,        \* "idle" in get, "calling" the host's observer, "cancelled", "done"
    inCall,      \* the cancelled pump was calling
    forced,      \* the pump was cancelled
    offered, accepted, delivered,
    \* RunScope
    tasks,       \* "running", "cancelled" (requested, not exited) or "done"
    closes,      \* how each stream's close ended, in order
    outcome,     \* "none" while _closed is unset, then "clean", "timeout" or "errors"
    second,      \* a second caller of aclose
    \* what the host did and what became of it
    runCancelled,   \* the host cancelled the run itself
    late,           \* ... and how often the cleanup
    raised,         \* a CancelledError leaves, or is leaving, the run
    recorded,       \* the status the cancellation calls for: "none", "due", "cancelled",
                    \* "refused" by the recorder, or "failed" after that
    interrupted,    \* the awaits of the cleanup that a CancelledError broke
    hung            \* who does not return: "observer", "stream", "recorder"

asyncio  == <<cancelling, must, saved, savedIn>>
feed     == <<queue, offered, accepted>>
pumping  == <<pump, inCall, forced, delivered>>
observer == <<feed, closed, pumping>>
scope    == <<tasks, closes, outcome, second>>
host     == <<runCancelled, late, raised, recorded, interrupted, hung>>
vars     == <<pc, asyncio, clears, observer, scope, host>>

-----------------------------------------------------------------------------
(* await_despite_cancellation *)

\* The outermost call is entered with `count` requests and a CancelledError pending or not.
Enter(count, pending) ==
    /\ saved' = count /\ cancelling' = 0
    /\ must' = (pending /\ ~(clears /\ count > 0))

\* What is requested once the outermost call has returned.
Requested == cancelling + saved

\* One protected await is left and the next one entered: what the first suppressed is
\* requested again in between.
Reenter(thrown) == Enter(Requested + savedIn, thrown \/ saved + savedIn > 0) /\ savedIn' = 0

\* Mutant: what was suppressed is not requested again.
LeaveAllForgotten(pending) ==
    /\ cancelling' = cancelling /\ must' = pending
    /\ saved' = 0 /\ savedIn' = 0

\* The last one is left.
LeaveAll(pending) ==
    /\ cancelling' = Requested + savedIn /\ must' = (pending \/ saved + savedIn > 0)
    /\ saved' = 0 /\ savedIn' = 0

\* The task is suspended at l and nothing is about to be raised there.
Waiting(l) == pc = l /\ ~must
\* It is suspended at l and a CancelledError is raised there.
Thrown(l)  == pc = l /\ must /\ interrupted' = interrupted \cup {l}

Suspensions == {"unwind", "finalizing", "drain", "join", "closing", "tasks"}

-----------------------------------------------------------------------------
(* The run is left *)

CancelAll(set) == [t \in Tasks |-> IF t \in set /\ tasks[t] = "running" THEN "cancelled" ELSE tasks[t]]

\* Before the cleanup the run is set up, in the inner try block, or in an except clause.
Running == pc \in {"setup", "body", "handling"}

\* The application's state is read and the capabilities are resolved.
SetUp ==
    /\ pc = "setup"
    /\ pc' = "body"
    /\ UNCHANGED <<asyncio, clears, observer, scope, host>>

\* A stop or a failure brings the run to an except clause.
Handles ==
    /\ pc \in {"setup", "body"}
    /\ pc' = "handling"
    /\ UNCHANGED <<asyncio, clears, observer, scope, host>>

\* A terminal event, a failure or a closing consumer: the finally block begins.
RunEnds ==
    /\ Running
    /\ pc' = "observe"
    /\ UNCHANGED <<asyncio, clears, observer, scope, host>>

\* The host cancels the task.  wait_next and wait_cancellable await their own tasks
\* first (cancel_and_wait), other awaits of the body go straight to the except clause
\* of _run, and an except clause goes straight to the finally block.
RunCancelled ==
    /\ Running
    /\ runCancelled' = TRUE /\ raised' = TRUE
    /\ recorded' = IF pc = "body" THEN "due" ELSE "none"
    /\ Enter(1, FALSE)
    /\ \/ pc # "handling" /\ pc' = "unwind" /\ tasks' = CancelAll(WaitTasks)
       \/ pc = "body" /\ pc' = "finalize" /\ UNCHANGED tasks
       \/ pc = "handling" /\ pc' = "observe" /\ UNCHANGED tasks
    /\ UNCHANGED <<savedIn, clears, observer, closes, outcome, second, late, interrupted, hung>>

\* Mutant: a wait that was cancelled goes to the finally block like the set-up.
UnwoundUnrecorded ==
    /\ \/ Waiting("unwind") /\ UNCHANGED interrupted
       \/ Thrown("unwind")
    /\ \A t \in WaitTasks : tasks[t] = "done"
    /\ Reenter(FALSE)
    /\ pc' = "observe"
    /\ UNCHANGED <<clears, observer, scope, runCancelled, late, raised, recorded, hung>>

\* gather returns only when its tasks have exited, also when it is cancelled.
Unwound ==
    /\ \/ Waiting("unwind") /\ UNCHANGED interrupted
       \/ Thrown("unwind")
    /\ \A t \in WaitTasks : tasks[t] = "done"
    /\ Reenter(FALSE)
    /\ pc' = IF recorded = "due" THEN "finalize" ELSE "observe"
    /\ UNCHANGED <<clears, observer, scope, runCancelled, late, raised, recorded, hung>>

\* _finalize: a recorder may commit without suspending, or suspend.
FinalizeSuspends ==
    /\ pc = "finalize"
    /\ pc' = "finalizing"
    /\ UNCHANGED <<asyncio, clears, observer, scope, host>>

RecorderHangs ==
    /\ Waiting("finalizing") /\ "recorder" \notin hung
    /\ hung' = hung \cup {"recorder"}
    /\ UNCHANGED <<pc, asyncio, clears, observer, scope, runCancelled, late, raised, recorded, interrupted>>

Finalized ==
    /\ pc = "finalize" \/ Waiting("finalizing")
    /\ recorded' = "cancelled"
    /\ Reenter(must)
    /\ pc' = "observe"
    /\ hung' = hung \ {"recorder"}
    /\ UNCHANGED <<clears, observer, scope, runCancelled, late, raised, interrupted>>

\* The recorder may have committed before the cancellation reached it.
FinalizeInterrupted ==
    /\ Thrown("finalizing")
    /\ recorded' \in {recorded, "cancelled"}
    /\ Reenter(FALSE)
    /\ pc' = "observe"
    /\ hung' = hung \ {"recorder"}
    /\ UNCHANGED <<clears, observer, scope, runCancelled, late, raised>>

\* The recorder's exception replaces the CancelledError and goes on to the outer except
\* clause, with the suppressed requests made again.
FinalizeFails ==
    /\ pc = "finalize" \/ Waiting("finalizing")
    /\ recorded' = "refused" /\ raised' = FALSE
    /\ LeaveAll(must)
    /\ pc' = "commit"
    /\ hung' = hung \ {"recorder"}
    /\ UNCHANGED <<clears, observer, scope, runCancelled, late, interrupted>>

\* _commit_terminal of that clause, with FAILED, and its yield.  The pending
\* CancelledError is thrown where the recorder suspends or, once the event is out, where
\* the consumer does; or nothing suspends before the finally block.
FailureCommitted ==
    /\ pc = "commit"
    /\ recorded' \in {recorded, "failed"}
    /\ \E thrown \in BOOLEAN : raised' = thrown /\ Enter(cancelling, must /\ ~thrown)
    /\ pc' = "observe"
    /\ UNCHANGED <<savedIn, clears, observer, scope, runCancelled, late, interrupted, hung>>

-----------------------------------------------------------------------------
(* IsolatedObserver *)

\* Mutant: one more than fits.
FullTooLate(q) == Len(q) > MaxSize

Full(q) == Len(q) >= MaxSize

\* Mutant: events are still taken when the observer is closed.
OfferUnchecked ==
    /\ offered' = offered + 1
    /\ IF Full(queue) THEN UNCHANGED <<queue, accepted>>
       ELSE queue' = Append(queue, offered + 1) /\ accepted' = Append(accepted, offered + 1)

\* on_event: what does not fit, or comes after the close, is dropped.
Offer ==
    /\ offered' = offered + 1
    /\ IF closed \/ Full(queue) THEN UNCHANGED <<queue, accepted>>
       ELSE queue' = Append(queue, offered + 1) /\ accepted' = Append(accepted, offered + 1)

\* The run and the tasks it leaves behind report events.
OnEvent ==
    /\ offered < MaxOffers
    /\ Running \/ (pc # "end" /\ \E t \in Tasks : tasks[t] # "done")
    /\ Offer
    /\ UNCHANGED <<pc, asyncio, clears, closed, pumping, scope, host>>

\* The last event of the run, then IsolatedObserver.aclose up to its first await: the
\* sentinel is dropped like an event when the queue is full.
ObserverCloses ==
    /\ pc = "observe"
    /\ offered' = offered + 1
    /\ LET last == IF Full(queue) THEN queue ELSE Append(queue, offered + 1) IN
          /\ accepted' = IF Full(queue) THEN accepted ELSE Append(accepted, offered + 1)
          /\ queue' = IF Full(last) THEN last ELSE Append(last, Sentinel)
    /\ closed' = TRUE
    /\ Reenter(must)
    /\ pc' = "drain"
    /\ UNCHANGED <<clears, pumping, scope, host>>

\* _pump
Pump ==
    /\ pump = "idle" /\ queue # <<>>
    /\ queue' = Tail(queue)
    /\ IF Head(queue) = Sentinel
       THEN pump' = "done" /\ UNCHANGED delivered
       ELSE pump' = "calling" /\ delivered' = Append(delivered, Head(queue))
    /\ UNCHANGED <<pc, asyncio, clears, offered, accepted, closed, inCall, forced, scope, host>>

\* The host's observer returns, fails, or is cancelled by the timeout of the call.
CallEnds ==
    /\ pump = "calling"
    /\ pump' = "idle"
    /\ UNCHANGED <<pc, asyncio, clears, feed, closed, inCall, forced, delivered, scope, host>>

\* The host's observer goes on although the timeout cancelled the call.
IgnoresTimeout ==
    /\ pump = "calling"
    /\ hung' = hung \cup {"observer"}
    /\ UNCHANGED <<pc, asyncio, clears, observer, scope, runCancelled, late, raised, recorded, interrupted>>

CancelPump ==
    IF pump \in {"idle", "calling"}
    THEN pump' = "cancelled" /\ inCall' = (pump = "calling") /\ forced' = TRUE
    ELSE UNCHANGED <<pump, inCall, forced>>

PumpExits ==
    /\ pump = "cancelled"
    /\ pump' = "done"
    /\ UNCHANGED <<pc, asyncio, clears, feed, closed, inCall, forced, delivered, scope, host>>

\* The host's observer turns the cancellation into a return or an ordinary exception,
\* and the pump goes on with its queue; or it just goes on.
SwallowsCancel ==
    /\ pump = "cancelled" /\ inCall
    /\ pump' \in {"idle", "calling"} /\ hung' = hung \cup {"observer"}
    /\ UNCHANGED <<pc, asyncio, clears, feed, closed, inCall, forced, delivered, scope,
                   runCancelled, late, raised, recorded, interrupted>>

\* The pump has met the sentinel in time.
Drained ==
    /\ Waiting("drain") /\ pump = "done"
    /\ Reenter(FALSE)
    /\ pc' = "scope"
    /\ UNCHANGED <<clears, observer, scope, host>>

\* The time is up, or a cancellation comes (and is caught): the pump is cancelled.
DrainEnds ==
    /\ \/ Waiting("drain") /\ UNCHANGED interrupted
       \/ Thrown("drain")
    /\ CancelPump
    /\ savedIn' = cancelling /\ cancelling' = 0 /\ must' = FALSE
    /\ pc' = "join"
    /\ UNCHANGED <<saved, clears, feed, closed, delivered, scope, runCancelled, late, raised, recorded, hung>>

Joined ==
    /\ Waiting("join") /\ pump = "done"
    /\ Reenter(FALSE)
    /\ pc' = "scope"
    /\ UNCHANGED <<clears, observer, scope, host>>

\* The cancellation leaves aclose, and the rest of the finally block is skipped.
JoinInterrupted ==
    /\ Thrown("join") /\ pump = "done"
    /\ LeaveAll(FALSE)
    /\ raised' = TRUE
    /\ pc' = "end"
    /\ UNCHANGED <<clears, observer, scope, runCancelled, late, recorded, hung>>

-----------------------------------------------------------------------------
(* RunScope.aclose *)

StreamsLeft == Len(closes) < NStreams

\* A stream whose close need not suspend; CallbackStream.aclose protects it once more,
\* unless it was closed before.
CloseAtOnce ==
    /\ pc = "scope" /\ StreamsLeft
    /\ \E how \in {"closed", "failed"} : closes' = Append(closes, how)
    /\ must' \in {must, must \/ cancelling > 0}
    /\ UNCHANGED <<pc, cancelling, saved, savedIn, clears, observer, tasks, outcome, second, host>>

CloseSuspends ==
    /\ pc = "scope" /\ StreamsLeft
    /\ savedIn' = cancelling /\ cancelling' = 0
    /\ must' = (must /\ ~(clears /\ cancelling > 0))
    /\ pc' = "closing"
    /\ UNCHANGED <<saved, clears, observer, scope, host>>

\* The stream goes on closing although the timeout, or the host, cancelled it.
CloseIgnores ==
    /\ \/ Waiting("closing") /\ "stream" \notin hung /\ UNCHANGED interrupted
       \/ Thrown("closing")
    /\ must' = FALSE /\ hung' = hung \cup {"stream"}
    /\ UNCHANGED <<pc, cancelling, saved, savedIn, clears, observer, scope, runCancelled, late, raised, recorded>>

\* Whatever comes out of it, a CancelledError included, the next stream is closed.
CloseEnds ==
    /\ \/ /\ Waiting("closing") /\ UNCHANGED interrupted
          /\ \E how \in {"closed", "failed", "timedout"} : closes' = Append(closes, how)
       \/ Thrown("closing") /\ closes' = Append(closes, "interrupted")
    /\ cancelling' = cancelling + savedIn /\ must' = (savedIn > 0) /\ savedIn' = 0
    /\ hung' = hung \ {"stream"}
    /\ pc' = "scope"
    /\ UNCHANGED <<saved, clears, observer, tasks, outcome, second, runCancelled, late, raised, recorded>>

Pending(ts) == {t \in Tasks : ts[t] # "done"}

\* Mutant: _closed is set only when everything went well.
FinishUnset(ts) ==
    /\ outcome' = IF Pending(ts) = {} /\ Range(closes) \subseteq {"closed"} THEN "clean" ELSE outcome
    /\ pc' = "end"

\* Mutant: a task that still runs when the time is up is not counted.
FinishUncounted(ts) ==
    /\ outcome' = IF "timedout" \in Range(closes) THEN "timeout"
                  ELSE IF Range(closes) \subseteq {"closed"} THEN "clean" ELSE "errors"
    /\ pc' = "end"

\* _cleanup_error, and _closed is set.
Finish(ts) ==
    /\ outcome' = IF Pending(ts) # {} \/ "timedout" \in Range(closes) THEN "timeout"
                  ELSE IF Range(closes) \subseteq {"closed"} THEN "clean" ELSE "errors"
    /\ pc' = "end"

CancelTasks ==
    /\ pc = "scope" /\ ~StreamsLeft
    /\ tasks' = CancelAll(Tasks)
    /\ IF Pending(tasks) = {} THEN Finish(tasks) /\ LeaveAll(must)
       ELSE pc' = "tasks" /\ UNCHANGED <<outcome, asyncio>>
    /\ UNCHANGED <<clears, observer, closes, second, host>>

\* asyncio.wait returns: all have exited, or the time is up.
TasksWaited ==
    /\ Waiting("tasks")
    /\ Finish(tasks) /\ LeaveAll(FALSE)
    /\ UNCHANGED <<clears, observer, tasks, closes, second, host>>

\* Only here a cancellation leaves aclose, and _closed stays unset.
TasksInterrupted ==
    /\ Thrown("tasks")
    /\ LeaveAll(FALSE)
    /\ raised' = TRUE
    /\ pc' = "end"
    /\ UNCHANGED <<clears, observer, scope, runCancelled, late, recorded, hung>>

\* A second caller waits for the first and shares its outcome.
SecondCloser ==
    /\ second = "none" /\ pc \in {"scope", "closing", "tasks"}
    /\ second' = "waiting"
    /\ UNCHANGED <<pc, asyncio, clears, observer, tasks, closes, outcome, host>>

SecondReturns ==
    /\ second = "waiting" /\ outcome # "none"
    /\ second' = outcome
    /\ UNCHANGED <<pc, asyncio, clears, observer, tasks, closes, outcome, host>>

-----------------------------------------------------------------------------
(* The environment *)

TaskExits(t) ==
    /\ tasks[t] # "done"
    /\ tasks' = [tasks EXCEPT ![t] = "done"]
    /\ UNCHANGED <<pc, asyncio, clears, observer, closes, outcome, second, host>>

\* The host cancels the task during the cleanup; gather passes it on to the pump.
HostCancels ==
    /\ pc \in Suspensions /\ late < MaxCancels
    /\ late' = late + 1
    /\ cancelling' = cancelling + 1 /\ must' = TRUE
    /\ IF pc = "join" THEN CancelPump ELSE UNCHANGED <<pump, inCall, forced>>
    /\ UNCHANGED <<pc, saved, savedIn, clears, feed, closed, delivered, scope,
                   runCancelled, raised, recorded, interrupted, hung>>

-----------------------------------------------------------------------------

Init ==
    /\ pc = "setup" /\ clears \in Interpreters
    /\ cancelling = 0 /\ must = FALSE /\ saved = 0 /\ savedIn = 0
    /\ queue = <<>> /\ offered = 0 /\ accepted = <<>> /\ closed = FALSE
    /\ pump = "idle" /\ inCall = FALSE /\ forced = FALSE /\ delivered = <<>>
    /\ tasks = [t \in Tasks |-> "running"]
    /\ closes = <<>> /\ outcome = "none" /\ second = "none"
    /\ runCancelled = FALSE /\ late = 0 /\ raised = FALSE /\ recorded = "none"
    /\ interrupted = {} /\ hung = {}

\* What the driving task does once it is ready: an await that is over, or whose time is up.
CleanupStep ==
    \/ Unwound \/ FinalizeSuspends \/ Finalized \/ FinalizeInterrupted \/ FinalizeFails \/ FailureCommitted
    \/ ObserverCloses \/ Drained \/ DrainEnds \/ Joined \/ JoinInterrupted
    \/ CloseAtOnce \/ CloseSuspends \/ CloseEnds \/ CancelTasks \/ TasksWaited \/ TasksInterrupted

PumpStep == Pump \/ PumpExits

Next ==
    \/ SetUp \/ Handles \/ RunEnds \/ RunCancelled \/ CleanupStep
    \/ OnEvent \/ PumpStep \/ CallEnds
    \/ RecorderHangs \/ IgnoresTimeout \/ SwallowsCancel \/ CloseIgnores
    \/ SecondCloser \/ SecondReturns
    \/ HostCancels \/ \E t \in Tasks : TaskExits(t)

Spec == Init /\ [][Next]_vars

\* The awaits of the cleanup that nothing bounds: somebody else's code may keep the run
\* in each of them for good.
Held ==
    \/ pc = "unwind" /\ \E t \in WaitTasks \cap Stubborn : tasks[t] # "done"
    \/ pc = "finalizing" /\ "recorder" \in hung
    \/ pc = "join" /\ "observer" \in hung /\ pump # "done"
    \/ pc = "closing" /\ "stream" \in hung

\* asyncio runs what is ready and timers fire; who has not hung returns; a task that
\* honours cancellation exits once it is cancelled.
Fairness ==
    /\ WF_vars(CleanupStep /\ ~Held) /\ WF_vars(PumpStep) /\ WF_vars(SecondReturns)
    /\ WF_vars(CallEnds /\ "observer" \notin hung)
    /\ \A t \in Tasks \ Stubborn : WF_vars(TaskExits(t) /\ tasks[t] = "cancelled")

FairSpec == Spec /\ Fairness

-----------------------------------------------------------------------------
(* Properties *)

Locations == Suspensions \cup {"setup", "body", "handling", "finalize", "commit", "observe", "scope", "end"}
Outcomes  == {"none", "clean", "timeout", "errors"}

\* Every variable has its type, and the observer's queue stays within its bound.
TypeOK ==
    /\ pc \in Locations
    /\ {cancelling, saved, savedIn, offered, late} \subseteq Nat
    /\ {must, clears, closed, inCall, forced, runCancelled, raised} \subseteq BOOLEAN
    /\ recorded \in {"none", "due", "cancelled", "refused", "failed"}
    /\ queue \in Seq(Nat) /\ Len(queue) <= MaxSize /\ accepted \in Seq(Nat) /\ delivered \in Seq(Nat)
    /\ pump \in {"idle", "calling", "cancelled", "done"}
    /\ tasks \in [Tasks -> {"running", "cancelled", "done"}]
    /\ closes \in Seq({"closed", "failed", "timedout", "interrupted"})
    /\ outcome \in Outcomes /\ second \in Outcomes \cup {"waiting"}
    /\ interrupted \subseteq Suspensions /\ hung \subseteq {"observer", "stream", "recorder"}

\* The host's observer sees events in the order they were offered and none twice, and
\* a pump that ended by itself has delivered all that was accepted: nothing is accepted
\* that the sentinel overtakes.
ObservedInOrder ==
    /\ \A i, j \in DOMAIN delivered : i < j => delivered[i] < delivered[j]
    /\ pump = "done" /\ ~forced => delivered = accepted

\* A close reported as clean released everything, and whatever it reports, it tried
\* every stream and cancelled every task: one failing release does not stop the others,
\* and a task that outlived the wait is not passed over.
ReportIsHonest ==
    /\ outcome = "clean" => Pending(tasks) = {} /\ Range(closes) \subseteq {"closed"}
    /\ outcome = "errors" => Pending(tasks) = {}
    /\ outcome # "none" => Len(closes) = NStreams /\ \A t \in Tasks : tasks[t] # "running"

\* A run leaves a task behind that no report is about only if a CancelledError took it out
\* of the wait for the observer's cancelled pump, so that its scope is never closed, or out
\* of the scope's wait for its tasks.  Neither happens to a run that is not cancelled again
\* while it cleans up, on interpreters on which taking back a request withdraws it; if such
\* a run was cancelled in its body, it has CANCELLED recorded and is left with the
\* CancelledError, unless the recorder refused the status.
NothingLeftBehind ==
    pc = "end" =>
        /\ Pending(tasks) # {} /\ outcome # "timeout" => {"join", "tasks"} \cap interrupted # {}
        /\ late = 0 /\ clears =>
              /\ Pending(tasks) # {} => outcome = "timeout"
              /\ recorded # "due" /\ (recorded = "cancelled" => raised)

\* No cancellation by the host is lost: the task's count and what the protected awaits
\* suppressed always add up to the requests made, and when the run is left one of them
\* is raised by it or pending in the task, unless it hit the close of a stream, which
\* swallows it.  A recorder that refuses the status does not lose it either.
CancelSurvives ==
    /\ cancelling + saved + savedIn = late + (IF runCancelled THEN 1 ELSE 0)
    /\ pc = "end" /\ (runCancelled \/ late > 0) => raised \/ must \/ "closing" \in interrupted

\* Once the run is left its cleanup ends, or is held in one of the four awaits that
\* nothing bounds: a wait's task that ignores its cancellation, a recorder that does not
\* return, an observer or a stream that swallows what is to end it.  Full queues, slow
\* streams, stubborn tasks of the scope and any cancellation only delay it.  A second
\* closer of the scope is let go too, unless a cancellation took the first one out of
\* its wait.
CleanupEnds ==
    /\ ~Running ~> (pc = "end" \/ Held)
    /\ second = "waiting" ~> (second # "waiting" \/ "tasks" \in interrupted \/ Held)


-----------------------------------------------------------------------------
(* The inductive invariants behind the properties *)

Early == {"setup", "body", "handling", "unwind", "finalize", "finalizing", "commit", "observe"}

\* Only two awaits are protected twice; a request that is not taken back is about to be
\* raised; and a task nobody cancels again owes nothing but what it suppressed.
AsyncInv ==
    /\ pc \notin {"join", "closing"} => savedIn = 0
    /\ Running => cancelling = 0 /\ saved = 0 /\ late = 0 /\ ~runCancelled
    /\ pc = "commit" => saved = 0 /\ runCancelled
    /\ pc \in {"scope", "closing", "tasks"} /\ cancelling > 0 => must \/ "closing" \in interrupted
    /\ pc \notin {"commit", "end"} /\ late = 0 =>
          cancelling = 0 /\ savedIn = 0 /\ (clears \/ Running => ~must)

\* A cancellation is on its way through the except clauses, only two awaits can be left
\* without closing the scope, and a cleanup that is not interrupted takes every step.
LeftInv ==
    /\ Running => recorded = "none"
    /\ pc \in {"unwind", "finalize", "finalizing"} => runCancelled /\ raised
    /\ pc = "commit" => recorded = "refused"
    /\ recorded = "due" /\ late = 0 /\ clears => pc \in {"unwind", "finalize", "finalizing"}
    /\ recorded = "cancelled" => raised
    /\ pc = "end" /\ outcome = "none" => {"join", "tasks"} \cap interrupted # {}
    /\ pc = "end" /\ late = 0 /\ clears => outcome # "none"

\* The scope closes its streams one by one, then its tasks.
ScopeInv ==
    /\ outcome # "none" => pc = "end"
    /\ Len(closes) <= NStreams /\ (pc = "closing" => StreamsLeft)
    /\ pc = "tasks" => ~StreamsLeft /\ \A t \in Tasks : tasks[t] # "running"

\* The queue holds what was accepted and not delivered, and behind it the sentinel of a
\* closed observer.
QueueInv ==
    LET n == Len(accepted) - Len(delivered) IN
    /\ pc \in Early => ~closed
    /\ \A i \in 1 .. Len(accepted) : accepted[i] \in 1 .. offered
    /\ \A i, j \in 1 .. Len(accepted) : i < j => accepted[i] < accepted[j]
    /\ n >= 0 /\ Len(queue) \in {n, n + 1}
    /\ \A i \in 1 .. Len(delivered) : delivered[i] = accepted[i]
    /\ \A i \in 1 .. Len(queue) : i <= n => queue[i] = accepted[Len(delivered) + i]
    /\ Len(queue) = n + 1 => closed /\ queue[n + 1] = Sentinel
    /\ pump = "cancelled" => forced
    /\ pump = "done" /\ ~forced => closed /\ queue = <<>> /\ n = 0

CleanupInv ==
    /\ TypeOK /\ AsyncInv /\ LeftInv /\ ScopeInv /\ QueueInv
    /\ ReportIsHonest /\ CancelSurvives

=============================================================================
