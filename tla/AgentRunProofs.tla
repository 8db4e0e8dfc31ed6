---------------------------- MODULE AgentRunProofs ----------------------------
(***************************************************************************)
(* What AgentRun promises for every value of its constants.                *)
(*                                                                         *)
(* TypeOK is inductive by itself.  EndInv says what is true of the way out *)
(* (a terminal, an exception, a call in flight, a failed write) and gives  *)
(* the properties of the terminal event; LoopInv says what is true of the  *)
(* way through a step and gives the properties of requests, answers and    *)
(* calls.  Each is proved inductive relative to TypeOK, action by action.  *)
(***************************************************************************)
EXTENDS AgentRun, FiniteSetTheorems, TLAPS

USE DEF request, control, steps, model, ledger, batch, tool, decision, facts, recorder, effects, terminal,
      loop, vars

-----------------------------------------------------------------------------
(* Types *)

\* The places an action may send the run to, so that the set need not be expanded.
LEMMA LocationNames ==
    {"app", "resolve", "begin", "inputs", "allocate", "prepare", "preparing", "attempt", "stream", "retry",
     "final", "dispatch", "batch", "recordCalls", "call", "calling", "results", "policy",
     "complete", "recordText", "completing", "decide", "succeed",
     "unwind", "handle", "commit", "cleanup", "done"} \subseteq Locations
BY DEF Locations

\* Append, for the two logs of the run.
LEMMA AppendType == ASSUME NEW S, NEW s \in Seq(S), NEW x \in S PROVE Append(s, x) \in Seq(S)
OBVIOUS

\* first_reason is a reason or none.
LEMMA ReasonType == ControlType => FirstReason \in Reasons \cup {"none"}
BY DEF ControlType, FirstReason, Reasons, Closed

\* The terminals the code builds are well formed.
LEMMA EndingType ==
    ASSUME NEW s \in Status, NEW l \in {"body", "handler", "outer", "reraise"},
           NEW r \in Reasons \cup {"none"}
    PROVE  [status |-> s, level |-> l, reason |-> r, work |-> {}] \in Ending
BY DEF Ending

\* What a raised exception leaves behind.
Raised == /\ pc' \in {"unwind", "handle"}
          /\ ending' \in Ending /\ ending'.status \in {"failed", "cancelled"}
          /\ UNCHANGED <<held, yielded, published>>

\* An exception leaves the run unwinding or in its handler, with a failed or cancelled ending.
LEMMA RaiseType ==
    ASSUME NEW s \in {"failed", "cancelled"}, NEW l \in {"body", "handler", "outer", "reraise"},
           NEW r \in Reasons \cup {"none"}, Raise(s, l, r)
    PROVE  Raised
<1>1. s \in Status BY DEF Status
<1> QED BY <1>1, EndingType DEF Raise, Raised

\* A failure and a failed write are such exceptions.
LEMMA FailType == (Fail => Raised) /\ (WriteFails => Raised)
BY RaiseType DEF Fail, WriteFails

\* So are the ways a stop is raised.
LEMMA StoppedType ==
    ASSUME ControlType
    PROVE  /\ RaiseStopped => Raised
           /\ RaiseEarly("failed") => Raised
           /\ RaiseEarly("cancelled") => Raised
BY ReasonType, RaiseType DEF RaiseStopped, RaiseEarly

\* So is the end of a wait on work that was cancelled.
LEMMA WorkCancelledType == ASSUME ControlType, WorkCancelled PROVE Raised
<1>1. Catcher \in {"outer", "handler"} BY DEF Catcher
<1>2. (IF Stopped THEN FirstReason ELSE "host_cancel") \in Reasons \cup {"none"}
    BY ReasonType DEF Reasons
<1> QED BY <1>1, <1>2, RaiseType DEF WorkCancelled

\* A lapse that is noted is one of the two kinds.
LEMMA LapseType ==
    ASSUME ControlType, UNCHANGED <<stops, first, late>>,
           lapses' \in {lapses, lapses \cup {"silence"}, lapses \cup {"work_cancelled"}}
    PROVE  ControlType'
BY DEF ControlType

\* A raised exception keeps the types of the program counter and of the terminal.
LEMMA RaisedType == WhereType /\ TerminalType /\ Raised => WhereType' /\ TerminalType'
BY LocationNames DEF WhereType, TerminalType, Raised

\* So does an event, of the program counter.
LEMMA EmitType ==
    ASSUME WhereType, NEW e \in Events, NEW n \in Locations, Emit(e, n)
    PROVE  WhereType'
BY LocationNames DEF Emit, WhereType

\* What a step leaves alone keeps its type.
LEMMA UnchangedTypes ==
    ASSUME TypeOK
    PROVE  /\ UNCHANGED <<pc, held>> => WhereType'
           /\ UNCHANGED request => RequestType'
           /\ UNCHANGED control => ControlType'
           /\ UNCHANGED steps => StepsType'
           /\ UNCHANGED model => ModelType'
           /\ UNCHANGED ledger => LedgerType'
           /\ UNCHANGED batch => BatchType'
           /\ UNCHANGED tool => ToolType'
           /\ UNCHANGED decision => DecisionType'
           /\ UNCHANGED facts => FactsType'
           /\ UNCHANGED <<status, faults>> => LogType'
           /\ UNCHANGED effects => EffectsType'
           /\ UNCHANGED terminal => TerminalType'
BY DEF TypeOK, WhereType, RequestType, ControlType, StepsType, ModelType, LedgerType, BatchType, ToolType,
       DecisionType, FactsType, LogType, EffectsType, TerminalType

\* A recorder call that was cancelled half way leaves well-typed facts.
LEMMA MaybeWrittenType == TypeOK /\ MaybeWritten => FactsType'
<1> SUFFICES ASSUME TypeOK, MaybeWritten PROVE FactsType' OBVIOUS
<1>1. inputs' \in Nat BY DEF TypeOK, FactsType, MaybeWritten
<1>2. finals' \subseteq Nat \X Nat BY DEF TypeOK, FactsType, StepsType, ModelType, MaybeWritten
<1>3. batches' \subseteq Nat \X BOOLEAN BY DEF TypeOK, FactsType, StepsType, MaybeWritten
<1>4. answered' \subseteq Nat BY DEF TypeOK, FactsType, StepsType, MaybeWritten
<1> QED BY <1>1, <1>2, <1>3, <1>4 DEF FactsType

\* Every step keeps every part of the type invariant; the leaves name the parts it can disturb.
LEMMA TypeNext == TypeOK /\ [Next]_vars => TypeOK'
<1> SUFFICES ASSUME TypeOK, [Next]_vars PROVE TypeOK' OBVIOUS
<1> USE DEF TypeOK
<1>1. CASE Start
  <2>1. WhereType' /\ TerminalType'
      BY <1>1, LocationNames, RaisedType, StoppedType DEF Start, Running, WhereType, TerminalType
  <2> QED BY <1>1, <2>1, UnchangedTypes DEF Start
<1>2. CASE RunStarted
  <2>1. WhereType' BY <1>2, LocationNames DEF RunStarted, Running, WhereType, Events
  <2> QED BY <1>2, <2>1, UnchangedTypes DEF RunStarted
<1>3. CASE RecordInput
  <2>1. WhereType' /\ TerminalType'
      BY <1>3, LocationNames, RaisedType, FailType DEF RecordInput, Running, WhereType, TerminalType
  <2>2. FactsType' BY <1>3 DEF RecordInput, Running, FactsType
  <2>3. LogType' BY <1>3 DEF RecordInput, Running, LogType, WriteFails
  <2> QED BY <1>3, <2>1, <2>2, <2>3, UnchangedTypes DEF RecordInput
<1>4. CASE InputsRecorded
  <2>1. WhereType' BY <1>4, LocationNames DEF InputsRecorded, Running, WhereType
  <2>2. DecisionType' BY <1>4 DEF InputsRecorded, Running, DecisionType, Flows
  <2> QED BY <1>4, <2>1, <2>2, UnchangedTypes DEF InputsRecorded
<1>5. CASE Allocate
  <2>1. WhereType' /\ TerminalType'
      BY <1>5, LocationNames, RaisedType, FailType, StoppedType, EmitType DEF Allocate, Running,
        MayAllocate, EntryStep, Events, WhereType, TerminalType
  <2>2. StepsType' BY <1>5 DEF Allocate, Running, MayAllocate, EntryStep, StepsType
  <2> QED BY <1>5, <2>1, <2>2, UnchangedTypes DEF Allocate
<1>6. CASE BeginPrepare
  <2>1. WhereType' /\ TerminalType'
      BY <1>6, LocationNames, RaisedType, StoppedType DEF BeginPrepare, Running, WhereType, TerminalType
  <2> QED BY <1>6, <2>1, UnchangedTypes DEF BeginPrepare
<1>7. CASE BeginAttempt
  <2>1. WhereType' /\ TerminalType'
      BY <1>7, LocationNames, RaisedType, FailType, StoppedType DEF BeginAttempt, Running, WhereType,
        TerminalType
  <2>2. LedgerType' BY <1>7 DEF BeginAttempt, Running, LedgerType
  <2>3. ModelType'
    <3>1. attempt' \in Nat BY <1>7 DEF BeginAttempt, ModelType
    <3>2. outputs' \subseteq {"text", "reasoning"} BY <1>7 DEF BeginAttempt, ModelType
    <3>3. NoResult \in -1 .. MaxCalls BY Limits DEF NoResult
    <3>4. pending' \in {pending, NoResult} BY <1>7 DEF BeginAttempt
    <3> QED BY <3>1, <3>2, <3>3, <3>4 DEF ModelType
  <2>4. EffectsType' BY <1>7 DEF BeginAttempt, Running, EffectsType, StepsType, ModelType, BatchType
  <2> QED BY <1>7, <2>1, <2>2, <2>3, <2>4, UnchangedTypes DEF BeginAttempt
<1>8. CASE Retry
  <2>1. WhereType' /\ TerminalType'
      BY <1>8, LocationNames, RaisedType, FailType DEF Retry, Running, WhereType, TerminalType
  <2> QED BY <1>8, <2>1, UnchangedTypes DEF Retry
<1>9. CASE RecordFinal
  <2>1. WhereType' /\ TerminalType'
      BY <1>9, LocationNames, RaisedType, FailType, EmitType DEF RecordFinal, Running, Events, WhereType,
        TerminalType
  <2>2. FactsType' BY <1>9 DEF RecordFinal, Running, FactsType, StepsType, ModelType, BatchType
  <2>3. LogType' BY <1>9 DEF RecordFinal, Running, LogType, WriteFails
  <2> QED BY <1>9, <2>1, <2>2, <2>3, UnchangedTypes DEF RecordFinal
<1>10. CASE Dispatch
  <2>1. WhereType' BY <1>10, LocationNames, EmitType DEF Dispatch, Running, Events, WhereType
  <2>2. BatchType' BY <1>10 DEF Dispatch, Running, BatchType, ModelType
  <2> QED BY <1>10, <2>1, <2>2, UnchangedTypes DEF Dispatch
<1>11. CASE BeginBatch
  <2>1. WhereType' /\ TerminalType'
      BY <1>11, LocationNames, RaisedType, FailType, StoppedType DEF BeginBatch, Running, WhereType,
        TerminalType
  <2> QED BY <1>11, <2>1, UnchangedTypes DEF BeginBatch
<1>12. CASE RecordCalls
  <2>1. WhereType' /\ TerminalType'
      BY <1>12, LocationNames, RaisedType, FailType, EmitType DEF RecordCalls, Running, Events, WhereType,
        TerminalType
  <2>2. FactsType' BY <1>12 DEF RecordCalls, Running, FactsType, StepsType, ModelType, BatchType
  <2>3. BatchType' BY <1>12 DEF RecordCalls, Running, BatchType
  <2>4. LogType' BY <1>12 DEF RecordCalls, Running, LogType, WriteFails
  <2> QED BY <1>12, <2>1, <2>2, <2>3, <2>4, UnchangedTypes DEF RecordCalls
<1>13. CASE InvokeTool
  <2>1. WhereType' /\ TerminalType'
      BY <1>13, LocationNames, RaisedType, StoppedType DEF InvokeTool, Running, WhereType, TerminalType
  <2>2. EffectsType'
    <3>1. <<stepNo, nextCall>> \in Nat \X Nat BY DEF StepsType, BatchType
    <3>2. invoked' \in {invoked, Append(invoked, <<stepNo, nextCall>>)} BY <1>13 DEF InvokeTool
    <3>3. invoked \in Seq(Nat \X Nat) BY DEF EffectsType
    <3>4. Append(invoked, <<stepNo, nextCall>>) \in Seq(Nat \X Nat) BY <3>1, <3>3, AppendType
    <3>5. invoked' \in Seq(Nat \X Nat) BY <3>2, <3>3, <3>4, Zenon
    <3> QED BY <1>13, <3>5 DEF InvokeTool, EffectsType
  <2>3. ToolType' BY <1>13 DEF InvokeTool, Running, ToolType
  <2> QED BY <1>13, <2>1, <2>2, <2>3, UnchangedTypes DEF InvokeTool
<1>14. CASE EmitReport
  <2>1. WhereType' BY <1>14, LocationNames, EmitType DEF EmitReport, Running, Events, WhereType
  <2>2. ToolType' BY <1>14 DEF EmitReport, Running, ToolType
  <2> QED BY <1>14, <2>1, <2>2, UnchangedTypes DEF EmitReport
<1>15. CASE ToolResult
  <2>1. WhereType' BY <1>15, LocationNames, EmitType DEF ToolResult, Running, Events, WhereType
  <2>2. ToolType' BY <1>15 DEF ToolResult, Running, ToolType
  <2>3. BatchType' BY <1>15 DEF ToolResult, Running, BatchType
  <2> QED BY <1>15, <2>1, <2>2, <2>3, UnchangedTypes DEF ToolResult
<1>16. CASE ToolRaised
  <2>1. WhereType' /\ TerminalType'
      BY <1>16, LocationNames, RaisedType, FailType DEF ToolRaised, Running, WhereType, TerminalType
  <2> QED BY <1>16, <2>1, UnchangedTypes DEF ToolRaised
<1>17. CASE CallsDone
  <2>1. WhereType' BY <1>17, LocationNames DEF CallsDone, Running, WhereType
  <2> QED BY <1>17, <2>1, UnchangedTypes DEF CallsDone
<1>18. CASE RecordResults
  <2>1. WhereType' /\ TerminalType'
      BY <1>18, LocationNames, RaisedType, FailType DEF RecordResults, Running, WhereType, TerminalType
  <2>2. FactsType' BY <1>18 DEF RecordResults, Running, FactsType, StepsType, ModelType, BatchType
  <2>3. LogType' BY <1>18 DEF RecordResults, Running, LogType, WriteFails
  <2> QED BY <1>18, <2>1, <2>2, <2>3, UnchangedTypes DEF RecordResults
<1>19. CASE BeginCompletion
  <2>1. WhereType' /\ TerminalType'
      BY <1>19, LocationNames, RaisedType, StoppedType DEF BeginCompletion, Running, WhereType, TerminalType
  <2> QED BY <1>19, <2>1, UnchangedTypes DEF BeginCompletion
<1>20. CASE RecordText
  <2>1. WhereType' /\ TerminalType'
      BY <1>20, LocationNames, RaisedType, FailType DEF RecordText, Running, WhereType, TerminalType
  <2>2. LogType' BY <1>20 DEF RecordText, Running, LogType, WriteFails
  <2> QED BY <1>20, <2>1, <2>2, UnchangedTypes DEF RecordText
<1>21. CASE Decide
  <2>1. WhereType' /\ TerminalType'
      BY <1>21, LocationNames, RaisedType, FailType, EndingType DEF Decide, Running, InEntryBatch, Ends,
        Status, WhereType, TerminalType
  <2>2. DecisionType' BY <1>21 DEF Decide, Running, InEntryBatch, Ends, DecisionType, Flows
  <2> QED BY <1>21, <2>1, <2>2, UnchangedTypes DEF Decide
<1>22. CASE Succeed
  <2>1. WhereType' /\ TerminalType'
      BY <1>22, LocationNames, EndingType DEF Succeed, Running, Status, WhereType, TerminalType
  <2> QED BY <1>22, <2>1, UnchangedTypes DEF Succeed
<1>23. CASE Unwound
  <2>1. WhereType' BY <1>23, LocationNames DEF Unwound, WhereType
  <2> QED BY <1>23, <2>1, UnchangedTypes DEF Unwound
<1>24. CASE Handle
  <2>1. WhereType' /\ TerminalType'
      BY <1>24, LocationNames, ReasonType DEF Handle, Running, WhereType, TerminalType, Ending,
        EffectsType, Stopped
  <2>2. ToolType' BY <1>24 DEF Handle, Running, ToolType
  <2> QED BY <1>24, <2>1, <2>2, UnchangedTypes DEF Handle
<1>25. CASE Commit
  <2>1. WhereType' /\ TerminalType'
      BY <1>25, LocationNames DEF Commit, Running, WhereType, TerminalType, Events
  <2>2. LogType' BY <1>25 DEF Commit, Running, LogType, TerminalType, Ending
  <2> QED BY <1>25, <2>1, <2>2, UnchangedTypes DEF Commit
<1>26. CASE CommitFails
  <2>1. WhereType' /\ TerminalType'
      BY <1>26, LocationNames, RaisedType, RaiseType, ReasonType DEF CommitFails, Running, WhereType,
        TerminalType
  <2>2. LogType' BY <1>26 DEF CommitFails, Running, LogType
  <2> QED BY <1>26, <2>1, <2>2, UnchangedTypes DEF CommitFails
<1>27. CASE Cleanup
  <2>1. WhereType' BY <1>27, LocationNames DEF Cleanup, Running, WhereType
  <2>2. ControlType' BY <1>27, Limits DEF Cleanup, Running, ControlType, Trigger, Reasons, Closed
  <2>3. ToolType' BY <1>27 DEF Cleanup, Running, ToolType
  <2> QED BY <1>27, <2>1, <2>2, <2>3, UnchangedTypes DEF Cleanup
<1>28. CASE ApplicationRead
  <2>1. WhereType' /\ TerminalType'
      BY <1>28, LocationNames, RaisedType, StoppedType, WorkCancelledType DEF ApplicationRead, Running, WhereType,
        TerminalType
  <2>2. ControlType' BY <1>28, LapseType DEF ApplicationRead, WorkCancelled
  <2> QED BY <1>28, <2>1, <2>2, UnchangedTypes DEF ApplicationRead
<1>29. CASE Resolved
  <2>1. WhereType' /\ TerminalType'
      BY <1>29, LocationNames, RaisedType, StoppedType, WorkCancelledType DEF Resolved, Running, WhereType,
        TerminalType
  <2>2. ControlType' BY <1>29, LapseType DEF Resolved, WorkCancelled
  <2> QED BY <1>29, <2>1, <2>2, UnchangedTypes DEF Resolved
<1>30. CASE Prepared
  <2>1. WhereType' /\ TerminalType'
      BY <1>30, LocationNames, RaisedType, FailType, WorkCancelledType DEF Prepared, Running, InEntryBatch,
        WhereType, TerminalType
  <2>2. ModelType'
    <3>1. attempt' \in Nat BY <1>30 DEF Prepared, ModelType
    <3>2. outputs' \subseteq {"text", "reasoning"} BY <1>30 DEF Prepared, ModelType
    <3>3. pending' = pending BY <1>30 DEF Prepared
    <3> QED BY <3>1, <3>2, <3>3 DEF ModelType
  <2>3. LedgerType' BY <1>30, Limits DEF Prepared, Running, InEntryBatch, LedgerType
  <2>4. ControlType' BY <1>30, LapseType DEF Prepared, WorkCancelled
  <2> QED BY <1>30, <2>1, <2>2, <2>3, <2>4, UnchangedTypes DEF Prepared
<1>31. CASE ModelDelta
  <2>1. WhereType' /\ TerminalType'
      BY <1>31, LocationNames, RaisedType, FailType, EmitType DEF ModelDelta, Running, Events, WhereType,
        TerminalType
  <2>2. ModelType' BY <1>31 DEF ModelDelta, Running, ModelType, NoResult
  <2>3. LogType' BY <1>31 DEF ModelDelta, Running, LogType, WriteFails
  <2> QED BY <1>31, <2>1, <2>2, <2>3, UnchangedTypes DEF ModelDelta
<1>32. CASE ModelResult
  <2>1. ModelType' BY <1>32, Limits DEF ModelResult, Running, ModelType, NoResult
  <2> QED BY <1>32, <2>1, UnchangedTypes DEF ModelResult
<1>33. CASE ModelProtocolError
  <2>1. WhereType' /\ TerminalType'
      BY <1>33, LocationNames, RaisedType, FailType DEF ModelProtocolError, Running, WhereType, TerminalType
  <2> QED BY <1>33, <2>1, UnchangedTypes DEF ModelProtocolError
<1>34. CASE ModelAdapterError
  <2>1. WhereType' /\ TerminalType'
      BY <1>34, LocationNames, RaisedType, FailType DEF ModelAdapterError, Running, WhereType, TerminalType
  <2> QED BY <1>34, <2>1, UnchangedTypes DEF ModelAdapterError
<1>35. CASE ModelStreamEnds
  <2>1. WhereType' BY <1>35, LocationNames DEF ModelStreamEnds, Running, WhereType
  <2> QED BY <1>35, <2>1, UnchangedTypes DEF ModelStreamEnds
<1>36. CASE ToolReports
  <2>1. ToolType' BY <1>36 DEF ToolReports, ToolType
  <2>2. EffectsType' BY <1>36 DEF ToolReports, EffectsType, StepsType, ModelType, BatchType
  <2> QED BY <1>36, <2>1, <2>2, UnchangedTypes DEF ToolReports
<1>37. CASE ToolEnds
  <2>1. ToolType' BY <1>37 DEF ToolEnds, ToolType
  <2> QED BY <1>37, <2>1, UnchangedTypes DEF ToolEnds
<1>38. CASE ApplyPolicy
  <2>1. WhereType' /\ TerminalType'
      BY <1>38, LocationNames, RaisedType, FailType, EmitType DEF ApplyPolicy, Running, Events, WhereType,
        TerminalType
  <2>2. DecisionType' BY <1>38 DEF ApplyPolicy, Running, DecisionType, Flows
  <2>3. LogType' BY <1>38 DEF ApplyPolicy, Running, LogType, WriteFails
  <2> QED BY <1>38, <2>1, <2>2, <2>3, UnchangedTypes DEF ApplyPolicy
<1>39. CASE ApplyCompletion
  <2>1. WhereType' /\ TerminalType'
      BY <1>39, LocationNames, RaisedType, FailType, EmitType DEF ApplyCompletion, Running, Events,
        WhereType, TerminalType
  <2>2. DecisionType' BY <1>39 DEF ApplyCompletion, Running, DecisionType, Flows
  <2>3. LogType' BY <1>39 DEF ApplyCompletion, Running, LogType, WriteFails
  <2> QED BY <1>39, <2>1, <2>2, <2>3, UnchangedTypes DEF ApplyCompletion
<1>40. CASE Interrupted
  <2>1. WhereType' /\ TerminalType'
      BY <1>40, LocationNames, RaisedType, RaiseType, ReasonType DEF Interrupted, Waiting, Catcher,
        MaybeWritten, WhereType, TerminalType, Stopped, Reasons
  <2>2. FactsType' BY <1>40, MaybeWrittenType DEF Interrupted
  <2>3. ControlType' BY <1>40, LapseType DEF Interrupted
  <2> QED BY <1>40, <2>1, <2>2, <2>3, UnchangedTypes DEF Interrupted
<1>41. CASE TaskCancelled
  <2>1. WhereType' /\ TerminalType'
      BY <1>41, LocationNames, RaisedType, RaiseType, ReasonType DEF TaskCancelled, Running, Waiting,
        MaybeWritten, WhereType, TerminalType
  <2>2. FactsType' BY <1>41, MaybeWrittenType DEF TaskCancelled
  <2> QED BY <1>41, <2>1, <2>2, UnchangedTypes DEF TaskCancelled
<1>42. CASE CommitCancelled
  <2>1. WhereType' /\ TerminalType'
      BY <1>42, LocationNames, RaisedType, RaiseType, ReasonType DEF CommitCancelled, Running, WhereType,
        TerminalType
  <2>2. LogType' BY <1>42 DEF CommitCancelled, Running, LogType, TerminalType, Ending
  <2> QED BY <1>42, <2>1, <2>2, UnchangedTypes DEF CommitCancelled
<1>43. CASE ToolCancelled
  <2>1. ToolType' BY <1>43 DEF ToolCancelled, ToolType
  <2> QED BY <1>43, <2>1, UnchangedTypes DEF ToolCancelled
<1>44. CASE StopRequested
  <2>1. ControlType' BY <1>44, Limits DEF StopRequested, ControlType, Trigger, Reasons, Closed
  <2> QED BY <1>44, <2>1, UnchangedTypes DEF StopRequested
<1>45. CASE DeadlinePasses
  <2>1. ControlType' BY <1>45, Limits DEF DeadlinePasses, ControlType, Trigger, Reasons, Closed
  <2> QED BY <1>45, <2>1, UnchangedTypes DEF DeadlinePasses
<1>46. CASE Pull
  <2>1. WhereType' BY <1>46, LocationNames DEF Pull, WhereType, Events
  <2> QED BY <1>46, <2>1, UnchangedTypes DEF Pull
<1>47. CASE ConsumerCloses
  <2>1. WhereType' BY <1>47, LocationNames DEF ConsumerCloses, WhereType, Events
  <2> QED BY <1>47, <2>1, UnchangedTypes DEF ConsumerCloses
<1>48. CASE UNCHANGED vars BY <1>48, UnchangedTypes
<1> QED
    BY <1>1, <1>2, <1>3, <1>4, <1>5, <1>6, <1>7, <1>8, <1>9, <1>10, <1>11, <1>12, <1>13, <1>14, <1>15,
      <1>16, <1>17, <1>18, <1>19, <1>20, <1>21, <1>22, <1>23, <1>24, <1>25, <1>26, <1>27, <1>28, <1>29,
      <1>30, <1>31, <1>32, <1>33, <1>34, <1>35, <1>36, <1>37, <1>38, <1>39, <1>40, <1>41, <1>42, <1>43,
      <1>44, <1>45, <1>46, <1>47, <1>48 DEF Next, RunStep, Answer

\* A run that has not started is well typed.
LEMMA TypeInit == Init => TypeOK
<1> SUFFICES ASSUME Init PROVE TypeOK OBVIOUS
<1>1. WhereType BY DEF Init, WhereType, Locations, Events
<1>2. RequestType /\ ControlType /\ StepsType BY Limits DEF Init, RequestType, ControlType, StepsType
<1>3. ModelType /\ LedgerType /\ BatchType BY Limits DEF Init, ModelType, LedgerType, BatchType, NoResult
<1>4. ToolType /\ DecisionType BY DEF Init, ToolType, DecisionType, Flows
<1>5. FactsType /\ LogType /\ EffectsType BY DEF Init, FactsType, LogType, EffectsType
<1>6. TerminalType
  <2>1. ending \in Ending BY DEF Init, Ending, Status
  <2>2. published \in Seq(Ending) BY DEF Init
  <2> QED BY <2>1, <2>2 DEF Init, TerminalType
<1> QED BY <1>1, <1>2, <1>3, <1>4, <1>5, <1>6 DEF TypeOK

\* The run's locals, the ledger, the RunControl and the recorded facts keep their types
\* through every exception, cancellation and retry of the runner, the loop and the pipelines.
THEOREM TypeCorrect == Spec => []TypeOK
BY TypeInit, TypeNext, PTL DEF Spec

-----------------------------------------------------------------------------
(* The end of the run *)

\* EndInv is inductive: it is what the code keeps true so that the one terminal event
\* is right.  Commit alone publishes; every other step either stays away from the last
\* phase or enters it through an exception.
LEMMA EndNext == TypeOK /\ EndInv /\ [Next]_vars => EndInv'
<1> SUFFICES ASSUME TypeOK, EndInv, [Next]_vars PROVE EndInv' OBVIOUS
<1> USE DEF EndInv, PublishedInv, RaisedInv, SuccessInv, InFlightInv, CancelInv, FaultInv, StatusInv,
      ReturnedInv, DoneInv
<1>1. CASE Start BY <1>1 DEF Start, Running, Raise, RaiseEarly
<1>2. CASE RunStarted BY <1>2 DEF RunStarted, Running
<1>3. CASE RecordInput BY <1>3 DEF RecordInput, Running, Raise, Fail, WriteFails
<1>4. CASE InputsRecorded BY <1>4 DEF InputsRecorded, Running
<1>5. CASE Allocate BY <1>5 DEF Allocate, Running, Emit, Raise, Fail, RaiseStopped, Closed
<1>6. CASE BeginPrepare BY <1>6 DEF BeginPrepare, Running, Raise, RaiseStopped
<1>7. CASE BeginAttempt BY <1>7 DEF BeginAttempt, Running, Raise, Fail, RaiseStopped, Closed
<1>8. CASE Retry BY <1>8 DEF Retry, Running, Raise, Fail
<1>9. CASE RecordFinal BY <1>9 DEF RecordFinal, Running, Emit, Raise, Fail, WriteFails, Closed
<1>10. CASE Dispatch BY <1>10 DEF Dispatch, Running, Emit, Closed
<1>11. CASE BeginBatch BY <1>11 DEF BeginBatch, Running, Raise, Fail, RaiseStopped
<1>12. CASE RecordCalls BY <1>12 DEF RecordCalls, Running, Emit, Raise, Fail, WriteFails, Closed
<1>13. CASE InvokeTool BY <1>13 DEF InvokeTool, Running, Raise, RaiseStopped
<1>14. CASE EmitReport BY <1>14 DEF EmitReport, Running, Emit, Closed
<1>15. CASE ToolResult BY <1>15 DEF ToolResult, Running, Emit, Closed
<1>16. CASE ToolRaised BY <1>16 DEF ToolRaised, Running, Raise, Fail
<1>17. CASE CallsDone BY <1>17 DEF CallsDone, Running
<1>18. CASE RecordResults BY <1>18 DEF RecordResults, Running, Raise, Fail, WriteFails
<1>19. CASE BeginCompletion BY <1>19 DEF BeginCompletion, Running, Raise, RaiseStopped
<1>20. CASE RecordText BY <1>20 DEF RecordText, Running, Raise, Fail, WriteFails
<1>21. CASE Decide BY <1>21 DEF Decide, Running, Raise, Fail, Closed
<1>22. CASE Succeed BY <1>22 DEF Succeed, Running
<1>23. CASE Unwound BY <1>23 DEF Unwound
<1>24. CASE Handle BY <1>24 DEF Handle, Running
<1>25. CASE Commit
  <2>1. published = <<>> BY <1>25 DEF Commit, Running
  <2>2. published' \in {<<>>, <<ending>>} BY <1>25, <2>1 DEF Commit
  <2>3. published' # <<>> => Shows BY <1>25, <2>1 DEF Commit
  <2> QED BY <1>25, <2>2, <2>3 DEF Commit, Running, Shows, Closed
<1>26. CASE CommitFails BY <1>26 DEF CommitFails, Running, Raise
<1>27. CASE Cleanup BY <1>27 DEF Cleanup, Running, Trigger, Closed
<1>28. CASE ApplicationRead BY <1>28 DEF ApplicationRead, Running, Raise, RaiseEarly, WorkCancelled
<1>29. CASE Resolved BY <1>29 DEF Resolved, Running, Raise, RaiseEarly, WorkCancelled
<1>30. CASE Prepared BY <1>30 DEF Prepared, Running, Raise, Fail, WorkCancelled
<1>31. CASE ModelDelta BY <1>31 DEF ModelDelta, Running, Emit, Raise, Fail, WriteFails, Closed
<1>32. CASE ModelResult BY <1>32 DEF ModelResult, Running, Closed
<1>33. CASE ModelProtocolError BY <1>33 DEF ModelProtocolError, Running, Raise, Fail
<1>34. CASE ModelAdapterError BY <1>34 DEF ModelAdapterError, Running, Raise, Fail
<1>35. CASE ModelStreamEnds BY <1>35 DEF ModelStreamEnds, Running, Closed
<1>36. CASE ToolReports BY <1>36 DEF ToolReports
<1>37. CASE ToolEnds BY <1>37 DEF ToolEnds
<1>38. CASE ApplyPolicy BY <1>38 DEF ApplyPolicy, Running, Emit, Raise, Fail, WriteFails, Closed
<1>39. CASE ApplyCompletion BY <1>39 DEF ApplyCompletion, Running, Emit, Raise, Fail, WriteFails, Closed
<1>40. CASE Interrupted BY <1>40 DEF Interrupted, Raise, Waits, Waiting
<1>41. CASE TaskCancelled BY <1>41 DEF TaskCancelled, Running, Raise, Waits, Waiting
<1>42. CASE CommitCancelled BY <1>42 DEF CommitCancelled, Running, Raise
<1>43. CASE ToolCancelled BY <1>43 DEF ToolCancelled
<1>44. CASE StopRequested BY <1>44 DEF StopRequested, Trigger, Closed
<1>45. CASE DeadlinePasses BY <1>45 DEF DeadlinePasses
<1>46. CASE Pull BY <1>46 DEF Pull
<1>47. CASE ConsumerCloses BY <1>47 DEF ConsumerCloses
<1>48. CASE UNCHANGED vars BY <1>48
<1> QED
    BY <1>1, <1>2, <1>3, <1>4, <1>5, <1>6, <1>7, <1>8, <1>9, <1>10, <1>11, <1>12, <1>13, <1>14, <1>15,
      <1>16, <1>17, <1>18, <1>19, <1>20, <1>21, <1>22, <1>23, <1>24, <1>25, <1>26, <1>27, <1>28, <1>29,
      <1>30, <1>31, <1>32, <1>33, <1>34, <1>35, <1>36, <1>37, <1>38, <1>39, <1>40, <1>41, <1>42, <1>43,
      <1>44, <1>45, <1>46, <1>47, <1>48 DEF Next, RunStep, Answer

\* A run that has not started has published nothing.
LEMMA EndInit == Init => EndInv
BY DEF Init, EndInv, PublishedInv, RaisedInv, SuccessInv, InFlightInv, CancelInv, FaultInv, StatusInv,
       ReturnedInv, DoneInv

\* Whatever order stops, failed finalizations, cancellations and the consumer's close come in,
\* the runner's except clauses and _commit_terminal keep EndInv.
THEOREM EndCorrect == Spec => []EndInv
<1>1. TypeOK /\ EndInv /\ [Next]_vars => EndInv' BY EndNext
<1> QED BY <1>1, EndInit, TypeCorrect, PTL DEF Spec

\* _commit_terminal and yielded_terminal: at most one terminal event, and it is the
\* status the recorder holds.
THEOREM TerminalCorrect == Spec => []TerminalMatchesStatus
<1>1. EndInv => TerminalMatchesStatus
  <2>1. CASE published = <<>> BY <2>1 DEF TerminalMatchesStatus
  <2>2. CASE EndInv /\ published # <<>>
    <3>1. published = <<ending>> /\ status = ending.status BY <2>2 DEF EndInv, PublishedInv
    <3> QED BY <3>1 DEF TerminalMatchesStatus
  <2> QED BY <2>1, <2>2
<1> QED BY <1>1, EndCorrect, PTL

\* The runner's break, its except clauses and RunWaiting never publish as a success a
\* loop that did not run to its end.
THEOREM SuccessCorrect == Spec => []PublishedSuccessIsFinished
<1>1. EndInv => PublishedSuccessIsFinished BY DEF EndInv, PublishedInv, PublishedSuccessIsFinished
<1> QED BY <1>1, EndCorrect, PTL

\* A RunCancelled event carries all external work, and the call that was in flight has
\* been awaited (_invoke's finally).
THEOREM ExternalWorkCorrect == Spec => []ExternalWorkReported
<1>1. EndInv => ExternalWorkReported BY DEF EndInv, PublishedInv, ExternalWorkReported
<1> QED BY <1>1, EndCorrect, PTL

-----------------------------------------------------------------------------
(* The steps of the loop *)

\* The constants of the step and round counters are naturals.
LEMMA UsedType == StepsUsed \in Nat /\ RoundsUsed \in Nat /\ Attempts \in Nat
BY Limits

\* LoopInv is inductive.
LEMMA LoopNext == TypeOK /\ LoopInv /\ [Next]_vars => LoopInv'
<1> SUFFICES ASSUME TypeOK, LoopInv, [Next]_vars PROVE LoopInv' OBVIOUS
<1> USE UsedType DEF TypeOK, StepsType, LoopInv, CountInv, AnsweredInv, FinalsInv, BatchInv, InvokedInv,
      AttemptInv, InStep, HasAnswer
<1>1. CASE Start BY <1>1 DEF Start, Running, Raise, RaiseEarly, InEntryBatch
<1>2. CASE RunStarted BY <1>2 DEF RunStarted, Running, InEntryBatch
<1>3. CASE RecordInput BY <1>3 DEF RecordInput, Running, Raise, Fail, WriteFails, InEntryBatch
<1>4. CASE InputsRecorded BY <1>4 DEF InputsRecorded, Running, InEntryBatch
<1>5. CASE Allocate
  <2>1. CountInv' BY <1>5 DEF Allocate, Running, Emit, Raise, Fail, RaiseStopped, EntryStep
  <2>2. AnsweredInv' /\ BatchInv' BY <1>5 DEF Allocate, Running, Emit, Raise, Fail, RaiseStopped
  <2>3. FinalsInv' BY <1>5 DEF Allocate, Running, Emit, Raise, Fail, RaiseStopped, FactsType
  <2>4. InvokedInv'
    <3>1. stepNo <= stepNo' BY <1>5 DEF Allocate
    <3>2. pc' = "prepare" => stepNo' = stepNo + 1 BY <1>5 DEF Allocate, Emit, Raise, Fail, RaiseStopped
    <3>3. pc' \in {"prepare", "succeed", "unwind", "handle"}
          BY <1>5 DEF Allocate, Emit, Raise, Fail, RaiseStopped
    <3>4. \A i \in DOMAIN invoked : invoked[i][1] \in Nat BY DEF EffectsType
    <3> QED BY <1>5, <3>1, <3>2, <3>3, <3>4 DEF Allocate
  <2>5. AttemptInv'
      BY <1>5 DEF Allocate, Running, Emit, Raise, Fail, RaiseStopped, MayAllocate, EntryStep, InEntryBatch
  <2> QED BY <2>1, <2>2, <2>3, <2>4, <2>5
<1>6. CASE BeginPrepare BY <1>6 DEF BeginPrepare, Running, Raise, RaiseStopped, InEntryBatch
<1>7. CASE BeginAttempt BY <1>7 DEF BeginAttempt, Running, Raise, Fail, RaiseStopped, InEntryBatch
<1>8. CASE Retry BY <1>8 DEF Retry, Running, Raise, Fail, InEntryBatch
<1>9. CASE RecordFinal
  <2> USE DEF RecordFinal, Running, Emit, Raise, Fail, WriteFails
  <2>1. CountInv' /\ AnsweredInv' /\ InvokedInv' BY <1>9
  <2>2. FinalsInv' BY <1>9 DEF FactsType, ModelType
  <2>3. finals \subseteq finals' BY <1>9
  <2>4. pc' = "dispatch" => <<stepNo, attempt>> \in finals' BY <1>9
  <2>5. BatchInv'
    <3>1. \A m : HasAnswer(m) => HasAnswer(m)' BY <1>9, <2>3
    <3>2. pc' = "dispatch" => HasAnswer(stepNo)' BY <1>9, <2>4
    <3> QED BY <1>9, <3>1, <3>2
  <2>6. AttemptInv' BY <1>9 DEF InEntryBatch
  <2> QED BY <2>1, <2>2, <2>5, <2>6
<1>10. CASE Dispatch BY <1>10 DEF Dispatch, Running, Emit, InEntryBatch
<1>11. CASE BeginBatch BY <1>11 DEF BeginBatch, Running, Raise, Fail, RaiseStopped, InEntryBatch
<1>12. CASE RecordCalls BY <1>12 DEF RecordCalls, Running, Emit, Raise, Fail, WriteFails, InEntryBatch
<1>13. CASE InvokeTool
  <2>1. CountInv' /\ AnsweredInv' /\ FinalsInv' /\ BatchInv' /\ AttemptInv'
        BY <1>13 DEF InvokeTool, Running, Raise, RaiseStopped, InEntryBatch
  <2>2. CASE invoked' = invoked BY <1>13, <2>2 DEF InvokeTool, Running, Raise, RaiseStopped
  <2>3. CASE invoked' = Append(invoked, <<stepNo, nextCall>>) /\ pc' = "calling"
    <3>1. invoked \in Seq(Nat \X Nat) BY DEF EffectsType
    <3>2. \A i \in DOMAIN invoked' :
             invoked'[i] = <<stepNo, nextCall>> \/ (i \in DOMAIN invoked /\ invoked'[i] = invoked[i])
          BY <2>3, <3>1
    <3>3. nextCall \in Nat BY DEF BatchType
    <3>4. \A i \in DOMAIN invoked : invoked[i][1] <= stepNo /\ (invoked[i][1] < stepNo \/ invoked[i][2] < nextCall)
          BY <1>13 DEF InvokeTool, Running
    <3>5. \A i \in DOMAIN invoked : invoked[i][2] \in Nat BY <3>1
    <3>6. \A i \in DOMAIN invoked' : invoked'[i][1] <= stepNo /\ (invoked'[i][1] < stepNo \/ invoked'[i][2] <= nextCall)
      <4>1. stepNo <= stepNo /\ nextCall <= nextCall BY <3>3
      <4> QED BY <3>2, <3>3, <3>4, <3>5, <4>1
    <3>7. UNCHANGED <<stepNo, nextCall, batches>> BY <1>13 DEF InvokeTool
    <3>8. \E q \in BOOLEAN : <<stepNo, q>> \in batches BY <1>13 DEF InvokeTool, Running
    <3>9. InvokedInv' BY <2>3, <3>6, <3>7, <3>8
    <3> QED BY <2>1, <3>9
  <2> QED BY <1>13, <2>2, <2>3 DEF InvokeTool
<1>14. CASE EmitReport BY <1>14 DEF EmitReport, Running, Emit, InEntryBatch
<1>15. CASE ToolResult
  <2>1. CountInv' /\ AnsweredInv' /\ FinalsInv' /\ BatchInv' /\ AttemptInv'
        BY <1>15 DEF ToolResult, Running, Emit, InEntryBatch
  <2>2. \A i \in DOMAIN invoked : invoked[i][2] \in Nat BY DEF EffectsType
  <2>3. nextCall \in Nat BY DEF BatchType
  <2>4. pc' \in {"call", "succeed"} /\ nextCall' = nextCall + 1 /\ UNCHANGED <<stepNo, invoked, batches>>
        BY <1>15 DEF ToolResult, Running, Emit
  <2>5. \A i \in DOMAIN invoked : invoked[i][1] < stepNo \/ invoked[i][2] <= nextCall
        BY <1>15 DEF ToolResult, Running
  <2>6. \A i \in DOMAIN invoked : invoked[i][1] < stepNo \/ invoked[i][2] < nextCall + 1
        BY <2>2, <2>3, <2>5
  <2>7. \E q \in BOOLEAN : <<stepNo, q>> \in batches BY <1>15 DEF ToolResult, Running
  <2>8. InvokedInv' BY <2>4, <2>6, <2>7
  <2> QED BY <2>1, <2>8
<1>16. CASE ToolRaised BY <1>16 DEF ToolRaised, Running, Raise, Fail, InEntryBatch
<1>17. CASE CallsDone BY <1>17 DEF CallsDone, Running, InEntryBatch
<1>18. CASE RecordResults BY <1>18 DEF RecordResults, Running, Raise, Fail, WriteFails, InEntryBatch
<1>19. CASE BeginCompletion BY <1>19 DEF BeginCompletion, Running, Raise, RaiseStopped, InEntryBatch
<1>20. CASE RecordText BY <1>20 DEF RecordText, Running, Raise, Fail, WriteFails, InEntryBatch
<1>21. CASE Decide BY <1>21 DEF Decide, Running, Raise, Fail, InEntryBatch, Ends
<1>22. CASE Succeed BY <1>22 DEF Succeed, Running, InEntryBatch
<1>23. CASE Unwound BY <1>23 DEF Unwound, InEntryBatch
<1>24. CASE Handle BY <1>24 DEF Handle, Running, InEntryBatch
<1>25. CASE Commit BY <1>25 DEF Commit, Running, InEntryBatch
<1>26. CASE CommitFails BY <1>26 DEF CommitFails, Running, Raise, InEntryBatch
<1>27. CASE Cleanup BY <1>27 DEF Cleanup, Running, InEntryBatch
<1>28. CASE ApplicationRead BY <1>28 DEF ApplicationRead, Running, Raise, RaiseEarly, InEntryBatch, WorkCancelled
<1>29. CASE Resolved BY <1>29 DEF Resolved, Running, Raise, RaiseEarly, InEntryBatch, WorkCancelled
<1>30. CASE Prepared BY <1>30 DEF Prepared, Running, Raise, Fail, InEntryBatch, WorkCancelled
<1>31. CASE ModelDelta BY <1>31 DEF ModelDelta, Running, Emit, Raise, Fail, WriteFails, InEntryBatch
<1>32. CASE ModelResult BY <1>32 DEF ModelResult, Running, InEntryBatch
<1>33. CASE ModelProtocolError BY <1>33 DEF ModelProtocolError, Running, Raise, Fail, InEntryBatch
<1>34. CASE ModelAdapterError BY <1>34 DEF ModelAdapterError, Running, Raise, Fail, InEntryBatch
<1>35. CASE ModelStreamEnds BY <1>35 DEF ModelStreamEnds, Running, InEntryBatch
<1>36. CASE ToolReports BY <1>36 DEF ToolReports, InEntryBatch
<1>37. CASE ToolEnds BY <1>37 DEF ToolEnds, InEntryBatch
<1>38. CASE ApplyPolicy BY <1>38 DEF ApplyPolicy, Running, Emit, Raise, Fail, WriteFails, InEntryBatch
<1>39. CASE ApplyCompletion BY <1>39 DEF ApplyCompletion, Running, Emit, Raise, Fail, WriteFails, InEntryBatch
<1>40. CASE Interrupted BY <1>40 DEF Interrupted, Raise, Waits, Waiting, MaybeWritten, InEntryBatch
<1>41. CASE TaskCancelled
    BY <1>41 DEF TaskCancelled, Running, Raise, Waits, Waiting, MaybeWritten, InEntryBatch
<1>42. CASE CommitCancelled BY <1>42 DEF CommitCancelled, Running, Raise, InEntryBatch
<1>43. CASE ToolCancelled BY <1>43 DEF ToolCancelled, InEntryBatch
<1>44. CASE StopRequested BY <1>44 DEF StopRequested, InEntryBatch
<1>45. CASE DeadlinePasses BY <1>45 DEF DeadlinePasses, InEntryBatch
<1>46. CASE Pull BY <1>46 DEF Pull, InEntryBatch
<1>47. CASE ConsumerCloses BY <1>47 DEF ConsumerCloses, InEntryBatch
<1>48. CASE UNCHANGED vars BY <1>48 DEF InEntryBatch
<1> QED
    BY <1>1, <1>2, <1>3, <1>4, <1>5, <1>6, <1>7, <1>8, <1>9, <1>10, <1>11, <1>12, <1>13, <1>14, <1>15,
      <1>16, <1>17, <1>18, <1>19, <1>20, <1>21, <1>22, <1>23, <1>24, <1>25, <1>26, <1>27, <1>28, <1>29,
      <1>30, <1>31, <1>32, <1>33, <1>34, <1>35, <1>36, <1>37, <1>38, <1>39, <1>40, <1>41, <1>42, <1>43,
      <1>44, <1>45, <1>46, <1>47, <1>48 DEF Next, RunStep, Answer

\* Before the first step nothing is recorded or called.
LEMMA LoopInit == Init => LoopInv
BY UsedType DEF Init, LoopInv, CountInv, AnsweredInv, FinalsInv, BatchInv, InvokedInv, AttemptInv, InStep

\* AgentLoop.run and the pipelines keep LoopInv: steps, attempts, batches, results and calls
\* stay in the order the loop makes them.
THEOREM LoopCorrect == Spec => []LoopInv
<1>1. TypeOK /\ LoopInv /\ [Next]_vars => LoopInv' BY LoopNext
<1> QED BY <1>1, LoopInit, TypeCorrect, PTL DEF Spec

\* The model pipeline never sends a request while a batch of the transcript lacks its
\* results.
THEOREM ResultsBeforeRequests == Spec => []ModelSeesResults
<1>1. LoopInv => ModelSeesResults BY DEF LoopInv, AnsweredInv, InStep, ModelSeesResults
<1> QED BY <1>1, LoopCorrect, PTL

\* One final text per step, and calls only from the attempt that has it.
THEOREM OneAnswerCorrect == Spec => []OneAnswerPerStep
<1>1. LoopInv => OneAnswerPerStep BY DEF LoopInv, FinalsInv, BatchInv, HasAnswer, OneAnswerPerStep
<1> QED BY <1>1, LoopCorrect, PTL

-----------------------------------------------------------------------------
(* What a step may never do *)

\* What each action adds to the three action properties.
LEMMA StepFacts ==
    ASSUME FaultInv, Next
    PROVE  /\ Stopped => UNCHANGED <<requested, invoked>>
           /\ faults > 0 => /\ UNCHANGED <<requested, invoked, inputs, finals, batches, answered, stepNo>>
                            /\ status' \in {status, "failed", "cancelled"}
           /\ held' # held /\ Closed \in stops => held' \in {"none", "RunStarted"}
<1> USE DEF FaultInv
<1>1. CASE Start BY <1>1 DEF Start, Running, Raise, RaiseEarly
<1>2. CASE RunStarted BY <1>2 DEF RunStarted, Running
<1>3. CASE RecordInput BY <1>3 DEF RecordInput, Running, Raise, Fail, WriteFails
<1>4. CASE InputsRecorded BY <1>4 DEF InputsRecorded, Running
<1>5. CASE Allocate BY <1>5 DEF Allocate, Running, Emit, Raise, Fail, RaiseStopped
<1>6. CASE BeginPrepare BY <1>6 DEF BeginPrepare, Running, Raise, RaiseStopped
<1>7. CASE BeginAttempt BY <1>7 DEF BeginAttempt, Running, Raise, Fail, RaiseStopped
<1>8. CASE Retry BY <1>8 DEF Retry, Running, Raise, Fail
<1>9. CASE RecordFinal BY <1>9 DEF RecordFinal, Running, Emit, Raise, Fail, WriteFails
<1>10. CASE Dispatch BY <1>10 DEF Dispatch, Running, Emit
<1>11. CASE BeginBatch BY <1>11 DEF BeginBatch, Running, Raise, Fail, RaiseStopped
<1>12. CASE RecordCalls BY <1>12 DEF RecordCalls, Running, Emit, Raise, Fail, WriteFails
<1>13. CASE InvokeTool BY <1>13 DEF InvokeTool, Running, Raise, RaiseStopped
<1>14. CASE EmitReport BY <1>14 DEF EmitReport, Running, Emit
<1>15. CASE ToolResult BY <1>15 DEF ToolResult, Running, Emit
<1>16. CASE ToolRaised BY <1>16 DEF ToolRaised, Running, Raise, Fail
<1>17. CASE CallsDone BY <1>17 DEF CallsDone, Running
<1>18. CASE RecordResults BY <1>18 DEF RecordResults, Running, Raise, Fail, WriteFails
<1>19. CASE BeginCompletion BY <1>19 DEF BeginCompletion, Running, Raise, RaiseStopped
<1>20. CASE RecordText BY <1>20 DEF RecordText, Running, Raise, Fail, WriteFails
<1>21. CASE Decide BY <1>21 DEF Decide, Running, Raise, Fail
<1>22. CASE Succeed BY <1>22 DEF Succeed, Running
<1>23. CASE Unwound BY <1>23 DEF Unwound
<1>24. CASE Handle BY <1>24 DEF Handle, Running
<1>25. CASE Commit BY <1>25 DEF Commit, Running, Shows, Shows
<1>26. CASE CommitFails BY <1>26 DEF CommitFails, Running, Raise
<1>27. CASE Cleanup BY <1>27 DEF Cleanup, Running
<1>28. CASE ApplicationRead BY <1>28 DEF ApplicationRead, Running, Raise, RaiseEarly, WorkCancelled
<1>29. CASE Resolved BY <1>29 DEF Resolved, Running, Raise, RaiseEarly, WorkCancelled
<1>30. CASE Prepared BY <1>30 DEF Prepared, Running, Raise, Fail, WorkCancelled
<1>31. CASE ModelDelta BY <1>31 DEF ModelDelta, Running, Emit, Raise, Fail, WriteFails
<1>32. CASE ModelResult BY <1>32 DEF ModelResult, Running
<1>33. CASE ModelProtocolError BY <1>33 DEF ModelProtocolError, Running, Raise, Fail
<1>34. CASE ModelAdapterError BY <1>34 DEF ModelAdapterError, Running, Raise, Fail
<1>35. CASE ModelStreamEnds BY <1>35 DEF ModelStreamEnds, Running
<1>36. CASE ToolReports BY <1>36 DEF ToolReports
<1>37. CASE ToolEnds BY <1>37 DEF ToolEnds
<1>38. CASE ApplyPolicy BY <1>38 DEF ApplyPolicy, Running, Emit, Raise, Fail, WriteFails
<1>39. CASE ApplyCompletion BY <1>39 DEF ApplyCompletion, Running, Emit, Raise, Fail, WriteFails
<1>40. CASE Interrupted BY <1>40 DEF Interrupted, Raise, Waits, Waiting, MaybeWritten, Waits, Waiting
<1>41. CASE TaskCancelled BY <1>41 DEF TaskCancelled, Running, Raise, Waits, Waiting, MaybeWritten
<1>42. CASE CommitCancelled BY <1>42 DEF CommitCancelled, Running, Raise
<1>43. CASE ToolCancelled BY <1>43 DEF ToolCancelled
<1>44. CASE StopRequested BY <1>44 DEF StopRequested
<1>45. CASE DeadlinePasses BY <1>45 DEF DeadlinePasses
<1>46. CASE Pull BY <1>46 DEF Pull
<1>47. CASE ConsumerCloses BY <1>47 DEF ConsumerCloses, EndInv, DoneInv
<1> QED
    BY <1>1, <1>2, <1>3, <1>4, <1>5, <1>6, <1>7, <1>8, <1>9, <1>10, <1>11, <1>12, <1>13, <1>14, <1>15,
      <1>16, <1>17, <1>18, <1>19, <1>20, <1>21, <1>22, <1>23, <1>24, <1>25, <1>26, <1>27, <1>28, <1>29,
      <1>30, <1>31, <1>32, <1>33, <1>34, <1>35, <1>36, <1>37, <1>38, <1>39, <1>40, <1>41, <1>42, <1>43,
      <1>44, <1>45, <1>46, <1>47 DEF Next, RunStep, Answer


\* raise_if_stopped stands before every model request and every tool call.
THEOREM StopCorrect == Spec => StopHaltsEffects
<1>1. EndInv /\ [Next]_vars => [Stopped => UNCHANGED <<requested, invoked>>]_vars
      BY StepFacts DEF EndInv
<1> QED BY <1>1, EndCorrect, PTL DEF Spec, StopHaltsEffects

\* RecordingError is caught by no pipeline: a failed write leaves the runner only its
\* failed (or cancelled) terminal to commit.
THEOREM FaultCorrect == Spec => FaultHaltsRun
<1>1. EndInv /\ [Next]_vars =>
        [faults > 0 => /\ UNCHANGED <<requested, invoked, inputs, finals, batches, answered, stepNo>>
                       /\ status' \in {status, "failed", "cancelled"}]_vars
      BY StepFacts DEF EndInv
<1> QED BY <1>1, EndCorrect, PTL DEF Spec, FaultHaltsRun

\* The runner looks for a consumer that is gone before each event of the loop and
\* before its terminal.
THEOREM SilentCorrect == Spec => SilentAfterClose
<1>1. EndInv /\ [Next]_vars => [held' # held /\ Closed \in stops => held' \in {"none", "RunStarted"}]_vars
      BY StepFacts DEF EndInv
<1> QED BY <1>1, EndCorrect, PTL DEF Spec, SilentAfterClose

-----------------------------------------------------------------------------
(* Calls and budgets *)

\* Which actions call tools, request the model and count steps, and that a committed
\* batch stays committed.
LEMMA LoopFrame ==
    ASSUME Next
    PROVE  /\ InvokeTool \/ UNCHANGED invoked
           /\ BeginAttempt \/ UNCHANGED <<requested, reserved>>
           /\ Allocate \/ UNCHANGED steps
           /\ batches \subseteq batches'
<1>1. CASE Start BY <1>1 DEF Start
<1>2. CASE RunStarted BY <1>2 DEF RunStarted
<1>3. CASE RecordInput BY <1>3 DEF RecordInput
<1>4. CASE InputsRecorded BY <1>4 DEF InputsRecorded
<1>5. CASE Allocate BY <1>5 DEF Allocate
<1>6. CASE BeginPrepare BY <1>6 DEF BeginPrepare
<1>7. CASE BeginAttempt BY <1>7 DEF BeginAttempt
<1>8. CASE Retry BY <1>8 DEF Retry
<1>9. CASE RecordFinal BY <1>9 DEF RecordFinal
<1>10. CASE Dispatch BY <1>10 DEF Dispatch
<1>11. CASE BeginBatch BY <1>11 DEF BeginBatch
<1>12. CASE RecordCalls BY <1>12 DEF RecordCalls
<1>13. CASE InvokeTool BY <1>13 DEF InvokeTool
<1>14. CASE EmitReport BY <1>14 DEF EmitReport
<1>15. CASE ToolResult BY <1>15 DEF ToolResult
<1>16. CASE ToolRaised BY <1>16 DEF ToolRaised
<1>17. CASE CallsDone BY <1>17 DEF CallsDone
<1>18. CASE RecordResults BY <1>18 DEF RecordResults
<1>19. CASE BeginCompletion BY <1>19 DEF BeginCompletion
<1>20. CASE RecordText BY <1>20 DEF RecordText
<1>21. CASE Decide BY <1>21 DEF Decide
<1>22. CASE Succeed BY <1>22 DEF Succeed
<1>23. CASE Unwound BY <1>23 DEF Unwound
<1>24. CASE Handle BY <1>24 DEF Handle
<1>25. CASE Commit BY <1>25 DEF Commit
<1>26. CASE CommitFails BY <1>26 DEF CommitFails
<1>27. CASE Cleanup BY <1>27 DEF Cleanup
<1>28. CASE ApplicationRead BY <1>28 DEF ApplicationRead
<1>29. CASE Resolved BY <1>29 DEF Resolved
<1>30. CASE Prepared BY <1>30 DEF Prepared
<1>31. CASE ModelDelta BY <1>31 DEF ModelDelta
<1>32. CASE ModelResult BY <1>32 DEF ModelResult
<1>33. CASE ModelProtocolError BY <1>33 DEF ModelProtocolError
<1>34. CASE ModelAdapterError BY <1>34 DEF ModelAdapterError
<1>35. CASE ModelStreamEnds BY <1>35 DEF ModelStreamEnds
<1>36. CASE ToolReports BY <1>36 DEF ToolReports
<1>37. CASE ToolEnds BY <1>37 DEF ToolEnds
<1>38. CASE ApplyPolicy BY <1>38 DEF ApplyPolicy
<1>39. CASE ApplyCompletion BY <1>39 DEF ApplyCompletion
<1>40. CASE Interrupted BY <1>40 DEF Interrupted, MaybeWritten
<1>41. CASE TaskCancelled BY <1>41 DEF TaskCancelled, MaybeWritten
<1>42. CASE CommitCancelled BY <1>42 DEF CommitCancelled
<1>43. CASE ToolCancelled BY <1>43 DEF ToolCancelled
<1>44. CASE StopRequested BY <1>44 DEF StopRequested
<1>45. CASE DeadlinePasses BY <1>45 DEF DeadlinePasses
<1>46. CASE Pull BY <1>46 DEF Pull
<1>47. CASE ConsumerCloses BY <1>47 DEF ConsumerCloses, EndInv, DoneInv
<1> QED
    BY <1>1, <1>2, <1>3, <1>4, <1>5, <1>6, <1>7, <1>8, <1>9, <1>10, <1>11, <1>12, <1>13, <1>14, <1>15,
      <1>16, <1>17, <1>18, <1>19, <1>20, <1>21, <1>22, <1>23, <1>24, <1>25, <1>26, <1>27, <1>28, <1>29,
      <1>30, <1>31, <1>32, <1>33, <1>34, <1>35, <1>36, <1>37, <1>38, <1>39, <1>40, <1>41, <1>42, <1>43,
      <1>44, <1>45, <1>46, <1>47 DEF Next, RunStep, Answer


\* record_tool_calls comes before _invoke, and the for loop of _execute calls each
\* call of the batch once, in order.
THEOREM InvokedCorrect == Spec => []InvokedOnceAfterRecord
<1>1. Init => InvokedOnceAfterRecord BY DEF Init, InvokedOnceAfterRecord
<1>2. ASSUME TypeOK, LoopInv, InvokedOnceAfterRecord, [Next]_vars PROVE InvokedOnceAfterRecord'
  <2>1. CASE UNCHANGED vars BY <1>2, <2>1 DEF InvokedOnceAfterRecord
  <2>2. CASE Next /\ UNCHANGED invoked
    <3>1. batches \subseteq batches' BY <2>2, LoopFrame
    <3> QED BY <1>2, <2>2, <3>1 DEF InvokedOnceAfterRecord
  <2>3. CASE Next /\ InvokeTool /\ invoked' # invoked
    <3>1. /\ pc = "call" /\ batches' = batches
          /\ invoked' = Append(invoked, <<stepNo, nextCall>>)
          BY <2>3 DEF InvokeTool, Running
    <3>2. invoked \in Seq(Nat \X Nat) BY <1>2 DEF TypeOK, EffectsType
    <3>3. \A i \in DOMAIN invoked' :
             \/ i = Len(invoked) + 1 /\ invoked'[i] = <<stepNo, nextCall>>
             \/ i \in DOMAIN invoked /\ i <= Len(invoked) /\ invoked'[i] = invoked[i]
          BY <3>1, <3>2
    <3>4. \E q \in BOOLEAN : <<stepNo, q>> \in batches BY <1>2, <3>1 DEF LoopInv, InvokedInv
    <3>5. \A i \in DOMAIN invoked : invoked[i][1] <= stepNo /\ (invoked[i][1] < stepNo \/ invoked[i][2] < nextCall)
          BY <1>2, <3>1 DEF LoopInv, InvokedInv
    <3>6. \A i \in DOMAIN invoked : invoked[i][1] \in Nat BY <3>2
    <3>7. DOMAIN invoked' \subseteq Nat /\ Len(invoked) \in Nat /\ stepNo \in Nat
        BY <1>2, <3>1, <3>2 DEF TypeOK, StepsType
    <3>8. \A i \in DOMAIN invoked' : \E q \in BOOLEAN : <<invoked'[i][1], q>> \in batches'
          BY <1>2, <3>1, <3>3, <3>4 DEF InvokedOnceAfterRecord
    <3>9. \A i, j \in DOMAIN invoked' : i < j =>
             \/ invoked'[i][1] < invoked'[j][1]
             \/ invoked'[i][1] = invoked'[j][1] /\ invoked'[i][2] < invoked'[j][2]
      <4> TAKE i, j \in DOMAIN invoked'
      <4> HAVE i < j
      <4>1. i \in DOMAIN invoked /\ invoked'[i] = invoked[i] BY <3>3, <3>7
      <4>2. CASE j = Len(invoked) + 1 /\ invoked'[j] = <<stepNo, nextCall>> BY <3>5, <3>6, <3>7, <4>1, <4>2
      <4>3. CASE j \in DOMAIN invoked /\ invoked'[j] = invoked[j]
          BY <1>2, <4>1, <4>3 DEF InvokedOnceAfterRecord
      <4> QED BY <3>3, <4>2, <4>3
    <3> QED BY <3>8, <3>9 DEF InvokedOnceAfterRecord
  <2> QED BY <1>2, <2>1, <2>2, <2>3, LoopFrame
<1> QED BY <1>1, <1>2, LoopCorrect, TypeCorrect, PTL DEF Spec

\* The inductive form of BudgetsRespected: the set of requests is finite.
BudgetInv == IsFiniteSet(requested) /\ BudgetsRespected

\* AgentLoop.allocate, the ledger's reserve before each attempt and the attempt loop
\* keep a run within its limits, whatever it had consumed before.
THEOREM BudgetsCorrect == Spec => []BudgetsRespected
<1> USE Limits
<1>1. Init => BudgetInv
  <2> SUFFICES ASSUME Init PROVE BudgetInv OBVIOUS
  <2>1. requested = {} /\ IsFiniteSet({}) /\ Cardinality({}) = 0 BY FS_EmptySet DEF Init
  <2>2. \A e \in Estimates : e * 0 = 0 OBVIOUS
  <2> QED BY <2>1, <2>2 DEF Init, BudgetInv, BudgetsRespected
<1>2. ASSUME TypeOK, LoopInv, BudgetInv, [Next]_vars PROVE BudgetInv'
  <2>1. CASE UNCHANGED vars BY <1>2, <2>1 DEF BudgetInv, BudgetsRespected
  <2>2. CASE UNCHANGED <<requested, reserved, steps>> BY <1>2, <2>2 DEF BudgetInv, BudgetsRespected
  <2>3. CASE Allocate
    <3>1. UNCHANGED <<requested, reserved>> BY <2>3 DEF Allocate
    <3>2. stepNo' = stepNo \/ stepNo' <= MaxSteps BY <2>3 DEF Allocate, MayAllocate
    <3>3. rounds' = rounds \/ rounds' <= MaxRounds BY <2>3 DEF Allocate, MayAllocate
    <3> QED BY <1>2, <3>1, <3>2, <3>3 DEF BudgetInv, BudgetsRespected
  <2>4. CASE BeginAttempt /\ UNCHANGED <<requested, reserved>>
    <3>1. UNCHANGED steps BY <2>4 DEF BeginAttempt
    <3> QED BY <2>2, <2>4, <3>1
  <2>5. CASE BeginAttempt /\ ~UNCHANGED <<requested, reserved>>
    <3>1. /\ UNCHANGED steps /\ pc = "attempt"
          /\ reserved' = reserved + estimate /\ reserved + estimate <= TokenLimit
          /\ requested' = requested \cup {<<stepNo, attempt + 1>>}
          BY <1>2, <2>5 DEF BeginAttempt, Running, TypeOK, LedgerType
    <3>2. attempt \in Nat /\ attempt < Attempts /\ estimate \in Estimates /\ reserved \in Nat
          BY <1>2, <3>1 DEF TypeOK, ModelType, LedgerType, LoopInv, AttemptInv
    <3>3. IsFiniteSet(requested') BY <1>2, <3>1, FS_AddElement DEF BudgetInv
    <3>4. /\ Cardinality(requested) \in Nat
          /\ Cardinality(requested') \in {Cardinality(requested), Cardinality(requested) + 1}
          BY <1>2, <3>1, FS_AddElement, FS_CardinalityType DEF BudgetInv
    <3>5. \A r \in requested' : r[2] \in 1 .. Attempts
          BY <1>2, <3>1, <3>2 DEF BudgetInv, BudgetsRespected
    <3>6. ASSUME NEW e \in Estimates, \A x \in Estimates : e <= x
          PROVE  reserved' >= TokensUsed + e * Cardinality(requested')
      <4> DEFINE c == Cardinality(requested)
      <4>1. reserved >= TokensUsed + e * c BY <1>2, <3>6 DEF BudgetInv, BudgetsRespected
      <4>2. e <= estimate /\ e \in Nat /\ estimate \in Nat BY <3>2, <3>6
      <4>3. e * (c + 1) = e * c + e /\ e * c \in Nat BY <3>4, <4>2
      <4>4. Cardinality(requested') \in {c, c + 1} BY <3>4
      <4> HIDE DEF c
      <4> QED BY <3>1, <3>2, <4>1, <4>2, <4>3, <4>4
    <3> QED BY <1>2, <3>1, <3>3, <3>5, <3>6 DEF BudgetInv, BudgetsRespected
  <2> QED BY <1>2, <2>1, <2>2, <2>3, <2>4, <2>5, LoopFrame
<1>3. BudgetInv => BudgetsRespected BY DEF BudgetInv
<1> QED BY <1>1, <1>2, <1>3, LoopCorrect, TypeCorrect, PTL DEF Spec

-----------------------------------------------------------------------------
(* Why a run was cancelled *)

\* What RealReason will say of a reason after the step.
InForce(r) ==
    \/ r \in stops'
    \/ r = "deadline" /\ late'
    \/ r = "idle_timeout" /\ "silence" \in lapses'
    \/ r = "host_cancel" /\ "work_cancelled" \in lapses'

\* A reason that is in force stays in force, and the one the control names is.
LEMMA ReasonStays ==
    ASSUME ReasonInv, stops \subseteq stops', late => late', lapses \subseteq lapses'
    PROVE  /\ \A r : RealReason(r) => InForce(r)
           /\ Stopped => InForce(FirstReason)
BY DEF ReasonInv, RealReason, InForce, Stopped, FirstReason

\* Sources and lapses are only added, and the time does not come back.
LEMMA ControlGrows == Next => stops \subseteq stops' /\ (late => late') /\ lapses \subseteq lapses'
<1>1. CASE Start BY <1>1 DEF Start
<1>2. CASE RunStarted BY <1>2 DEF RunStarted
<1>3. CASE RecordInput BY <1>3 DEF RecordInput
<1>4. CASE InputsRecorded BY <1>4 DEF InputsRecorded
<1>5. CASE Allocate BY <1>5 DEF Allocate
<1>6. CASE BeginPrepare BY <1>6 DEF BeginPrepare
<1>7. CASE BeginAttempt BY <1>7 DEF BeginAttempt
<1>8. CASE Retry BY <1>8 DEF Retry
<1>9. CASE RecordFinal BY <1>9 DEF RecordFinal
<1>10. CASE Dispatch BY <1>10 DEF Dispatch
<1>11. CASE BeginBatch BY <1>11 DEF BeginBatch
<1>12. CASE RecordCalls BY <1>12 DEF RecordCalls
<1>13. CASE InvokeTool BY <1>13 DEF InvokeTool
<1>14. CASE EmitReport BY <1>14 DEF EmitReport
<1>15. CASE ToolResult BY <1>15 DEF ToolResult
<1>16. CASE ToolRaised BY <1>16 DEF ToolRaised
<1>17. CASE CallsDone BY <1>17 DEF CallsDone
<1>18. CASE RecordResults BY <1>18 DEF RecordResults
<1>19. CASE BeginCompletion BY <1>19 DEF BeginCompletion
<1>20. CASE RecordText BY <1>20 DEF RecordText
<1>21. CASE Decide BY <1>21 DEF Decide
<1>22. CASE Succeed BY <1>22 DEF Succeed
<1>23. CASE Unwound BY <1>23 DEF Unwound
<1>24. CASE Handle BY <1>24 DEF Handle
<1>25. CASE Commit BY <1>25 DEF Commit
<1>26. CASE CommitFails BY <1>26 DEF CommitFails
<1>27. CASE Cleanup BY <1>27 DEF Cleanup, Trigger
<1>28. CASE ApplicationRead BY <1>28 DEF ApplicationRead, WorkCancelled, WorkCancelled
<1>29. CASE Resolved BY <1>29 DEF Resolved, WorkCancelled, WorkCancelled
<1>30. CASE Prepared BY <1>30 DEF Prepared, WorkCancelled, WorkCancelled
<1>31. CASE ModelDelta BY <1>31 DEF ModelDelta
<1>32. CASE ModelResult BY <1>32 DEF ModelResult
<1>33. CASE ModelProtocolError BY <1>33 DEF ModelProtocolError
<1>34. CASE ModelAdapterError BY <1>34 DEF ModelAdapterError
<1>35. CASE ModelStreamEnds BY <1>35 DEF ModelStreamEnds
<1>36. CASE ToolReports BY <1>36 DEF ToolReports
<1>37. CASE ToolEnds BY <1>37 DEF ToolEnds
<1>38. CASE ApplyPolicy BY <1>38 DEF ApplyPolicy
<1>39. CASE ApplyCompletion BY <1>39 DEF ApplyCompletion
<1>40. CASE Interrupted BY <1>40 DEF Interrupted
<1>41. CASE TaskCancelled BY <1>41 DEF TaskCancelled
<1>42. CASE CommitCancelled BY <1>42 DEF CommitCancelled
<1>43. CASE ToolCancelled BY <1>43 DEF ToolCancelled
<1>44. CASE StopRequested BY <1>44 DEF StopRequested, Trigger
<1>45. CASE DeadlinePasses BY <1>45 DEF DeadlinePasses
<1>46. CASE Pull BY <1>46 DEF Pull
<1>47. CASE ConsumerCloses BY <1>47 DEF ConsumerCloses, EndInv, DoneInv
<1> QED
    BY <1>1, <1>2, <1>3, <1>4, <1>5, <1>6, <1>7, <1>8, <1>9, <1>10, <1>11, <1>12, <1>13, <1>14, <1>15,
      <1>16, <1>17, <1>18, <1>19, <1>20, <1>21, <1>22, <1>23, <1>24, <1>25, <1>26, <1>27, <1>28, <1>29,
      <1>30, <1>31, <1>32, <1>33, <1>34, <1>35, <1>36, <1>37, <1>38, <1>39, <1>40, <1>41, <1>42, <1>43,
      <1>44, <1>45, <1>46, <1>47 DEF Next, RunStep, Answer

\* ReasonInv is inductive: every exception that makes a cancellation carries a reason
\* in force, and the handler replaces it only by one that is.
LEMMA ReasonNext == EndInv /\ ReasonInv /\ [Next]_vars => ReasonInv'
<1> SUFFICES ASSUME EndInv, ReasonInv, Next PROVE ReasonInv'
    BY DEF ReasonInv, RealReason
<1>1. /\ \A r : RealReason(r) => InForce(r)
      /\ Stopped => InForce(FirstReason)
      /\ "silence" \in lapses' => InForce("idle_timeout")
      /\ "work_cancelled" \in lapses' => InForce("host_cancel")
    BY ReasonStays, ControlGrows DEF InForce
<1> DEFINE Backed(e) == e.status = "cancelled" /\ e.level # "reraise" => InForce(e.reason)
<1>2. Backed(ending) /\ \A i \in DOMAIN published : published[i].status = "cancelled" => InForce(published[i].reason)
    BY <1>1 DEF ReasonInv
<1>3. (first' = first \/ first' \in stops') => (first' # "none" => first' \in stops')
    BY ControlGrows DEF ReasonInv
<1>4. /\ first' # "none" => first' \in stops'
      /\ Backed(ending')
      /\ published' = published \/ (pc = "commit" /\ Shows /\ published' = Append(published, ending))
  <2>1. CASE Start BY <1>1, <1>2, <1>3, <2>1 DEF Start, Running, Raise, RaiseEarly
  <2>2. CASE RunStarted BY <1>1, <1>2, <1>3, <2>2 DEF RunStarted, Running
  <2>3. CASE RecordInput BY <1>1, <1>2, <1>3, <2>3 DEF RecordInput, Running, Raise, Fail, WriteFails
  <2>4. CASE InputsRecorded BY <1>1, <1>2, <1>3, <2>4 DEF InputsRecorded, Running
  <2>5. CASE Allocate BY <1>1, <1>2, <1>3, <2>5 DEF Allocate, Running, Raise, Fail, RaiseStopped
  <2>6. CASE BeginPrepare BY <1>1, <1>2, <1>3, <2>6 DEF BeginPrepare, Running, Raise, RaiseStopped
  <2>7. CASE BeginAttempt BY <1>1, <1>2, <1>3, <2>7 DEF BeginAttempt, Running, Raise, Fail, RaiseStopped
  <2>8. CASE Retry BY <1>1, <1>2, <1>3, <2>8 DEF Retry, Running, Raise, Fail
  <2>9. CASE RecordFinal BY <1>1, <1>2, <1>3, <2>9 DEF RecordFinal, Running, Raise, Fail, WriteFails
  <2>10. CASE Dispatch BY <1>1, <1>2, <1>3, <2>10 DEF Dispatch, Running
  <2>11. CASE BeginBatch BY <1>1, <1>2, <1>3, <2>11 DEF BeginBatch, Running, Raise, Fail, RaiseStopped
  <2>12. CASE RecordCalls BY <1>1, <1>2, <1>3, <2>12 DEF RecordCalls, Running, Raise, Fail, WriteFails
  <2>13. CASE InvokeTool BY <1>1, <1>2, <1>3, <2>13 DEF InvokeTool, Running, Raise, RaiseStopped
  <2>14. CASE EmitReport BY <1>1, <1>2, <1>3, <2>14 DEF EmitReport, Running
  <2>15. CASE ToolResult BY <1>1, <1>2, <1>3, <2>15 DEF ToolResult, Running
  <2>16. CASE ToolRaised BY <1>1, <1>2, <1>3, <2>16 DEF ToolRaised, Running, Raise, Fail
  <2>17. CASE CallsDone BY <1>1, <1>2, <1>3, <2>17 DEF CallsDone, Running
  <2>18. CASE RecordResults BY <1>1, <1>2, <1>3, <2>18 DEF RecordResults, Running, Raise, Fail, WriteFails
  <2>19. CASE BeginCompletion BY <1>1, <1>2, <1>3, <2>19 DEF BeginCompletion, Running, Raise, RaiseStopped
  <2>20. CASE RecordText BY <1>1, <1>2, <1>3, <2>20 DEF RecordText, Running, Raise, Fail, WriteFails
  <2>21. CASE Decide BY <1>1, <1>2, <1>3, <2>21 DEF Decide, Running, Raise, Fail
  <2>22. CASE Succeed BY <1>1, <1>2, <1>3, <2>22 DEF Succeed, Running
  <2>23. CASE Unwound BY <1>1, <1>2, <1>3, <2>23 DEF Unwound
  <2>24. CASE Handle BY <1>1, <1>2, <1>3, <2>24 DEF Handle, Running
  <2>25. CASE Commit BY <1>1, <1>2, <1>3, <2>25 DEF Commit, Running
  <2>26. CASE CommitFails BY <1>1, <1>2, <1>3, <2>26 DEF CommitFails, Running, Raise
  <2>27. CASE Cleanup BY <1>1, <1>2, <1>3, <2>27 DEF Cleanup, Running, Trigger
  <2>28. CASE ApplicationRead BY <1>1, <1>2, <1>3, <2>28 DEF ApplicationRead, Running, Raise, RaiseEarly, WorkCancelled
  <2>29. CASE Resolved BY <1>1, <1>2, <1>3, <2>29 DEF Resolved, Running, Raise, RaiseEarly, WorkCancelled
  <2>30. CASE Prepared BY <1>1, <1>2, <1>3, <2>30 DEF Prepared, Running, Raise, Fail, WorkCancelled
  <2>31. CASE ModelDelta BY <1>1, <1>2, <1>3, <2>31 DEF ModelDelta, Running, Raise, Fail, WriteFails
  <2>32. CASE ModelResult BY <1>1, <1>2, <1>3, <2>32 DEF ModelResult, Running
  <2>33. CASE ModelProtocolError BY <1>1, <1>2, <1>3, <2>33 DEF ModelProtocolError, Running, Raise, Fail
  <2>34. CASE ModelAdapterError BY <1>1, <1>2, <1>3, <2>34 DEF ModelAdapterError, Running, Raise, Fail
  <2>35. CASE ModelStreamEnds BY <1>1, <1>2, <1>3, <2>35 DEF ModelStreamEnds, Running
  <2>36. CASE ToolReports BY <1>1, <1>2, <1>3, <2>36 DEF ToolReports
  <2>37. CASE ToolEnds BY <1>1, <1>2, <1>3, <2>37 DEF ToolEnds
  <2>38. CASE ApplyPolicy BY <1>1, <1>2, <1>3, <2>38 DEF ApplyPolicy, Running, Raise, Fail, WriteFails
  <2>39. CASE ApplyCompletion BY <1>1, <1>2, <1>3, <2>39 DEF ApplyCompletion, Running, Raise, Fail, WriteFails
  <2>40. CASE Interrupted BY <1>1, <1>2, <1>3, <2>40 DEF Interrupted, Raise
  <2>41. CASE TaskCancelled BY <1>1, <1>2, <1>3, <2>41 DEF TaskCancelled, Running, Raise
  <2>42. CASE CommitCancelled BY <1>1, <1>2, <1>3, <2>42 DEF CommitCancelled, Running, Raise
  <2>43. CASE ToolCancelled BY <1>1, <1>2, <1>3, <2>43 DEF ToolCancelled
  <2>44. CASE StopRequested BY <1>1, <1>2, <1>3, <2>44 DEF StopRequested, Trigger
  <2>45. CASE DeadlinePasses BY <1>1, <1>2, <1>3, <2>45 DEF DeadlinePasses
  <2>46. CASE Pull BY <1>1, <1>2, <1>3, <2>46 DEF Pull
  <2>47. CASE ConsumerCloses BY <1>1, <1>2, <1>3, <2>47 DEF ConsumerCloses
  <2> QED
      BY <2>1, <2>2, <2>3, <2>4, <2>5, <2>6, <2>7, <2>8, <2>9, <2>10, <2>11, <2>12, <2>13, <2>14, <2>15,
        <2>16, <2>17, <2>18, <2>19, <2>20, <2>21, <2>22, <2>23, <2>24, <2>25, <2>26, <2>27, <2>28, <2>29,
        <2>30, <2>31, <2>32, <2>33, <2>34, <2>35, <2>36, <2>37, <2>38, <2>39, <2>40, <2>41, <2>42, <2>43,
        <2>44, <2>45, <2>46, <2>47 DEF Next, RunStep, Answer
<1>5. pc = "commit" => published = <<>>
    BY DEF EndInv, PublishedInv
<1>6. \A i \in DOMAIN published' : published'[i].status = "cancelled" => InForce(published'[i].reason)
  <2>1. CASE published' = published BY <1>2, <2>1
  <2>2. CASE pc = "commit" /\ Shows /\ published' = Append(published, ending)
    <3>1. published' = <<ending>> BY <1>5, <2>2
    <3>2. ending.status = "cancelled" => InForce(ending.reason) BY <1>2, <2>2 DEF Shows
    <3> QED BY <3>1, <3>2
  <2> QED BY <1>4, <2>1, <2>2
<1> QED BY <1>4, <1>6 DEF ReasonInv, RealReason, InForce

\* RunCancelled names a source that was triggered, a deadline that passed, a silence
\* that was waited out or, as the host's cancellation, work that ended cancelled
\* (wait_cancellable, wait_next, and first_reason read again in the handler).
THEOREM ReasonCorrect == Spec => []CancelReasonReal
<1>1. Init => ReasonInv BY DEF Init, ReasonInv
<1>2. EndInv /\ ReasonInv /\ [Next]_vars => ReasonInv' BY ReasonNext
<1>3. ReasonInv => CancelReasonReal BY DEF ReasonInv, CancelReasonReal
<1> QED BY <1>1, <1>2, <1>3, EndCorrect, PTL DEF Spec

-----------------------------------------------------------------------------
(* What a run promises *)

\* What the host and the consumer can tell of the run.
Visible == <<stops, first, late, requested, invoked, returned, status, published>>

\* The actions that change it, and the one that ends the run.
Deeds == BeginAttempt \/ InvokeTool
Finishing == InputsRecorded \/ Decide
Closing == Commit \/ CommitCancelled

\* Every other step changes nothing the host or the consumer can tell.
LEMMA VisibleFrame ==
    ASSUME EndInv, Next
    PROVE  \/ Deeds \/ Finishing \/ Closing \/ Cleanup \/ StopRequested \/ DeadlinePasses
           \/ UNCHANGED Visible /\ (pc = "done" <=> pc' = "done")
<1> USE DEF Visible, Deeds, Finishing, Closing
<1>1. CASE Start BY <1>1 DEF Start, Running, Raise, RaiseEarly
<1>2. CASE RunStarted BY <1>2 DEF RunStarted, Running
<1>3. CASE RecordInput BY <1>3 DEF RecordInput, Running, Raise, Fail, WriteFails
<1>4. CASE InputsRecorded BY <1>4
<1>5. CASE Allocate BY <1>5 DEF Allocate, Running, Raise, Fail, RaiseStopped, Emit
<1>6. CASE BeginPrepare BY <1>6 DEF BeginPrepare, Running, Raise, RaiseStopped
<1>7. CASE BeginAttempt BY <1>7
<1>8. CASE Retry BY <1>8 DEF Retry, Running, Raise, Fail
<1>9. CASE RecordFinal BY <1>9 DEF RecordFinal, Running, Raise, Fail, WriteFails, Emit
<1>10. CASE Dispatch BY <1>10 DEF Dispatch, Running, Emit
<1>11. CASE BeginBatch BY <1>11 DEF BeginBatch, Running, Raise, Fail, RaiseStopped
<1>12. CASE RecordCalls BY <1>12 DEF RecordCalls, Running, Raise, Fail, WriteFails, Emit
<1>13. CASE InvokeTool BY <1>13
<1>14. CASE EmitReport BY <1>14 DEF EmitReport, Running, Emit
<1>15. CASE ToolResult BY <1>15 DEF ToolResult, Running, Emit
<1>16. CASE ToolRaised BY <1>16 DEF ToolRaised, Running, Raise, Fail
<1>17. CASE CallsDone BY <1>17 DEF CallsDone, Running
<1>18. CASE RecordResults BY <1>18 DEF RecordResults, Running, Raise, Fail, WriteFails
<1>19. CASE BeginCompletion BY <1>19 DEF BeginCompletion, Running, Raise, RaiseStopped
<1>20. CASE RecordText BY <1>20 DEF RecordText, Running, Raise, Fail, WriteFails
<1>21. CASE Decide BY <1>21
<1>22. CASE Succeed BY <1>22 DEF Succeed, Running
<1>23. CASE Unwound BY <1>23 DEF Unwound
<1>24. CASE Handle BY <1>24 DEF Handle, Running
<1>25. CASE Commit BY <1>25
<1>26. CASE CommitFails BY <1>26 DEF CommitFails, Running, Raise
<1>27. CASE Cleanup BY <1>27
<1>28. CASE ApplicationRead BY <1>28 DEF ApplicationRead, Running, Raise, RaiseEarly, WorkCancelled
<1>29. CASE Resolved BY <1>29 DEF Resolved, Running, Raise, RaiseEarly, WorkCancelled
<1>30. CASE Prepared BY <1>30 DEF Prepared, Running, Raise, Fail, WorkCancelled
<1>31. CASE ModelDelta BY <1>31 DEF ModelDelta, Running, Raise, Fail, WriteFails, Emit
<1>32. CASE ModelResult BY <1>32 DEF ModelResult, Running
<1>33. CASE ModelProtocolError BY <1>33 DEF ModelProtocolError, Running, Raise, Fail
<1>34. CASE ModelAdapterError BY <1>34 DEF ModelAdapterError, Running, Raise, Fail
<1>35. CASE ModelStreamEnds BY <1>35 DEF ModelStreamEnds, Running
<1>36. CASE ToolReports BY <1>36 DEF ToolReports
<1>37. CASE ToolEnds BY <1>37 DEF ToolEnds
<1>38. CASE ApplyPolicy BY <1>38 DEF ApplyPolicy, Running, Raise, Fail, WriteFails, Emit
<1>39. CASE ApplyCompletion BY <1>39 DEF ApplyCompletion, Running, Raise, Fail, WriteFails, Emit
<1>40. CASE Interrupted BY <1>40 DEF Interrupted, Running, Raise, Waiting, Waits, MaybeWritten
<1>41. CASE TaskCancelled BY <1>41 DEF TaskCancelled, Running, Raise, Waiting, Waits, MaybeWritten
<1>42. CASE CommitCancelled BY <1>42
<1>43. CASE ToolCancelled BY <1>43 DEF ToolCancelled
<1>44. CASE StopRequested BY <1>44
<1>45. CASE DeadlinePasses BY <1>45
<1>46. CASE Pull BY <1>46 DEF Pull
<1>47. CASE ConsumerCloses BY <1>47 DEF ConsumerCloses, EndInv, DoneInv
<1> QED
    BY <1>1, <1>2, <1>3, <1>4, <1>5, <1>6, <1>7, <1>8, <1>9, <1>10, <1>11, <1>12, <1>13, <1>14, <1>15,
      <1>16, <1>17, <1>18, <1>19, <1>20, <1>21, <1>22, <1>23, <1>24, <1>25, <1>26, <1>27, <1>28, <1>29,
      <1>30, <1>31, <1>32, <1>33, <1>34, <1>35, <1>36, <1>37, <1>38, <1>39, <1>40, <1>41, <1>42, <1>43,
      <1>44, <1>45, <1>46, <1>47 DEF Next, RunStep, Answer

\* The consumer has been told nothing while the run can still act.
LEMMA NothingShown ==
    EndInv /\ pc \notin {"cleanup", "done"} => published = <<>>
BY DEF EndInv, PublishedInv

\* Every step of a run is a step of its promise, or changes nothing the promise is about.
LEMMA PromiseStep == TypeOK /\ EndInv /\ [Next]_vars => [Promise!Next]_(Promise!promised)
<1> SUFFICES ASSUME TypeOK, EndInv, Next PROVE Promise!Next \/ UNCHANGED Promise!promised
    BY DEF Promise!promised, FirstReason, Stopped
<1> DEFINE shown == IF published = <<>> THEN "none" ELSE published[Len(published)].status
<1> USE DEF Promise!Open
<1>1. CASE UNCHANGED Visible /\ (pc = "done" <=> pc' = "done")
  <2>1. Stopped' = Stopped BY <1>1 DEF Visible, Stopped, FirstReason
  <2>2. (pc = "done") = (pc = "done")' BY <1>1
  <2> QED BY <1>1, <2>1, <2>2 DEF Visible, Promise!promised
<1>2. CASE Deeds
  <2>1. /\ pc \in {"attempt", "call"} /\ pc' # "done"
        /\ UNCHANGED <<control, returned, status, published>>
        /\ Stopped => UNCHANGED <<requested, invoked>>
        BY <1>2 DEF Deeds, BeginAttempt, InvokeTool, Running, Raise, RaiseStopped, Fail
  <2>2. Stopped' = Stopped BY <2>1 DEF Stopped, FirstReason
  <2>3. published = <<>> /\ status = "none" BY <2>1, NothingShown DEF EndInv, StatusInv
  <2>4. (pc = "done") = FALSE /\ (pc = "done")' = FALSE BY <2>1
  <2>5. CASE UNCHANGED <<requested, invoked>> BY <2>1, <2>2, <2>4, <2>5 DEF Promise!promised
  <2>6. CASE ~UNCHANGED <<requested, invoked>>
    <3>1. Promise!Act BY <2>1, <2>2, <2>3, <2>4, <2>6 DEF Promise!Act
    <3> QED BY <3>1 DEF Promise!Next
  <2> QED BY <2>5, <2>6
<1>3. CASE Finishing
  <2>1. /\ pc \in {"inputs", "decide"} /\ pc' # "done"
        /\ UNCHANGED <<control, requested, invoked, status, published>>
        BY <1>3 DEF Finishing, InputsRecorded, Decide, Running, Raise, Fail
  <2>2. Stopped' = Stopped BY <2>1 DEF Stopped, FirstReason
  <2>3. published = <<>> /\ status = "none" /\ ~returned
        BY <2>1, NothingShown DEF EndInv, StatusInv, ReturnedInv
  <2>4. (pc = "done") = FALSE /\ (pc = "done")' = FALSE BY <2>1
  <2>5. returned \in BOOLEAN /\ returned' \in BOOLEAN BY TypeNext DEF TypeOK, DecisionType
  <2>6. CASE returned' = returned BY <2>1, <2>2, <2>4, <2>6 DEF Promise!promised
  <2>7. CASE returned' = TRUE
    <3>1. Promise!FinishWork BY <2>1, <2>2, <2>3, <2>4, <2>7 DEF Promise!FinishWork
    <3> QED BY <3>1 DEF Promise!Next
  <2> QED BY <2>3, <2>5, <2>6, <2>7
<1>4. CASE Closing
  <2>1. /\ pc = "commit" /\ pc' # "done"
        /\ UNCHANGED <<control, requested, invoked, returned>>
        BY <1>4 DEF Closing, Commit, CommitCancelled, Running, Raise
  <2>2. Stopped' = Stopped BY <2>1 DEF Stopped, FirstReason
  <2>3. published = <<>> BY <2>1, NothingShown
  <2>4. (pc = "done") = FALSE /\ (pc = "done")' = FALSE BY <2>1
  <2>5. ending.status \in Promise!Status BY DEF TypeOK, TerminalType, Ending, Status, Promise!Status
  <2>6. CASE published' = published /\ status' = status
      BY <2>1, <2>2, <2>4, <2>6 DEF Promise!promised
  <2>7. CASE published' = published /\ status' = ending.status
    <3>1. Promise!Record BY <2>1, <2>2, <2>3, <2>4, <2>5, <2>7 DEF Promise!Record
    <3> QED BY <3>1 DEF Promise!Next
  <2>8. CASE Commit /\ Shows
    <3>1. published' = <<ending>> /\ status' = ending.status BY <2>3, <2>8 DEF Commit
    <3>2. shown' = ending.status BY <3>1
    <3>3. ending.status = "succeeded" => returned BY <2>1, <2>8 DEF EndInv, SuccessInv, Shows
    <3>4. Promise!Show BY <2>1, <2>2, <2>3, <2>4, <2>5, <3>1, <3>2, <3>3 DEF Promise!Show
    <3> QED BY <3>4 DEF Promise!Next
  <2> QED BY <1>4, <2>6, <2>7, <2>8 DEF Closing, Commit, CommitCancelled, Raise
<1>5. CASE Cleanup
  <2>1. /\ pc = "cleanup" /\ pc' = "done"
        /\ UNCHANGED <<requested, invoked, returned, status, published>>
        BY <1>5 DEF Cleanup, Running
  <2>2. (pc = "done") = FALSE /\ (pc = "done")' = TRUE BY <2>1
  <2>3. Stopped' = Stopped \/ Stopped' = TRUE
        BY <1>5 DEF Cleanup, Trigger, Stopped, FirstReason, Closed
  <2>4. UNCHANGED <<<<requested, invoked>>, shown>> BY <2>1
  <2>5. Promise!End BY <2>1, <2>2, <2>3, <2>4, Zenon DEF Promise!End
  <2> QED BY <2>5 DEF Promise!Next
<1>6. CASE StopRequested \/ DeadlinePasses
  <2>1. /\ pc # "done" /\ pc' = pc
        /\ UNCHANGED <<requested, invoked, returned, status, published>>
        BY <1>6 DEF StopRequested, DeadlinePasses
  <2>2. Stopped' = TRUE
    <3>1. \A r \in Reasons : r # "none" BY DEF Reasons, Closed
    <3>2. StopSources \cup {Closed} \subseteq Reasons BY Limits DEF Reasons
    <3> QED BY <1>6, <3>1, <3>2 DEF StopRequested, DeadlinePasses, Trigger, Stopped, FirstReason
  <2>3. (pc = "done") = FALSE /\ (pc = "done")' = FALSE BY <2>1
  <2>4. UNCHANGED <<<<requested, invoked>>, shown>> BY <2>1
  <2>5. CASE Stopped
    <3>1. Stopped' = Stopped BY <2>2, <2>5 DEF Stopped
    <3> QED BY <2>1, <2>3, <3>1 DEF Promise!promised
  <2>6. CASE ~Stopped
    <3>1. Promise!Stop BY <2>1, <2>2, <2>3, <2>4, <2>6, Zenon DEF Promise!Stop
    <3> QED BY <3>1 DEF Promise!Next
  <2> QED BY <2>5, <2>6
<1> QED BY <1>1, <1>2, <1>3, <1>4, <1>5, <1>6, VisibleFrame

\* A run that has not started has promised nothing yet.
LEMMA PromiseInit == Init => Promise!Init
BY DEF Init, Promise!Init, Stopped, FirstReason

\* A run, with its retries, pipelines and except clauses, implements RunPromise: it acts
\* until it is stopped or its status is recorded, and tells its consumer at most one
\* status, the recorded one.
THEOREM PromiseCorrect == Spec => KeepsPromise
BY PromiseInit, PromiseStep, TypeCorrect, EndCorrect, PTL DEF Spec, KeepsPromise, Promise!Spec

=============================================================================
