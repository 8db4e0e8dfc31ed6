--------------------------- MODULE RunCleanupProofs ---------------------------
(***************************************************************************)
(* What RunCleanup promises for any number of streams, tasks and           *)
(* cancellations and a queue of any size.  The requests the task counts    *)
(* and the ones the protected awaits hold back are followed by AsyncInv,   *)
(* the scope's progress by ScopeInv, and what the observer's queue holds   *)
(* by QueueInv; the invariant is inductive with the properties themselves. *)
(***************************************************************************)
EXTENDS RunCleanup, TLAPS

-----------------------------------------------------------------------------
(* Types *)

\* A protected await that follows another keeps the types.
LEMMA ReenterTypes ==
    ASSUME TypeOK, NEW thrown \in BOOLEAN, Reenter(thrown)
    PROVE  {cancelling', saved', savedIn'} \subseteq Nat /\ must' \in BOOLEAN
BY DEF TypeOK, Reenter, Enter, Requested

\* So does leaving the last one.
LEMMA LeaveAllTypes ==
    ASSUME TypeOK, NEW pending \in BOOLEAN, LeaveAll(pending)
    PROVE  {cancelling', saved', savedIn'} \subseteq Nat /\ must' \in BOOLEAN
BY DEF TypeOK, LeaveAll, Requested

\* What a wait is broken by is noted at the wait.
LEMMA ThrownTypes ==
    ASSUME TypeOK, NEW l \in Suspensions, Thrown(l) PROVE interrupted' \subseteq Suspensions
BY DEF TypeOK, Thrown

\* Cancelling the pump changes the pump only.
LEMMA CancelPumpTypes ==
    ASSUME TypeOK, CancelPump
    PROVE  pump' \in {"idle", "calling", "cancelled", "done"} /\ {inCall', forced'} \subseteq BOOLEAN
BY DEF TypeOK, CancelPump

\* A sequence grows by a number.
LEMMA AppendTypes ==
    ASSUME NEW s \in Seq(Nat), NEW n \in Nat
    PROVE  Append(s, n) \in Seq(Nat) /\ Len(Append(s, n)) = Len(s) + 1
OBVIOUS

\* An offer leaves the queue within its bound.
LEMMA OfferTypes ==
    ASSUME TypeOK, Offer
    PROVE  offered' \in Nat /\ queue' \in Seq(Nat) /\ Len(queue') <= MaxSize /\ accepted' \in Seq(Nat)
<1>1. /\ queue \in Seq(Nat) /\ Len(queue) <= MaxSize /\ MaxSize \in Nat /\ offered + 1 \in Nat
      /\ accepted \in Seq(Nat)
    BY Setup DEF TypeOK
<1>2. CASE closed \/ Full(queue) BY <1>1, <1>2 DEF Offer
<1>3. CASE ~(closed \/ Full(queue))
  <2>1. queue' = Append(queue, offered + 1) /\ accepted' = Append(accepted, offered + 1) /\ offered' = offered + 1
      BY <1>3 DEF Offer
  <2>2. Len(queue) < MaxSize BY <1>1, <1>3 DEF Full
  <2> QED BY <1>1, <2>1, <2>2, AppendTypes
<1> QED BY <1>2, <1>3

\* Every variable keeps its type.
LEMMA TypeStep ==
    ASSUME TypeOK, [Next]_vars PROVE TypeOK'
<1> USE Setup DEF TypeOK, Locations, Outcomes, Suspensions, Sentinel, asyncio, feed, pumping, observer, scope, host
<1>0. /\ queue \in Seq(Nat) /\ Len(queue) <= MaxSize /\ MaxSize \in Nat /\ offered \in Nat
      /\ accepted \in Seq(Nat) /\ delivered \in Seq(Nat)
    OBVIOUS
<1>1. CASE RunEnds BY <1>1 DEF RunEnds, Running
<1>2. CASE RunCancelled BY <1>2 DEF RunCancelled, Running, CancelAll, Enter
<1>3. CASE Unwound
  <2>1. interrupted' \subseteq Suspensions
    <3>1. CASE Waiting("unwind") /\ UNCHANGED interrupted BY <3>1
    <3>2. CASE Thrown("unwind") BY <3>2, ThrownTypes
    <3> QED BY <1>3, <3>1, <3>2 DEF Unwound
  <2>2. {cancelling', saved', savedIn'} \subseteq Nat /\ must' \in BOOLEAN BY <1>3, ReenterTypes DEF Unwound
  <2> QED BY <1>3, <2>1, <2>2 DEF Unwound
<1>4. CASE FinalizeSuspends BY <1>4 DEF FinalizeSuspends
<1>5. CASE Finalized BY <1>5 DEF Finalized, Waiting, Reenter, Enter, Requested
<1>6. CASE FinalizeInterrupted
  <2>1. interrupted' \subseteq Suspensions BY <1>6, ThrownTypes DEF FinalizeInterrupted
  <2>2. {cancelling', saved', savedIn'} \subseteq Nat /\ must' \in BOOLEAN BY <1>6, ReenterTypes DEF FinalizeInterrupted
  <2> QED BY <1>6, <2>1, <2>2 DEF FinalizeInterrupted
<1>7. CASE OnEvent
  <2>1. offered' \in Nat /\ queue' \in Seq(Nat) /\ Len(queue') <= MaxSize /\ accepted' \in Seq(Nat)
      BY <1>7, OfferTypes DEF OnEvent
  <2> QED BY <1>7, <2>1 DEF OnEvent
<1>8. CASE ObserverCloses
  <2>1. {cancelling', saved', savedIn'} \subseteq Nat /\ must' \in BOOLEAN BY <1>8, ReenterTypes DEF ObserverCloses
  <2> DEFINE last == IF Full(queue) THEN queue ELSE Append(queue, offered + 1)
  <2>2. last \in Seq(Nat) /\ Len(last) <= MaxSize BY <1>0, AppendTypes DEF Full
  <2>3. queue' = (IF Full(last) THEN last ELSE Append(last, Sentinel))
        /\ accepted' = (IF Full(queue) THEN accepted ELSE Append(accepted, offered + 1))
      BY <1>8 DEF ObserverCloses
  <2> HIDE DEF last
  <2>4. queue' \in Seq(Nat) /\ Len(queue') <= MaxSize BY <1>0, <2>2, <2>3, AppendTypes DEF Full
  <2>5. accepted' \in Seq(Nat) BY <1>0, <2>3, AppendTypes
  <2> QED BY <1>8, <2>1, <2>4, <2>5 DEF ObserverCloses
<1>9. CASE Pump
  <2> HIDE DEF TypeOK
  <2>1. queue # <<>> /\ queue' = Tail(queue)
        /\ (delivered' = delivered \/ delivered' = Append(delivered, Head(queue)))
      BY <1>9 DEF Pump
  <2>2. Head(queue) \in Nat /\ queue' \in Seq(Nat) /\ Len(queue') <= MaxSize
    <3>1. Head(queue) \in Nat BY <1>0, <2>1
    <3>2. Tail(queue) \in Seq(Nat) BY <1>0, <2>1
    <3>3. Len(Tail(queue)) = Len(queue) - 1 /\ Len(queue) \in Nat BY <1>0, <2>1
    <3> QED BY <1>0, <2>1, <3>1, <3>2, <3>3
  <2>3. delivered' \in Seq(Nat) BY <1>0, <2>1, <2>2, AppendTypes
  <2>4. pump' \in {"idle", "calling", "cancelled", "done"} BY <1>9 DEF Pump
  <2> QED BY <1>9, <2>2, <2>3, <2>4 DEF Pump, TypeOK
<1>10. CASE CallEnds BY <1>10 DEF CallEnds
<1>11. CASE IgnoresTimeout BY <1>11 DEF IgnoresTimeout
<1>12. CASE PumpExits BY <1>12 DEF PumpExits
<1>13. CASE SwallowsCancel BY <1>13 DEF SwallowsCancel
<1>14. CASE Drained BY <1>14 DEF Drained, Waiting, Reenter, Enter, Requested
<1>15. CASE DrainEnds
  <2>1. interrupted' \subseteq Suspensions
    <3>1. CASE Waiting("drain") /\ UNCHANGED interrupted BY <3>1
    <3>2. CASE Thrown("drain") BY <3>2, ThrownTypes
    <3> QED BY <1>15, <3>1, <3>2 DEF DrainEnds
  <2>2. pump' \in {"idle", "calling", "cancelled", "done"} /\ {inCall', forced'} \subseteq BOOLEAN
      BY <1>15, CancelPumpTypes DEF DrainEnds
  <2>3. savedIn' = cancelling /\ cancelling' = 0 /\ must' = FALSE /\ pc' = "join"
        /\ UNCHANGED <<saved, clears, feed, closed, delivered, scope, runCancelled, late, raised, recorded, hung>>
      BY <1>15 DEF DrainEnds
  <2>4. {must', clears', closed', inCall', forced', runCancelled', raised'} \subseteq BOOLEAN
      BY <2>2, <2>3
  <2>5. {cancelling', saved', savedIn', offered', late'} \subseteq Nat BY <2>3
  <2> QED BY <2>1, <2>2, <2>3, <2>4, <2>5
<1>16. CASE Joined BY <1>16 DEF Joined, Waiting, Reenter, Enter, Requested
<1>17. CASE JoinInterrupted BY <1>17 DEF JoinInterrupted, Thrown, LeaveAll, Requested
<1>18. CASE CloseAtOnce
  <2>1. closes' \in Seq({"closed", "failed", "timedout", "interrupted"}) BY <1>18 DEF CloseAtOnce
  <2>2. must' \in BOOLEAN BY <1>18 DEF CloseAtOnce
  <2> QED BY <1>18, <2>1, <2>2 DEF CloseAtOnce
<1>19. CASE CloseSuspends BY <1>19 DEF CloseSuspends, StreamsLeft
<1>20. CASE CloseEnds
  <2>1. interrupted' \subseteq Suspensions
    <3>1. CASE Waiting("closing") /\ UNCHANGED interrupted BY <3>1
    <3>2. CASE Thrown("closing") BY <3>2, ThrownTypes
    <3> QED BY <1>20, <3>1, <3>2 DEF CloseEnds
  <2>2. PICK how \in {"closed", "failed", "timedout", "interrupted"} : closes' = Append(closes, how)
      BY <1>20 DEF CloseEnds
  <2>3. closes' \in Seq({"closed", "failed", "timedout", "interrupted"}) BY <2>2
  <2>4. cancelling' \in Nat /\ must' \in BOOLEAN /\ savedIn' \in Nat /\ hung' \subseteq {"observer", "stream", "recorder"}
      BY <1>20 DEF CloseEnds
  <2>5. /\ pc' = "scope"
        /\ UNCHANGED <<saved, clears, observer, tasks, outcome, second, runCancelled, late, raised, recorded>>
      BY <1>20 DEF CloseEnds
  <2> QED BY <2>1, <2>3, <2>4, <2>5
<1>21. CASE CancelTasks
  <2>1. tasks' \in [Tasks -> {"running", "cancelled", "done"}] BY <1>21 DEF CancelTasks, CancelAll
  <2>2. CASE Pending(tasks) = {}
    <3>1. {cancelling', saved', savedIn'} \subseteq Nat /\ must' \in BOOLEAN
        BY <1>21, <2>2, LeaveAllTypes DEF CancelTasks
    <3> QED BY <1>21, <2>1, <2>2, <3>1 DEF CancelTasks, Finish
  <2>3. CASE Pending(tasks) # {} BY <1>21, <2>1, <2>3 DEF CancelTasks
  <2> QED BY <2>2, <2>3
<1>22. CASE TasksWaited BY <1>22 DEF TasksWaited, Waiting, Finish, Pending, LeaveAll, Requested
<1>23. CASE TasksInterrupted BY <1>23 DEF TasksInterrupted, Thrown, LeaveAll, Requested
<1>24. CASE SecondCloser BY <1>24 DEF SecondCloser
<1>25. CASE SecondReturns BY <1>25 DEF SecondReturns
<1>26. CASE HostCancels
  <2>1. pump' \in {"idle", "calling", "cancelled", "done"} /\ {inCall', forced'} \subseteq BOOLEAN
    <3>1. CASE pc = "join" BY <1>26, <3>1, CancelPumpTypes DEF HostCancels
    <3>2. CASE pc # "join" BY <1>26, <3>2 DEF HostCancels
    <3> QED BY <3>1, <3>2
  <2> QED BY <1>26, <2>1 DEF HostCancels
<1>27. ASSUME NEW t \in Tasks, TaskExits(t) PROVE TypeOK' BY <1>27 DEF TaskExits
<1>28. CASE UNCHANGED vars BY <1>28 DEF vars
<1>29. CASE SetUp BY <1>29 DEF SetUp
<1>30. CASE Handles BY <1>30 DEF Handles
<1>31. CASE RecorderHangs BY <1>31 DEF RecorderHangs, Waiting
<1>32. CASE FinalizeFails
  <2>1. {cancelling', saved', savedIn'} \subseteq Nat /\ must' \in BOOLEAN BY <1>32, LeaveAllTypes DEF FinalizeFails
  <2> QED BY <1>32, <2>1 DEF FinalizeFails
<1>33. CASE FailureCommitted BY <1>33 DEF FailureCommitted, Enter
<1>34. CASE CloseIgnores BY <1>34 DEF CloseIgnores, Waiting, Thrown
<1> QED BY <1>1, <1>2, <1>3, <1>4, <1>5, <1>6, <1>7, <1>8, <1>9, <1>10, <1>11, <1>12,
           <1>13, <1>14, <1>15, <1>16, <1>17, <1>18, <1>19, <1>20, <1>21, <1>22, <1>23, <1>24, <1>25, <1>26, <1>27, <1>28,
           <1>29, <1>30, <1>31, <1>32, <1>33, <1>34 DEF Next, CleanupStep, PumpStep

-----------------------------------------------------------------------------
(* The cancellations of the task *)

\* What a sequence has once it has grown.
LEMMA RangeAppend ==
    ASSUME NEW S, NEW s \in Seq(S), NEW x \in S PROVE Range(Append(s, x)) = Range(s) \cup {x}
<1>1. \A y \in Range(s) : y \in Range(Append(s, x))
  <2> TAKE y \in Range(s)
  <2>1. PICK i \in DOMAIN s : y = s[i] BY DEF Range
  <2>2. i \in DOMAIN Append(s, x) /\ Append(s, x)[i] = y BY <2>1
  <2> QED BY <2>2 DEF Range
<1>2. x \in Range(Append(s, x))
  <2>1. Len(s) + 1 \in DOMAIN Append(s, x) /\ Append(s, x)[Len(s) + 1] = x OBVIOUS
  <2> QED BY <2>1 DEF Range
<1>3. \A y \in Range(Append(s, x)) : y \in Range(s) \/ y = x
  <2> TAKE y \in Range(Append(s, x))
  <2>1. PICK i \in DOMAIN Append(s, x) : y = Append(s, x)[i] BY DEF Range
  <2>2. (i \in DOMAIN s /\ y = s[i]) \/ y = x BY <2>1
  <2> QED BY <2>2 DEF Range
<1> QED BY <1>1, <1>2, <1>3

\* A stream that was closed adds how it ended.
LEMMA CloseRange ==
    ASSUME TypeOK, CloseAtOnce \/ CloseEnds
    PROVE  \E how \in {"closed", "failed", "timedout", "interrupted"} :
              /\ closes' = Append(closes, how) /\ Range(closes') = Range(closes) \cup {how}
              /\ Len(closes') = Len(closes) + 1
              /\ Thrown("closing") => how = "interrupted"
<1>1. PICK how \in {"closed", "failed", "timedout", "interrupted"} :
        closes' = Append(closes, how) /\ (Thrown("closing") => how = "interrupted")
    BY DEF CloseAtOnce, CloseEnds, Thrown, Waiting
<1>2. closes \in Seq({"closed", "failed", "timedout", "interrupted"}) BY DEF TypeOK
<1>3. Range(closes') = Range(closes) \cup {how} BY <1>1, <1>2, RangeAppend
<1>4. Len(closes') = Len(closes) + 1 BY <1>1, <1>2
<1> QED BY <1>1, <1>3, <1>4

\* The requests made and the ones held back stay accounted for.
LEMMA AsyncStep ==
    ASSUME TypeOK, AsyncInv, LeftInv, CancelSurvives, [Next]_vars PROVE AsyncInv'
<1> USE Setup DEF TypeOK, AsyncInv, Running, Suspensions, Locations, asyncio, feed, pumping, observer, scope, host
<1>0. /\ {cancelling, saved, savedIn, late} \subseteq Nat /\ must \in BOOLEAN
      /\ {clears, runCancelled} \subseteq BOOLEAN /\ pc \in Locations
    BY DEF TypeOK
<1>1. CASE RunEnds BY <1>1 DEF RunEnds, Running
<1>2. CASE RunCancelled BY <1>2 DEF RunCancelled, Running, CancelAll, Enter
<1>3. CASE Unwound BY <1>3 DEF Unwound, Waiting, Thrown, Reenter, Enter, Requested
<1>4. CASE FinalizeSuspends BY <1>4 DEF FinalizeSuspends
<1>5. CASE Finalized BY <1>5 DEF Finalized, Waiting, Reenter, Enter, Requested
<1>6. CASE FinalizeInterrupted BY <1>6 DEF FinalizeInterrupted, Thrown, Reenter, Enter, Requested
<1>7. CASE OnEvent BY <1>7 DEF OnEvent, Offer, Full
<1>8. CASE ObserverCloses BY <1>8 DEF ObserverCloses, Full, Reenter, Enter, Requested
<1>9. CASE Pump BY <1>9 DEF Pump
<1>10. CASE CallEnds BY <1>10 DEF CallEnds
<1>11. CASE IgnoresTimeout BY <1>11 DEF IgnoresTimeout
<1>12. CASE PumpExits BY <1>12 DEF PumpExits
<1>13. CASE SwallowsCancel BY <1>13 DEF SwallowsCancel
<1>14. CASE Drained BY <1>14 DEF Drained, Waiting, Reenter, Enter, Requested
<1>15. CASE DrainEnds BY <1>15 DEF DrainEnds, Waiting, Thrown, CancelPump
<1>16. CASE Joined BY <1>16 DEF Joined, Waiting, Reenter, Enter, Requested
<1>17. CASE JoinInterrupted BY <1>17 DEF JoinInterrupted, Thrown, LeaveAll, Requested
<1>18. CASE CloseAtOnce
  <2>1. interrupted' = interrupted BY <1>18 DEF CloseAtOnce
  <2>2. /\ pc = "scope" /\ pc' = pc /\ (must' = must \/ must' = (must \/ cancelling > 0))
        /\ UNCHANGED <<cancelling, savedIn, saved, late, clears, runCancelled>>
      BY <1>18 DEF CloseAtOnce
  <2> QED BY <1>0, <2>1, <2>2 DEF AsyncInv
<1>19. CASE CloseSuspends BY <1>19 DEF CloseSuspends, StreamsLeft
<1>20. CASE CloseEnds
  <2>1. /\ pc = "closing" /\ pc' = "scope" /\ savedIn' = 0 /\ cancelling' = cancelling + savedIn
        /\ must' = (savedIn > 0) /\ UNCHANGED <<saved, late, clears, runCancelled>>
      BY <1>20 DEF CloseEnds, Waiting, Thrown
  <2>2. cancelling' > 0 => must' \/ "closing" \in interrupted'
    <3>1. interrupted \subseteq interrupted' BY <1>20 DEF CloseEnds, Thrown
    <3>2. CASE Thrown("closing") BY <3>2 DEF Thrown
    <3>3. CASE Waiting("closing") /\ savedIn > 0 BY <2>1, <3>3
    <3>4. CASE Waiting("closing") /\ savedIn = 0 /\ cancelling' > 0
      <4>1. cancelling > 0 /\ ~must BY <1>0, <2>1, <3>4 DEF Waiting
      <4>2. "closing" \in interrupted BY <2>1, <4>1 DEF AsyncInv
      <4> QED BY <3>1, <4>2
    <3>5. savedIn > 0 \/ savedIn = 0 BY <1>0
    <3> QED BY <1>20, <3>2, <3>3, <3>4, <3>5 DEF CloseEnds
  <2> QED BY <1>0, <2>1, <2>2 DEF AsyncInv
<1>21. CASE CancelTasks BY <1>21 DEF CancelTasks, StreamsLeft, CancelAll, Finish, Pending, LeaveAll, Requested
<1>22. CASE TasksWaited BY <1>22 DEF TasksWaited, Waiting, Finish, Pending, LeaveAll, Requested
<1>23. CASE TasksInterrupted BY <1>23 DEF TasksInterrupted, Thrown, LeaveAll, Requested
<1>24. CASE SecondCloser BY <1>24 DEF SecondCloser
<1>25. CASE SecondReturns BY <1>25 DEF SecondReturns
<1>26. CASE HostCancels BY <1>26 DEF HostCancels, CancelPump
<1>27. ASSUME NEW t \in Tasks, TaskExits(t) PROVE AsyncInv' BY <1>27 DEF TaskExits
<1>28. CASE UNCHANGED vars BY <1>28 DEF vars
<1>29. CASE SetUp BY <1>29 DEF SetUp
<1>30. CASE Handles BY <1>30 DEF Handles
<1>31. CASE RecorderHangs BY <1>31 DEF RecorderHangs, Waiting
<1>32. CASE FinalizeFails
  <2>1. runCancelled BY <1>32 DEF FinalizeFails, Waiting, LeftInv
  <2>2. /\ pc' = "commit" /\ saved' = 0 /\ savedIn' = 0 /\ UNCHANGED <<clears, late, runCancelled>>
      BY <1>32 DEF FinalizeFails, LeaveAll
  <2> QED BY <2>1, <2>2
<1>33. CASE FailureCommitted
  <2>1. cancelling > 0 BY <1>0, <1>33 DEF FailureCommitted, CancelSurvives
  <2>2. /\ pc' = "observe" /\ cancelling' = 0 /\ savedIn' = savedIn /\ savedIn = 0 /\ (clears' => ~must')
        /\ UNCHANGED <<clears, late, runCancelled>>
      BY <1>33, <2>1 DEF FailureCommitted, Enter
  <2> QED BY <2>2
<1>34. CASE CloseIgnores BY <1>34 DEF CloseIgnores, Waiting, Thrown
<1> QED BY <1>1, <1>2, <1>3, <1>4, <1>5, <1>6, <1>7, <1>8, <1>9, <1>10, <1>11, <1>12,
           <1>13, <1>14, <1>15, <1>16, <1>17, <1>18, <1>19, <1>20, <1>21, <1>22, <1>23, <1>24, <1>25, <1>26, <1>27, <1>28,
           <1>29, <1>30, <1>31, <1>32, <1>33, <1>34 DEF Next, CleanupStep, PumpStep

\* A cleanup that nothing interrupts skips nothing.
LEMMA LeftStep ==
    ASSUME TypeOK, AsyncInv, LeftInv, [Next]_vars PROVE LeftInv'
<1> USE Setup DEF AsyncInv, LeftInv, Running, Suspensions, asyncio, feed, pumping, observer, scope, host
<1>1. CASE RunEnds BY <1>1 DEF RunEnds, Running
<1>2. CASE RunCancelled BY <1>2 DEF RunCancelled, Running, CancelAll, Enter
<1>3. CASE Unwound BY <1>3 DEF Unwound, Waiting, Thrown, Reenter, Enter, Requested
<1>4. CASE FinalizeSuspends BY <1>4 DEF FinalizeSuspends
<1>5. CASE Finalized BY <1>5 DEF Finalized, Waiting, Reenter, Enter, Requested
<1>6. CASE FinalizeInterrupted BY <1>6 DEF FinalizeInterrupted, Thrown, Reenter, Enter, Requested
<1>7. CASE OnEvent BY <1>7 DEF OnEvent, Offer, Full
<1>8. CASE ObserverCloses BY <1>8 DEF ObserverCloses, Full, Reenter, Enter, Requested
<1>9. CASE Pump BY <1>9 DEF Pump
<1>10. CASE CallEnds BY <1>10 DEF CallEnds
<1>11. CASE IgnoresTimeout BY <1>11 DEF IgnoresTimeout
<1>12. CASE PumpExits BY <1>12 DEF PumpExits
<1>13. CASE SwallowsCancel BY <1>13 DEF SwallowsCancel
<1>14. CASE Drained BY <1>14 DEF Drained, Waiting, Reenter, Enter, Requested
<1>15. CASE DrainEnds BY <1>15 DEF DrainEnds, Waiting, Thrown, CancelPump
<1>16. CASE Joined BY <1>16 DEF Joined, Waiting, Reenter, Enter, Requested
<1>17. CASE JoinInterrupted BY <1>17 DEF JoinInterrupted, Thrown, LeaveAll, Requested
<1>18. CASE CloseAtOnce BY <1>18 DEF CloseAtOnce, StreamsLeft
<1>19. CASE CloseSuspends BY <1>19 DEF CloseSuspends, StreamsLeft
<1>20. CASE CloseEnds BY <1>20 DEF CloseEnds, Waiting, Thrown
<1>21. CASE CancelTasks BY <1>21 DEF CancelTasks, StreamsLeft, CancelAll, Finish, Pending, LeaveAll, Requested
<1>22. CASE TasksWaited BY <1>22 DEF TasksWaited, Waiting, Finish, Pending, LeaveAll, Requested
<1>23. CASE TasksInterrupted BY <1>23 DEF TasksInterrupted, Thrown, LeaveAll, Requested
<1>24. CASE SecondCloser BY <1>24 DEF SecondCloser
<1>25. CASE SecondReturns BY <1>25 DEF SecondReturns
<1>26. CASE HostCancels
  <2>1. late' > 0 /\ pc' = pc /\ UNCHANGED <<runCancelled, raised, recorded, outcome, interrupted>>
      BY <1>26 DEF HostCancels, TypeOK
  <2> QED BY <2>1 DEF LeftInv
<1>27. ASSUME NEW t \in Tasks, TaskExits(t) PROVE LeftInv' BY <1>27 DEF TaskExits
<1>28. CASE UNCHANGED vars BY <1>28 DEF vars
<1>29. CASE SetUp BY <1>29 DEF SetUp
<1>30. CASE Handles BY <1>30 DEF Handles
<1>31. CASE RecorderHangs BY <1>31 DEF RecorderHangs, Waiting
<1>32. CASE FinalizeFails BY <1>32 DEF FinalizeFails, Waiting, LeaveAll, Requested
<1>33. CASE FailureCommitted BY <1>33 DEF FailureCommitted, Enter
<1>34. CASE CloseIgnores BY <1>34 DEF CloseIgnores, Waiting, Thrown
<1> QED BY <1>1, <1>2, <1>3, <1>4, <1>5, <1>6, <1>7, <1>8, <1>9, <1>10, <1>11, <1>12,
           <1>13, <1>14, <1>15, <1>16, <1>17, <1>18, <1>19, <1>20, <1>21, <1>22, <1>23, <1>24, <1>25, <1>26, <1>27, <1>28,
           <1>29, <1>30, <1>31, <1>32, <1>33, <1>34 DEF Next, CleanupStep, PumpStep

\* The scope has been closed: a request is pending, or it hit the close of a stream.
LEMMA LeaveAllSurvives ==
    ASSUME TypeOK, AsyncInv, CancelSurvives, pc \in {"scope", "tasks"},
           LeaveAll(must), UNCHANGED <<late, runCancelled, raised, interrupted>>
    PROVE  CancelSurvives'
<1>0. /\ {cancelling, saved, savedIn, late} \subseteq Nat /\ must \in BOOLEAN
      /\ {clears, runCancelled} \subseteq BOOLEAN /\ pc \in Locations
    BY DEF TypeOK
<1>1. cancelling' = cancelling + saved + savedIn /\ saved' = 0 /\ savedIn' = 0
    BY DEF LeaveAll, Requested
<1>2. cancelling' + saved' + savedIn' = late' + (IF runCancelled' THEN 1 ELSE 0)
    BY <1>0, <1>1 DEF CancelSurvives
<1>3. ASSUME runCancelled' \/ late' > 0 PROVE raised' \/ must' \/ "closing" \in interrupted'
  <2>1. cancelling > 0 \/ saved + savedIn > 0 BY <1>0, <1>3 DEF CancelSurvives
  <2>2. CASE saved + savedIn > 0 BY <2>2 DEF LeaveAll
  <2>3. CASE cancelling > 0
    <3>1. must \/ "closing" \in interrupted BY <2>3 DEF AsyncInv
    <3>2. must => must' BY DEF LeaveAll
    <3> QED BY <3>1, <3>2
  <2> QED BY <2>1, <2>2, <2>3
<1> QED BY <1>2, <1>3 DEF CancelSurvives

\* No request is lost, and what is left of them is raised or pending.
LEMMA SurvivesStep ==
    ASSUME TypeOK, AsyncInv, CancelSurvives, [Next]_vars PROVE CancelSurvives'
<1> USE Setup DEF TypeOK, AsyncInv, CancelSurvives, asyncio, feed, pumping, observer, scope, host
<1>0. /\ {cancelling, saved, savedIn, late} \subseteq Nat /\ must \in BOOLEAN
      /\ {clears, runCancelled} \subseteq BOOLEAN /\ pc \in Locations
    BY DEF TypeOK
<1>1. CASE RunEnds BY <1>1 DEF RunEnds, Running
<1>2. CASE RunCancelled BY <1>2 DEF RunCancelled, Running, CancelAll, Enter
<1>3. CASE Unwound BY <1>3 DEF Unwound, Waiting, Thrown, Reenter, Enter, Requested
<1>4. CASE FinalizeSuspends BY <1>4 DEF FinalizeSuspends
<1>5. CASE Finalized BY <1>5 DEF Finalized, Waiting, Reenter, Enter, Requested
<1>6. CASE FinalizeInterrupted BY <1>6 DEF FinalizeInterrupted, Thrown, Reenter, Enter, Requested
<1>7. CASE OnEvent BY <1>7 DEF OnEvent, Offer, Full
<1>8. CASE ObserverCloses BY <1>8 DEF ObserverCloses, Full, Reenter, Enter, Requested
<1>9. CASE Pump BY <1>9 DEF Pump
<1>10. CASE CallEnds BY <1>10 DEF CallEnds
<1>11. CASE IgnoresTimeout BY <1>11 DEF IgnoresTimeout
<1>12. CASE PumpExits BY <1>12 DEF PumpExits
<1>13. CASE SwallowsCancel BY <1>13 DEF SwallowsCancel
<1>14. CASE Drained BY <1>14 DEF Drained, Waiting, Reenter, Enter, Requested
<1>15. CASE DrainEnds
  <2>1. /\ savedIn = 0 /\ savedIn' = cancelling /\ cancelling' = 0 /\ pc' = "join"
        /\ UNCHANGED <<saved, late, runCancelled>>
      BY <1>15 DEF DrainEnds, Waiting, Thrown
  <2> HIDE DEF TypeOK, AsyncInv
  <2> QED BY <1>0, <2>1
<1>16. CASE Joined BY <1>16 DEF Joined, Waiting, Reenter, Enter, Requested
<1>17. CASE JoinInterrupted BY <1>17 DEF JoinInterrupted, Thrown, LeaveAll, Requested
<1>18. CASE CloseAtOnce BY <1>18 DEF CloseAtOnce, StreamsLeft
<1>19. CASE CloseSuspends BY <1>19 DEF CloseSuspends, StreamsLeft
<1>20. CASE CloseEnds BY <1>20 DEF CloseEnds, Waiting, Thrown
<1>21. CASE CancelTasks
  <2>1. pc = "scope" /\ UNCHANGED <<late, runCancelled, raised, interrupted>> BY <1>21 DEF CancelTasks
  <2>2. CASE Pending(tasks) = {} BY <1>21, <2>1, <2>2, LeaveAllSurvives DEF CancelTasks
  <2>3. CASE Pending(tasks) # {} BY <1>21, <2>1, <2>3 DEF CancelSurvives, CancelTasks
  <2> QED BY <2>2, <2>3
<1>22. CASE TasksWaited
  <2>1. pc = "tasks" /\ ~must /\ UNCHANGED <<late, runCancelled, raised, interrupted>> /\ LeaveAll(must)
    <3>1. ~must /\ LeaveAll(FALSE) BY <1>22 DEF TasksWaited, Waiting
    <3>2. must = FALSE BY <1>0, <3>1
    <3> QED BY <1>22, <3>1, <3>2 DEF TasksWaited, Waiting
  <2> QED BY <2>1, LeaveAllSurvives
<1>23. CASE TasksInterrupted BY <1>23 DEF TasksInterrupted, Thrown, LeaveAll, Requested
<1>24. CASE SecondCloser BY <1>24 DEF SecondCloser
<1>25. CASE SecondReturns BY <1>25 DEF SecondReturns
<1>26. CASE HostCancels
  <2>1. /\ pc' = pc /\ pc # "end" /\ late' = late + 1 /\ cancelling' = cancelling + 1
        /\ UNCHANGED <<saved, savedIn, runCancelled>>
      BY <1>26 DEF HostCancels, Suspensions
  <2> DEFINE first == IF runCancelled THEN 1 ELSE 0
  <2>2. cancelling + saved + savedIn = late + first /\ first \in Nat /\ first' = first
      BY <2>1 DEF CancelSurvives
  <2> HIDE DEF first, TypeOK, AsyncInv
  <2>3. cancelling' + saved' + savedIn' = late' + first' BY <1>0, <2>1, <2>2
  <2> QED BY <2>1, <2>3 DEF first, CancelSurvives
<1>27. ASSUME NEW t \in Tasks, TaskExits(t) PROVE CancelSurvives' BY <1>27 DEF TaskExits
<1>28. CASE UNCHANGED vars BY <1>28 DEF vars
<1>29. CASE SetUp BY <1>29 DEF SetUp
<1>30. CASE Handles BY <1>30 DEF Handles
<1>31. CASE RecorderHangs BY <1>31 DEF RecorderHangs, Waiting
<1>32. CASE FinalizeFails BY <1>32 DEF FinalizeFails, Waiting, LeaveAll, Requested
<1>33. CASE FailureCommitted BY <1>33 DEF FailureCommitted, Enter
<1>34. CASE CloseIgnores BY <1>34 DEF CloseIgnores, Waiting, Thrown
<1> QED BY <1>1, <1>2, <1>3, <1>4, <1>5, <1>6, <1>7, <1>8, <1>9, <1>10, <1>11, <1>12,
           <1>13, <1>14, <1>15, <1>16, <1>17, <1>18, <1>19, <1>20, <1>21, <1>22, <1>23, <1>24, <1>25, <1>26, <1>27, <1>28,
           <1>29, <1>30, <1>31, <1>32, <1>33, <1>34 DEF Next, CleanupStep, PumpStep

-----------------------------------------------------------------------------
(* The scope *)

\* Streams are closed one by one, then the tasks.
LEMMA ScopeStep ==
    ASSUME TypeOK, ScopeInv, [Next]_vars PROVE ScopeInv'
<1> USE DEF ScopeInv, StreamsLeft, asyncio, feed, pumping, observer, scope, host
<1>0. /\ closes \in Seq({"closed", "failed", "timedout", "interrupted"}) /\ NStreams \in Nat
      /\ Len(closes) \in Nat
    BY Setup DEF TypeOK
<1> USE <1>0
<1>1. CASE RunEnds BY <1>1 DEF RunEnds, Running
<1>2. CASE RunCancelled BY <1>2 DEF RunCancelled, Running, CancelAll, Enter
<1>3. CASE Unwound BY <1>3 DEF Unwound, Waiting, Thrown, Reenter, Enter, Requested
<1>4. CASE FinalizeSuspends BY <1>4 DEF FinalizeSuspends
<1>5. CASE Finalized BY <1>5 DEF Finalized, Waiting, Reenter, Enter, Requested
<1>6. CASE FinalizeInterrupted BY <1>6 DEF FinalizeInterrupted, Thrown, Reenter, Enter, Requested
<1>7. CASE OnEvent BY <1>7 DEF OnEvent
<1>8. CASE ObserverCloses BY <1>8 DEF ObserverCloses, Full, Reenter, Enter, Requested
<1>9. CASE Pump BY <1>9 DEF Pump
<1>10. CASE CallEnds BY <1>10 DEF CallEnds
<1>11. CASE IgnoresTimeout BY <1>11 DEF IgnoresTimeout
<1>12. CASE PumpExits BY <1>12 DEF PumpExits
<1>13. CASE SwallowsCancel BY <1>13 DEF SwallowsCancel
<1>14. CASE Drained BY <1>14 DEF Drained, Waiting, Reenter, Enter, Requested
<1>15. CASE DrainEnds BY <1>15 DEF DrainEnds, Waiting, Thrown, CancelPump
<1>16. CASE Joined BY <1>16 DEF Joined, Waiting, Reenter, Enter, Requested
<1>17. CASE JoinInterrupted BY <1>17 DEF JoinInterrupted, Thrown, LeaveAll, Requested
<1>18. CASE CloseAtOnce
  <2>1. pc = "scope" /\ StreamsLeft /\ UNCHANGED <<pc, tasks, outcome>> BY <1>18 DEF CloseAtOnce
  <2>2. Len(closes') = Len(closes) + 1 BY <1>18, CloseRange
  <2> QED BY <2>1, <2>2
<1>19. CASE CloseSuspends BY <1>19 DEF CloseSuspends, StreamsLeft
<1>20. CASE CloseEnds
  <2>1. pc = "closing" /\ pc' = "scope" /\ UNCHANGED <<tasks, outcome>> BY <1>20 DEF CloseEnds, Waiting, Thrown
  <2>2. Len(closes') = Len(closes) + 1 BY <1>20, CloseRange
  <2> QED BY <2>1, <2>2
<1>21. CASE CancelTasks BY <1>21 DEF CancelTasks, StreamsLeft, CancelAll, Finish, Pending, LeaveAll, Requested
<1>22. CASE TasksWaited BY <1>22 DEF TasksWaited, Waiting, Finish, Pending, LeaveAll, Requested
<1>23. CASE TasksInterrupted BY <1>23 DEF TasksInterrupted, Thrown, LeaveAll, Requested
<1>24. CASE SecondCloser BY <1>24 DEF SecondCloser
<1>25. CASE SecondReturns BY <1>25 DEF SecondReturns
<1>26. CASE HostCancels
  <2>1. UNCHANGED <<pc, scope>> BY <1>26 DEF HostCancels
  <2> QED BY <2>1
<1>27. ASSUME NEW t \in Tasks, TaskExits(t) PROVE ScopeInv' BY <1>27 DEF TaskExits
<1>28. CASE UNCHANGED vars BY <1>28 DEF vars
<1>29. CASE SetUp BY <1>29 DEF SetUp
<1>30. CASE Handles BY <1>30 DEF Handles
<1>31. CASE RecorderHangs BY <1>31 DEF RecorderHangs, Waiting
<1>32. CASE FinalizeFails BY <1>32 DEF FinalizeFails, Waiting, LeaveAll, Requested
<1>33. CASE FailureCommitted BY <1>33 DEF FailureCommitted, Enter
<1>34. CASE CloseIgnores BY <1>34 DEF CloseIgnores, Waiting, Thrown
<1> QED BY <1>1, <1>2, <1>3, <1>4, <1>5, <1>6, <1>7, <1>8, <1>9, <1>10, <1>11, <1>12,
           <1>13, <1>14, <1>15, <1>16, <1>17, <1>18, <1>19, <1>20, <1>21, <1>22, <1>23, <1>24, <1>25, <1>26, <1>27, <1>28,
           <1>29, <1>30, <1>31, <1>32, <1>33, <1>34 DEF Next, CleanupStep, PumpStep

\* What aclose reports is what became of the streams and tasks.
LEMMA ReportStep ==
    ASSUME TypeOK, ScopeInv, ReportIsHonest, [Next]_vars PROVE ReportIsHonest'
<1> USE Setup DEF TypeOK, ScopeInv, ReportIsHonest, Pending, Range, asyncio, feed, pumping, observer, scope, host
<1>1. CASE RunEnds BY <1>1 DEF RunEnds, Running
<1>2. CASE RunCancelled BY <1>2 DEF RunCancelled, Running, CancelAll, Enter
<1>3. CASE Unwound BY <1>3 DEF Unwound, Waiting, Thrown, Reenter, Enter, Requested
<1>4. CASE FinalizeSuspends BY <1>4 DEF FinalizeSuspends
<1>5. CASE Finalized BY <1>5 DEF Finalized, Waiting, Reenter, Enter, Requested
<1>6. CASE FinalizeInterrupted BY <1>6 DEF FinalizeInterrupted, Thrown, Reenter, Enter, Requested
<1>7. CASE OnEvent BY <1>7 DEF OnEvent, Offer, Full
<1>8. CASE ObserverCloses BY <1>8 DEF ObserverCloses, Full, Reenter, Enter, Requested
<1>9. CASE Pump BY <1>9 DEF Pump
<1>10. CASE CallEnds BY <1>10 DEF CallEnds
<1>11. CASE IgnoresTimeout BY <1>11 DEF IgnoresTimeout
<1>12. CASE PumpExits BY <1>12 DEF PumpExits
<1>13. CASE SwallowsCancel BY <1>13 DEF SwallowsCancel
<1>14. CASE Drained BY <1>14 DEF Drained, Waiting, Reenter, Enter, Requested
<1>15. CASE DrainEnds BY <1>15 DEF DrainEnds, Waiting, Thrown, CancelPump
<1>16. CASE Joined BY <1>16 DEF Joined, Waiting, Reenter, Enter, Requested
<1>17. CASE JoinInterrupted BY <1>17 DEF JoinInterrupted, Thrown, LeaveAll, Requested
<1>18. CASE CloseAtOnce BY <1>18 DEF CloseAtOnce, StreamsLeft
<1>19. CASE CloseSuspends BY <1>19 DEF CloseSuspends, StreamsLeft
<1>20. CASE CloseEnds BY <1>20 DEF CloseEnds, Waiting, Thrown
<1>21. CASE CancelTasks
  <2>1. CASE Pending(tasks) = {}
    <3>1. tasks' = tasks BY <1>21, <2>1 DEF CancelTasks, CancelAll, Pending, TypeOK
    <3>2. ~StreamsLeft /\ closes' = closes /\ Finish(tasks) BY <1>21, <2>1 DEF CancelTasks
    <3>3. \A t \in Tasks : tasks[t] = "done" BY <2>1 DEF Pending
    <3>4. Len(closes) = NStreams BY Setup, <3>2 DEF ScopeInv, StreamsLeft, TypeOK
    <3> QED BY <2>1, <3>1, <3>2, <3>3, <3>4 DEF Finish, ReportIsHonest
  <2>2. CASE Pending(tasks) # {}
    <3>1. pc = "scope" /\ outcome' = outcome BY <1>21, <2>2 DEF CancelTasks
    <3>2. outcome' = "none" BY <3>1 DEF ScopeInv
    <3> QED BY <3>2 DEF ReportIsHonest
  <2> QED BY <2>1, <2>2
<1>22. CASE TasksWaited
  <2>1. pc = "tasks" /\ UNCHANGED <<tasks, closes>> /\ Finish(tasks) BY <1>22 DEF TasksWaited, Waiting
  <2>2. Len(closes) = NStreams /\ \A t \in Tasks : tasks[t] # "running"
      BY Setup, <2>1 DEF ScopeInv, StreamsLeft, TypeOK
  <2>3. Pending(tasks)' = Pending(tasks) /\ Range(closes') = Range(closes) BY <2>1 DEF Pending
  <2> QED BY <2>1, <2>2, <2>3 DEF Finish, ReportIsHonest
<1>23. CASE TasksInterrupted BY <1>23 DEF TasksInterrupted, Thrown, LeaveAll, Requested
<1>24. CASE SecondCloser BY <1>24 DEF SecondCloser
<1>25. CASE SecondReturns BY <1>25 DEF SecondReturns
<1>26. CASE HostCancels BY <1>26 DEF HostCancels, CancelPump
<1>27. ASSUME NEW t \in Tasks, TaskExits(t) PROVE ReportIsHonest' BY <1>27 DEF TaskExits
<1>28. CASE UNCHANGED vars BY <1>28 DEF vars
<1>29. CASE SetUp BY <1>29 DEF SetUp
<1>30. CASE Handles BY <1>30 DEF Handles
<1>31. CASE RecorderHangs BY <1>31 DEF RecorderHangs, Waiting
<1>32. CASE FinalizeFails BY <1>32 DEF FinalizeFails, Waiting, LeaveAll, Requested
<1>33. CASE FailureCommitted BY <1>33 DEF FailureCommitted, Enter
<1>34. CASE CloseIgnores BY <1>34 DEF CloseIgnores, Waiting, Thrown
<1> QED BY <1>1, <1>2, <1>3, <1>4, <1>5, <1>6, <1>7, <1>8, <1>9, <1>10, <1>11, <1>12,
           <1>13, <1>14, <1>15, <1>16, <1>17, <1>18, <1>19, <1>20, <1>21, <1>22, <1>23, <1>24, <1>25, <1>26, <1>27, <1>28,
           <1>29, <1>30, <1>31, <1>32, <1>33, <1>34 DEF Next, CleanupStep, PumpStep

-----------------------------------------------------------------------------
(* The observer's queue *)

\* QueueInv without the pump and the place of the task, of any queue.
Holds(q, acc, del, off, shut) ==
    /\ \A i \in 1 .. Len(acc) : acc[i] \in 1 .. off
    /\ \A i, j \in 1 .. Len(acc) : i < j => acc[i] < acc[j]
    /\ Len(acc) - Len(del) >= 0 /\ Len(q) \in {Len(acc) - Len(del), Len(acc) - Len(del) + 1}
    /\ \A i \in 1 .. Len(del) : del[i] = acc[i]
    /\ \A i \in 1 .. Len(q) : i <= Len(acc) - Len(del) => q[i] = acc[Len(del) + i]
    /\ Len(q) = Len(acc) - Len(del) + 1 => shut /\ q[Len(acc) - Len(del) + 1] = Sentinel

\* The invariant in two halves.
LEMMA QueueParts ==
    QueueInv <=> /\ Holds(queue, accepted, delivered, offered, closed)
                 /\ pc \in Early => ~closed
                 /\ pump = "cancelled" => forced
                 /\ pump = "done" /\ ~forced => closed /\ queue = <<>> /\ Len(accepted) - Len(delivered) = 0
BY DEF QueueInv, Holds

\* An event that is dropped.
LEMMA OfferHolds ==
    ASSUME NEW q, NEW acc, NEW del, NEW off \in Nat, NEW shut, Holds(q, acc, del, off, shut)
    PROVE  Holds(q, acc, del, off + 1, shut)
<1>1. \A i \in 1 .. Len(acc) : acc[i] \in 1 .. off BY DEF Holds
<1>2. \A i \in 1 .. Len(acc) : acc[i] \in 1 .. off + 1 BY <1>1
<1> QED BY <1>2 DEF Holds

\* Whatever leaves the queue alone.
LEMMA QueueFrame ==
    ASSUME QueueInv, UNCHANGED <<queue, accepted, delivered, offered, closed>>,
           pc' \in Early => pc \in Early, pump' = "cancelled" => forced',
           pump' = "done" /\ ~forced' => pump = "done" /\ ~forced
    PROVE  QueueInv'
BY DEF QueueInv

\* An event behind the others of an open queue.
LEMMA AppendHolds ==
    ASSUME NEW q \in Seq(Nat), NEW acc \in Seq(Nat), NEW del \in Seq(Nat), NEW off \in Nat,
           Holds(q, acc, del, off, FALSE)
    PROVE  Holds(Append(q, off + 1), Append(acc, off + 1), del, off + 1, FALSE)
<1> DEFINE n == Len(acc) - Len(del)
           r == Append(q, off + 1)
           more == Append(acc, off + 1)
<1>1. Len(acc) \in Nat /\ Len(del) \in Nat /\ n \in Nat /\ Len(q) = n BY DEF Holds
<1>2. /\ Len(r) = n + 1 /\ r[n + 1] = off + 1
      /\ \A i \in 1 .. n : r[i] = q[i]
      /\ DOMAIN r = 1 .. n + 1 /\ DOMAIN q = 1 .. n
    BY <1>1
<1>3. /\ Len(more) = Len(acc) + 1 /\ more[Len(acc) + 1] = off + 1
      /\ \A i \in 1 .. Len(acc) : more[i] = acc[i]
      /\ DOMAIN more = 1 .. Len(acc) + 1 /\ DOMAIN acc = 1 .. Len(acc)
    OBVIOUS
<1>4. /\ \A i \in 1 .. Len(acc) : acc[i] \in 1 .. off
      /\ \A i, j \in 1 .. Len(acc) : i < j => acc[i] < acc[j]
      /\ \A i \in 1 .. Len(del) : del[i] = acc[i]
      /\ \A i \in 1 .. n : q[i] = acc[Len(del) + i]
      /\ DOMAIN del = 1 .. Len(del)
    BY <1>1, <1>2 DEF Holds
<1> HIDE DEF r, more
<1>6. \A i \in 1 .. Len(acc) + 1 : i \in 1 .. Len(acc) \/ i = Len(acc) + 1 BY <1>1
<1>7. \A i \in 1 .. Len(acc) + 1 : more[i] \in 1 .. off + 1
  <2>1. \A i \in 1 .. Len(acc) : more[i] \in 1 .. off + 1 BY <1>3, <1>4
  <2>2. more[Len(acc) + 1] \in 1 .. off + 1 BY <1>3
  <2> QED BY <1>6, <2>1, <2>2
<1>8. \A i, j \in 1 .. Len(acc) + 1 : i < j => more[i] < more[j]
  <2> SUFFICES ASSUME NEW i \in 1 .. Len(acc) + 1, NEW j \in 1 .. Len(acc) + 1, i < j PROVE more[i] < more[j]
      OBVIOUS
  <2>1. i \in 1 .. Len(acc) BY <1>1
  <2>2. CASE j \in 1 .. Len(acc) BY <1>3, <1>4, <2>1, <2>2
  <2>3. CASE j = Len(acc) + 1 BY <1>3, <1>4, <2>1, <2>3
  <2> QED BY <1>6, <2>2, <2>3
<1>9. \A i \in 1 .. Len(del) : del[i] = more[i]
  <2>1. \A i \in 1 .. Len(del) : i \in 1 .. Len(acc) BY <1>1
  <2> QED BY <1>3, <1>4, <2>1
<1>10. \A i \in 1 .. n + 1 : r[i] = more[Len(del) + i]
  <2> TAKE i \in 1 .. n + 1
  <2>1. CASE i \in 1 .. n
    <3>1. Len(del) + i \in 1 .. Len(acc) BY <1>1, <2>1
    <3> QED BY <1>2, <1>3, <1>4, <2>1, <3>1
  <2>2. CASE i = n + 1
    <3>1. Len(del) + i = Len(acc) + 1 BY <1>1, <2>2
    <3> QED BY <1>2, <1>3, <2>2, <3>1
  <2>3. i \in 1 .. n \/ i = n + 1
    <3> HIDE DEF n
    <3> QED BY <1>1
  <2> QED BY <2>1, <2>2, <2>3
<1>11. Holds(r, more, del, off + 1, FALSE)
  <2>1. Len(more) - Len(del) = n + 1 /\ n + 1 >= 0 /\ n + 1 \in Nat BY <1>1, <1>3
  <2> HIDE DEF n
  <2>2. Len(r) \in {n + 1, n + 1 + 1} /\ (Len(r) = n + 1 + 1 => FALSE) BY <1>2, <2>1
  <2>3. \A i \in 1 .. Len(r) : i <= n + 1 => r[i] = more[Len(del) + i] BY <1>2, <1>10
  <2>4. /\ \A i \in 1 .. Len(more) : more[i] \in 1 .. off + 1
        /\ \A i, j \in 1 .. Len(more) : i < j => more[i] < more[j]
      BY <1>3, <1>7, <1>8
  <2> QED BY <1>9, <2>1, <2>2, <2>3, <2>4 DEF Holds
<1> QED BY <1>11 DEF r, more

\* The sentinel behind the events of a queue that is shut.
LEMMA ShutHolds ==
    ASSUME NEW q \in Seq(Nat), NEW acc \in Seq(Nat), NEW del \in Seq(Nat), NEW off \in Nat,
           Holds(q, acc, del, off, FALSE)
    PROVE  /\ Holds(q, acc, del, off, TRUE)
           /\ Holds(Append(q, Sentinel), acc, del, off, TRUE)
<1> DEFINE n == Len(acc) - Len(del)
           r == Append(q, Sentinel)
<1>1. Len(acc) \in Nat /\ Len(del) \in Nat /\ n \in Nat /\ Len(q) = n BY DEF Holds
<1>2. /\ Len(r) = n + 1 /\ r[n + 1] = Sentinel /\ \A i \in 1 .. n : r[i] = q[i]
      /\ DOMAIN r = 1 .. n + 1 /\ DOMAIN q = 1 .. n
    BY <1>1
<1>3. Holds(q, acc, del, off, TRUE) BY DEF Holds
<1> HIDE DEF r
<1>4. \A i \in 1 .. Len(r) : i <= n => r[i] = acc[Len(del) + i] BY <1>1, <1>2 DEF Holds
<1>5. Holds(r, acc, del, off, TRUE) BY <1>1, <1>2, <1>4 DEF Holds
<1> QED BY <1>3, <1>5 DEF r

\* The head of the queue is delivered, or it is the sentinel and the queue is empty.
LEMMA TailHolds ==
    ASSUME NEW q \in Seq(Nat), NEW acc \in Seq(Nat), NEW del \in Seq(Nat), NEW off \in Nat,
           NEW shut \in BOOLEAN, q # <<>>, Holds(q, acc, del, off, shut)
    PROVE  /\ Head(q) # Sentinel => Holds(Tail(q), acc, Append(del, Head(q)), off, shut)
           /\ Head(q) = Sentinel => /\ Holds(Tail(q), acc, del, off, shut) /\ Tail(q) = <<>> /\ shut
                                    /\ Len(acc) - Len(del) = 0
<1> DEFINE n == Len(acc) - Len(del)
           r == Tail(q)
           d == Append(del, Head(q))
<1>1. Len(acc) \in Nat /\ Len(del) \in Nat /\ n \in Nat /\ Len(q) \in {n, n + 1} /\ Len(q) \in Nat \ {0}
  <2>1. Len(q) \in Nat \ {0} OBVIOUS
  <2>2. Len(acc) \in Nat /\ Len(del) \in Nat OBVIOUS
  <2>3. n \in Nat /\ Len(q) \in {n, n + 1} BY <2>2 DEF Holds
  <2> QED BY <2>1, <2>2, <2>3
<1>2. /\ Head(q) = q[1] /\ Len(r) = Len(q) - 1 /\ \A i \in 1 .. Len(q) - 1 : r[i] = q[i + 1]
      /\ DOMAIN r = 1 .. Len(q) - 1 /\ DOMAIN q = 1 .. Len(q)
    BY <1>1
<1>3. /\ \A i \in 1 .. Len(acc) : acc[i] \in 1 .. off
      /\ \A i, j \in 1 .. Len(acc) : i < j => acc[i] < acc[j]
      /\ \A i \in 1 .. Len(del) : del[i] = acc[i]
      /\ \A i \in 1 .. Len(q) : i <= n => q[i] = acc[Len(del) + i]
      /\ Len(q) = n + 1 => shut /\ q[n + 1] = Sentinel
    BY <1>2 DEF Holds
<1>4. /\ Len(d) = Len(del) + 1 /\ d[Len(del) + 1] = Head(q) /\ \A i \in 1 .. Len(del) : d[i] = del[i]
      /\ DOMAIN d = 1 .. Len(del) + 1
    BY <1>2
<1> HIDE DEF r, d
<1>5. ASSUME n = 0 PROVE Head(q) = Sentinel /\ Len(q) = 1 /\ shut
  <2> HIDE DEF n
  <2>1. Len(q) = 1 /\ n + 1 = 1 BY <1>1, <1>5
  <2> QED BY <1>2, <1>3, <2>1
<1>6. ASSUME n > 0 PROVE Head(q) # Sentinel /\ Holds(r, acc, d, off, shut)
  <2>1. Head(q) = acc[Len(del) + 1] /\ Len(del) + 1 \in 1 .. Len(acc) BY <1>1, <1>2, <1>3, <1>6
  <2>2. Head(q) # Sentinel BY <1>3, <2>1 DEF Sentinel
  <2>3. \A i \in 1 .. Len(d) : d[i] = acc[i]
    <3> TAKE i \in 1 .. Len(d)
    <3>1. i \in 1 .. Len(del) \/ i = Len(del) + 1
      <4>1. \A m \in Nat : \A k \in 1 .. m + 1 : k \in 1 .. m \/ k = m + 1 OBVIOUS
      <4>2. Len(del) \in Nat /\ i \in 1 .. Len(del) + 1 BY <1>1, <1>4
      <4> QED BY <4>1, <4>2
    <3>2. CASE i \in 1 .. Len(del) BY <1>3, <1>4, <3>2
    <3>3. CASE i = Len(del) + 1 BY <1>4, <2>1, <3>3
    <3> QED BY <3>1, <3>2, <3>3
  <2>4. Len(acc) - Len(d) = n - 1 /\ n - 1 >= 0 BY <1>1, <1>4, <1>6
  <2>5. Len(r) \in {n - 1, n - 1 + 1} BY <1>1, <1>2
  <2>6. \A i \in 1 .. Len(r) : i <= n - 1 => r[i] = acc[Len(d) + i]
    <3> SUFFICES ASSUME NEW i \in 1 .. Len(r), i <= n - 1 PROVE r[i] = acc[Len(d) + i]
        OBVIOUS
    <3>1. i + 1 \in 1 .. Len(q) /\ i + 1 <= n /\ i \in 1 .. Len(q) - 1 BY <1>1, <1>2
    <3>2. r[i] = acc[Len(del) + (i + 1)] BY <1>2, <1>3, <3>1
    <3>3. Len(del) + (i + 1) = Len(d) + i BY <1>1, <1>4
    <3> QED BY <3>2, <3>3
  <2>7. Len(r) = n - 1 + 1 => shut /\ r[n - 1 + 1] = Sentinel
    <3> SUFFICES ASSUME Len(r) = n PROVE shut /\ r[n] = Sentinel BY <1>1
    <3>1. Len(q) = n + 1 /\ n \in 1 .. Len(q) - 1 BY <1>1, <1>2, <1>6
    <3> QED BY <1>2, <1>3, <3>1
  <2>8. Len(d) = Len(del) + 1 /\ DOMAIN d = 1 .. Len(d) /\ DOMAIN r = 1 .. Len(r) BY <1>2, <1>4
  <2> HIDE DEF n
  <2> QED BY <1>3, <2>2, <2>3, <2>4, <2>5, <2>6, <2>7, <2>8 DEF Holds
<1>7. ASSUME n = 0 PROVE Holds(r, acc, del, off, shut) /\ r = <<>>
  <2>1. Len(r) = 0
    <3>1. Len(q) = 1 BY <1>5, <1>7
    <3> QED BY <1>2, <3>1
  <2>2. r \in Seq(Nat) BY DEF r
  <2>3. r = <<>> BY <2>1, <2>2
  <2> QED BY <1>1, <1>3, <1>7, <2>1, <2>3 DEF Holds
<1>8. n = 0 \/ n > 0 BY <1>1
<1> QED BY <1>5, <1>6, <1>7, <1>8 DEF r, d

\* What the queue holds is what was accepted and not delivered.
LEMMA QueueStep ==
    ASSUME TypeOK, QueueInv, [Next]_vars PROVE QueueInv'
<1> USE DEF Early, Suspensions, Sentinel, asyncio, feed, pumping, observer, scope, host
<1>0. /\ queue \in Seq(Nat) /\ accepted \in Seq(Nat) /\ delivered \in Seq(Nat) /\ offered \in Nat
      /\ closed \in BOOLEAN
    BY DEF TypeOK
<1>q. /\ Holds(queue, accepted, delivered, offered, closed)
      /\ pc \in Early => ~closed
      /\ pump = "cancelled" => forced
      /\ pump = "done" /\ ~forced => closed /\ queue = <<>> /\ Len(accepted) - Len(delivered) = 0
    BY QueueParts
<1>p. ASSUME Holds(queue', accepted', delivered', offered', closed'),
             pc' \in Early => ~closed', pump' = "cancelled" => forced',
             pump' = "done" /\ ~forced' =>
                closed' /\ queue' = <<>> /\ Len(accepted') - Len(delivered') = 0
      PROVE  QueueInv'
    BY <1>p DEF QueueInv, Holds
<1>1. CASE RunEnds BY <1>1, <1>q, QueueFrame DEF RunEnds, Running
<1>2. CASE RunCancelled BY <1>2, <1>q, QueueFrame DEF RunCancelled, Running, CancelAll, Enter
<1>3. CASE Unwound BY <1>3, <1>q, QueueFrame DEF Unwound, Waiting, Thrown, Reenter, Enter, Requested
<1>4. CASE FinalizeSuspends BY <1>4, <1>q, QueueFrame DEF FinalizeSuspends
<1>5. CASE Finalized BY <1>5, <1>q, QueueFrame DEF Finalized, Waiting, Reenter, Enter, Requested
<1>6. CASE FinalizeInterrupted BY <1>6, <1>q, QueueFrame DEF FinalizeInterrupted, Thrown, Reenter, Enter, Requested
<1>7. CASE OnEvent
  <2>1. UNCHANGED <<pc, closed, pump, forced, delivered>> /\ Offer BY <1>7 DEF OnEvent, pumping
  <2>2. (closed /\ UNCHANGED <<queue, accepted>>) \/ ~closed BY <2>1 DEF Offer
  <2>3. CASE closed
    <3>1. offered' = offered + 1 /\ UNCHANGED <<queue, accepted>> BY <2>1, <2>3 DEF Offer
    <3>2. closed' /\ pc' = pc /\ pump' = pump /\ forced' = forced /\ delivered' = delivered BY <2>1, <2>3
    <3>3. Holds(queue', accepted', delivered', offered', closed')
      <4>1. Holds(queue, accepted, delivered, offered + 1, closed) BY <1>0, <1>q, OfferHolds
      <4> QED BY <2>1, <3>1, <4>1
    <3> QED BY <1>q, <2>3, <3>1, <3>2, <3>3, <1>p
  <2>4. CASE ~closed
    <3>1. Holds(queue', accepted', delivered', offered', FALSE)
      <4>1. closed = FALSE BY <1>0, <2>4
      <4>2. Holds(queue, accepted, delivered, offered, FALSE) BY <1>q, <4>1
      <4>3. CASE Full(queue)
        <5>1. offered' = offered + 1 /\ queue' = queue /\ accepted' = accepted /\ delivered' = delivered
            BY <2>1, <4>3 DEF Offer
        <5>2. Holds(queue, accepted, delivered, offered + 1, FALSE) BY <1>0, <4>2, OfferHolds
        <5> QED BY <5>1, <5>2
      <4>4. CASE ~Full(queue)
        <5>1. /\ offered' = offered + 1 /\ queue' = Append(queue, offered + 1)
              /\ accepted' = Append(accepted, offered + 1) /\ delivered' = delivered
            BY <2>1, <2>4, <4>4 DEF Offer
        <5>2. Holds(Append(queue, offered + 1), Append(accepted, offered + 1), delivered, offered + 1, FALSE)
            BY <1>0, <4>2, AppendHolds
        <5> QED BY <5>1, <5>2
      <4> QED BY <4>3, <4>4 DEF Full
    <3>2. closed = FALSE BY <1>0, <2>4
    <3>3. pump' = "done" => forced' BY <2>1, <2>4, <1>q
    <3> QED BY <1>q, <2>1, <3>1, <3>2, <3>3, <1>p
  <2> QED BY <2>3, <2>4
<1>8. CASE ObserverCloses
  <2> DEFINE last == IF Full(queue) THEN queue ELSE Append(queue, offered + 1)
  <2>1. /\ offered' = offered + 1 /\ closed' = TRUE /\ pc = "observe" /\ pc' = "drain"
        /\ queue' = (IF Full(last) THEN last ELSE Append(last, Sentinel))
        /\ accepted' = (IF Full(queue) THEN accepted ELSE Append(accepted, offered + 1))
        /\ UNCHANGED <<pump, forced, delivered>>
      BY <1>8 DEF ObserverCloses, pumping
  <2>2. ~closed /\ closed = FALSE BY <1>0, <1>q, <2>1 DEF Early
  <2>3. Holds(queue, accepted, delivered, offered, FALSE) BY <1>q, <2>2
  <2>4. last \in Seq(Nat) /\ accepted' \in Seq(Nat) /\ offered' \in Nat BY <1>0, <2>1, AppendTypes
  <2>5. Holds(last, accepted', delivered, offered', FALSE)
    <3>1. CASE Full(queue)
      <4>1. last = queue /\ accepted' = accepted /\ offered' = offered + 1 BY <2>1, <3>1
      <4> QED BY <1>0, <2>3, <4>1, OfferHolds
    <3>2. CASE ~Full(queue)
      <4>1. /\ last = Append(queue, offered + 1) /\ accepted' = Append(accepted, offered + 1)
            /\ offered' = offered + 1
          BY <2>1, <3>2
      <4> HIDE DEF last
      <4>2. Holds(Append(queue, offered + 1), Append(accepted, offered + 1), delivered, offered + 1, FALSE)
          BY <1>0, <2>3, AppendHolds
      <4> QED BY <4>1, <4>2
    <3> QED BY <3>1, <3>2 DEF Full
  <2> HIDE DEF last
  <2>6. Holds(queue', accepted', delivered, offered', TRUE)
    <3>1. CASE Full(last) BY <1>0, <2>1, <2>4, <2>5, <3>1, ShutHolds
    <3>2. CASE ~Full(last) BY <1>0, <2>1, <2>4, <2>5, <3>2, ShutHolds
    <3> QED BY <3>1, <3>2 DEF Full
  <2>7. Holds(queue', accepted', delivered', offered', closed') BY <2>1, <2>6
  <2>8. pump' = "done" => forced' BY <1>q, <2>1, <2>2
  <2>9. pc' \notin Early /\ (pump' = "cancelled" => forced') BY <1>q, <2>1 DEF Early
  <2> QED BY <2>7, <2>8, <2>9, <1>p
<1>9. CASE Pump
  <2>1. /\ pump = "idle" /\ queue # <<>> /\ queue' = Tail(queue)
        /\ UNCHANGED <<pc, offered, accepted, closed, forced>>
        /\ IF Head(queue) = Sentinel THEN pump' = "done" /\ delivered' = delivered
           ELSE pump' = "calling" /\ delivered' = Append(delivered, Head(queue))
      BY <1>9 DEF Pump
  <2>2. CASE Head(queue) = Sentinel
    <3>1. /\ Holds(Tail(queue), accepted, delivered, offered, closed) /\ Tail(queue) = <<>> /\ closed
          /\ Len(accepted) - Len(delivered) = 0
        BY <1>0, <1>q, <2>1, <2>2, TailHolds
    <3>2. /\ queue' = Tail(queue) /\ pump' = "done" /\ delivered' = delivered
          /\ pc' = pc /\ offered' = offered /\ accepted' = accepted /\ closed' = closed /\ forced' = forced
        BY <2>1, <2>2
    <3> QED BY <1>q, <3>1, <3>2, <1>p
  <2>3. CASE Head(queue) # Sentinel
    <3>1. Holds(Tail(queue), accepted, Append(delivered, Head(queue)), offered, closed)
        BY <1>0, <1>q, <2>1, <2>3, TailHolds
    <3>2. /\ queue' = Tail(queue) /\ pump' = "calling" /\ delivered' = Append(delivered, Head(queue))
          /\ pc' = pc /\ offered' = offered /\ accepted' = accepted /\ closed' = closed /\ forced' = forced
        BY <2>1, <2>3
    <3> QED BY <1>q, <3>1, <3>2, <1>p
  <2> QED BY <2>2, <2>3
<1>10. CASE CallEnds BY <1>10, <1>q, QueueFrame DEF CallEnds
<1>11. CASE IgnoresTimeout BY <1>11, <1>q, QueueFrame DEF IgnoresTimeout
<1>12. CASE PumpExits BY <1>12, <1>q, QueueFrame DEF PumpExits
<1>13. CASE SwallowsCancel BY <1>13, <1>q, QueueFrame DEF SwallowsCancel
<1>14. CASE Drained BY <1>14, <1>q, QueueFrame DEF Drained, Waiting, Reenter, Enter, Requested
<1>15. CASE DrainEnds BY <1>15, <1>q, QueueFrame DEF DrainEnds, Waiting, Thrown, CancelPump
<1>16. CASE Joined BY <1>16, <1>q, QueueFrame DEF Joined, Waiting, Reenter, Enter, Requested
<1>17. CASE JoinInterrupted BY <1>17, <1>q, QueueFrame DEF JoinInterrupted, Thrown, LeaveAll, Requested
<1>18. CASE CloseAtOnce BY <1>18, <1>q, QueueFrame DEF CloseAtOnce, StreamsLeft
<1>19. CASE CloseSuspends BY <1>19, <1>q, QueueFrame DEF CloseSuspends, StreamsLeft
<1>20. CASE CloseEnds BY <1>20, <1>q, QueueFrame DEF CloseEnds, Waiting, Thrown
<1>21. CASE CancelTasks BY <1>21, <1>q, QueueFrame DEF CancelTasks, StreamsLeft, CancelAll, Finish, Pending, LeaveAll, Requested
<1>22. CASE TasksWaited BY <1>22, <1>q, QueueFrame DEF TasksWaited, Waiting, Finish, Pending, LeaveAll, Requested
<1>23. CASE TasksInterrupted BY <1>23, <1>q, QueueFrame DEF TasksInterrupted, Thrown, LeaveAll, Requested
<1>24. CASE SecondCloser BY <1>24, <1>q, QueueFrame DEF SecondCloser
<1>25. CASE SecondReturns BY <1>25, <1>q, QueueFrame DEF SecondReturns
<1>26. CASE HostCancels BY <1>26, <1>q, QueueFrame DEF HostCancels, CancelPump
<1>27. ASSUME NEW t \in Tasks, TaskExits(t) PROVE QueueInv' BY <1>27, <1>q, QueueFrame DEF TaskExits
<1>28. CASE UNCHANGED vars BY <1>28, <1>q, QueueFrame DEF vars
<1>29. CASE SetUp BY <1>29, <1>q, QueueFrame DEF SetUp
<1>30. CASE Handles BY <1>30, <1>q, QueueFrame DEF Handles
<1>31. CASE RecorderHangs BY <1>31, <1>q, QueueFrame DEF RecorderHangs, Waiting
<1>32. CASE FinalizeFails BY <1>32, <1>q, QueueFrame DEF FinalizeFails, Waiting, LeaveAll, Requested
<1>33. CASE FailureCommitted BY <1>33, <1>q, QueueFrame DEF FailureCommitted, Enter
<1>34. CASE CloseIgnores BY <1>34, <1>q, QueueFrame DEF CloseIgnores, Waiting, Thrown
<1> QED BY <1>1, <1>2, <1>3, <1>4, <1>5, <1>6, <1>7, <1>8, <1>9, <1>10, <1>11, <1>12,
           <1>13, <1>14, <1>15, <1>16, <1>17, <1>18, <1>19, <1>20, <1>21, <1>22, <1>23, <1>24, <1>25, <1>26, <1>27, <1>28,
           <1>29, <1>30, <1>31, <1>32, <1>33, <1>34 DEF Next, CleanupStep, PumpStep

-----------------------------------------------------------------------------
(* The properties *)

\* A run that has not ended has cleaned up nothing.
LEMMA CleanupInit == Init => CleanupInv
<1> SUFFICES ASSUME Init PROVE CleanupInv OBVIOUS
<1>1. TypeOK
  <2>1. clears \in BOOLEAN /\ MaxSize \in Nat BY Setup DEF Init
  <2>2. queue \in Seq(Nat) /\ Len(queue) <= MaxSize BY <2>1 DEF Init
  <2>3. {cancelling, saved, savedIn, offered, late} \subseteq Nat BY DEF Init
  <2>4. {must, clears, closed, inCall, forced, runCancelled, raised} \subseteq BOOLEAN
      BY <2>1 DEF Init
  <2> QED BY <2>2, <2>3, <2>4 DEF Init, TypeOK, Locations, Outcomes
<1>2. AsyncInv /\ LeftInv /\ ScopeInv BY Setup DEF Init, AsyncInv, LeftInv, ScopeInv, StreamsLeft
<1>3. QueueInv BY DEF Init, QueueInv
<1>4. ReportIsHonest /\ CancelSurvives BY DEF Init, ReportIsHonest, CancelSurvives
<1> QED BY <1>1, <1>2, <1>3, <1>4 DEF CleanupInv

\* The cleanup keeps its invariant.
LEMMA CleanupNext == CleanupInv /\ [Next]_vars => CleanupInv'
BY TypeStep, AsyncStep, LeftStep, ScopeStep, QueueStep, ReportStep, SurvivesStep DEF CleanupInv

\* The finally block of _run and everything it awaits keep the invariant.
THEOREM CleanupCorrect == Spec => []CleanupInv
BY CleanupInit, CleanupNext, PTL DEF Spec

\* Every variable of the cleanup has its type, and the observer's queue its bound.
THEOREM CleanupTypes == Spec => []TypeOK
<1>1. CleanupInv => TypeOK BY DEF CleanupInv
<1> QED BY <1>1, CleanupCorrect, PTL

\* await_despite_cancellation loses no request, nested as often as the code nests it.
THEOREM CancelCorrect == Spec => []CancelSurvives
<1>1. CleanupInv => CancelSurvives BY DEF CleanupInv
<1> QED BY <1>1, CleanupCorrect, PTL

\* _cleanup_error reports every stream and task RunScope.aclose could not release.
THEOREM ReportCorrect == Spec => []ReportIsHonest
<1>1. CleanupInv => ReportIsHonest BY DEF CleanupInv
<1> QED BY <1>1, CleanupCorrect, PTL

\* Only a CancelledError in the wait for the pump or for the tasks keeps the scope from its
\* report.  Without a second cancellation, and where taking one back withdraws it, the scope
\* reports; a run that is cancelled in its body has its status finalized, unless the
\* recorder raises, and is left with the CancelledError.
THEOREM CleanupComplete == Spec => []NothingLeftBehind
<1>1. CleanupInv => NothingLeftBehind
  <2> SUFFICES ASSUME CleanupInv, pc = "end" PROVE NothingLeftBehind BY DEF NothingLeftBehind
  <2>1. outcome # "none" /\ Pending(tasks) # {} => outcome = "timeout"
      BY DEF CleanupInv, TypeOK, Outcomes, ReportIsHonest
  <2>2. outcome = "none" => {"join", "tasks"} \cap interrupted # {} BY DEF CleanupInv, LeftInv
  <2>3. late = 0 /\ clears => outcome # "none" /\ recorded # "due" /\ (recorded = "cancelled" => raised)
      BY DEF CleanupInv, LeftInv
  <2> QED BY <2>1, <2>2, <2>3 DEF NothingLeftBehind
<1> QED BY <1>1, CleanupCorrect, PTL

\* IsolatedObserver delivers what it accepted, in order, whatever the host's observer does.
THEOREM ObserverCorrect == Spec => []ObservedInOrder
<1>1. CleanupInv => ObservedInOrder
  <2> SUFFICES ASSUME CleanupInv PROVE ObservedInOrder OBVIOUS
  <2>1. accepted \in Seq(Nat) /\ delivered \in Seq(Nat) BY DEF CleanupInv, TypeOK
  <2>2. /\ \A i, j \in 1 .. Len(accepted) : i < j => accepted[i] < accepted[j]
        /\ Len(accepted) - Len(delivered) >= 0
        /\ \A i \in 1 .. Len(delivered) : delivered[i] = accepted[i]
        /\ pump = "done" /\ ~forced => Len(accepted) - Len(delivered) = 0
      BY DEF CleanupInv, QueueInv
  <2>3. Len(accepted) \in Nat /\ Len(delivered) \in Nat /\ DOMAIN delivered = 1 .. Len(delivered) BY <2>1
  <2>4. \A i \in 1 .. Len(delivered) : i \in 1 .. Len(accepted) BY <2>2, <2>3
  <2>5. \A i, j \in DOMAIN delivered : i < j => delivered[i] < delivered[j] BY <2>2, <2>3, <2>4
  <2>6. ASSUME Len(accepted) - Len(delivered) = 0 PROVE delivered = accepted
    <3>1. Len(accepted) = Len(delivered) BY <2>3, <2>6
    <3>2. /\ accepted \in [1 .. Len(accepted) -> Nat] /\ delivered \in [1 .. Len(accepted) -> Nat]
          /\ \A i \in 1 .. Len(accepted) : delivered[i] = accepted[i]
        BY <2>1, <2>2, <3>1
    <3> QED BY <3>2
  <2> QED BY <2>2, <2>5, <2>6 DEF ObservedInOrder
<1> QED BY <1>1, CleanupCorrect, PTL

=============================================================================
