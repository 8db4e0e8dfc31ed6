-------------------------- MODULE StepContextProofs --------------------------
(***************************************************************************)
(* Theorems about preparing a step, for every bound and every input:       *)
(*   FitInv     what is stored fits its key;                               *)
(*   ReadInv    equal reads pin a version to an instant;                   *)
(*   ViewInv    prompt, view and stored view hold whole groups only;       *)
(*   PromptBuilt, ReduceInv   the prompt is the pairing of the history     *)
(*              read, and a view lacks only the oldest of it.              *)
(***************************************************************************)
EXTENDS StepContext, PositionFacts, TLAPS

-----------------------------------------------------------------------------
(* The projection always fits: what is stored fits the key it is stored for,  *)
(* and nothing reaches the last check that does not fit the step.             *)

StoredFits == stored # None => Estimate(stored.messages) <= stored.key.available
CheckFits  == pc \in {"store", "check"} => Fits(view)
FitInv     == StoredFits /\ CheckFits /\ ProjectionFits

\* Nothing is stored yet.
LEMMA FitInit == Init => FitInv
  BY DEF Init, FitInv, StoredFits, CheckFits, ProjectionFits

\* Every step of prepare and every writer keeps FitInv.
LEMMA FitNext == FitInv /\ [Next]_vars => FitInv'
<1> SUFFICES ASSUME FitInv, [Next]_vars PROVE FitInv'
  OBVIOUS
<1> USE DEF FitInv, StoredFits, CheckFits, ProjectionFits, Fits, work
<1>1. CASE Writers
  <2>1. (stored' = stored \/ stored' = None) /\ UNCHANGED <<pc, view, available>>
    BY <1>1 DEF Writers, Record, RecordElsewhere, PublishTools, CommitApplication, InvalidateSummary
  <2> QED BY <2>1
<1>2. CASE Begin \/ ReadSnapshots \/ ReadApplication \/ ReadAgain \/ Compare
  <2>1. UNCHANGED stored /\ pc' \notin {"store", "check", "overflow"}
    BY <1>2 DEF Begin, ReadSnapshots, ReadApplication, ReadAgain, Compare
  <2> QED BY <2>1
<1>3. CASE Build
  BY <1>3 DEF Build
<1>4. CASE Reuse
  <2>1. stored.key.available = available
    BY <1>4 DEF Reuse, Key
  <2> QED BY <1>4, <2>1 DEF Reuse
<1>5. CASE StartTrimming
  BY <1>5 DEF StartTrimming
<1>6. CASE StartSummarizing
  BY <1>6 DEF StartSummarizing
<1>7. CASE Summarized
  BY <1>7 DEF Summarized
<1>8. CASE SummarizerFails
  BY <1>8 DEF SummarizerFails
<1>9. CASE Trimmed
  BY <1>9 DEF Trimmed
<1>10. CASE DropToolGroup \/ DropPlainTurn
  BY <1>10 DEF DropToolGroup, DropPlainTurn
<1>11. CASE Refuse
  BY <1>11 DEF Refuse
<1>12. CASE StoreProjection
  BY <1>12 DEF StoreProjection, Key
<1>13. CASE Deliver
  BY <1>13 DEF Deliver
<1>14. CASE Return
  BY <1>14 DEF Return
<1>15. CASE UNCHANGED vars
  BY <1>15 DEF vars
<1> QED
  BY <1>1, <1>2, <1>3, <1>4, <1>5, <1>6, <1>7, <1>8, <1>9, <1>10, <1>11, <1>12, <1>13, <1>14, <1>15
     DEF Next, Prepare

\* Every view prepare hands out, compressed now or reused from the store, fits the tokens this
\* step has, so the last check of DefaultStepProvider.prepare never raises.
THEOREM ProjectionCorrect == Spec => []ProjectionFits
<1>1. FitInv => ProjectionFits
  BY DEF FitInv
<1> QED BY <1>1, FitInit, FitNext, PTL DEF Spec

-----------------------------------------------------------------------------
(* The double read: versions only grow, so two equal reads around the read   *)
(* of the application state pin what was current in between.                 *)

Recorded ==
    [id : {"history"} \X Nat, role : {"user", "assistant", "tool"},
     calls : Seq(STRING), answers : STRING \cup {None}, size : Nat]

Histories == Seq(Recorded)
Instants  == Int \X Int \X Int

FactsType == history \in Histories /\ elsewhere \in Nat /\ cap \in Int /\ app \in Int

GotType ==
    got \in [version : Int, history : Histories, cap : Int, app : Int,
             again : Int \X Int, instant : Instants]

FirstRead  == pc \in {"application", "again", "compare"} => got.version <= Version /\ got.cap <= cap

MiddleRead ==
    pc \in {"again", "compare"} =>
        /\ got.app = got.instant[3]
        /\ got.version <= got.instant[1] /\ got.instant[1] <= Version
        /\ got.cap <= got.instant[2] /\ got.instant[2] <= cap

SecondRead == pc = "compare" => got.instant[1] <= got.again[1] /\ got.instant[2] <= got.again[2]

ReadInv == FactsType /\ GotType /\ FirstRead /\ MiddleRead /\ SecondRead /\ SnapshotsCoexisted

\* Nothing has been read.
LEMMA ReadInit == Init => ReadInv
  BY DEF Init, ReadInv, FactsType, GotType, Histories, Instants, FirstRead, MiddleRead, SecondRead, SnapshotsCoexisted, NoRead

\* Writers move every version forward and leave what prepare holds alone.
LEMMA WritersGrow ==
    ASSUME ReadInv, Writers
    PROVE  /\ FactsType'
           /\ Version <= Version' /\ Version \in Nat /\ Version' \in Nat
           /\ cap <= cap'
           /\ UNCHANGED <<pc, got>>
<1> USE DEF ReadInv, FactsType, Version, work, Histories, Recorded
<1>1. CASE Record
  <2>1. PICK b \in Bodies :
          history' = Append(history, [id |-> <<"history", Len(history) + 1>>, role |-> b.role,
                                      calls |-> b.calls, answers |-> b.answers, size |-> b.size])
    BY <1>1 DEF Record
  <2>2. [id |-> <<"history", Len(history) + 1>>, role |-> b.role,
         calls |-> b.calls, answers |-> b.answers, size |-> b.size]
          \in [id : {"history"} \X Nat, role : {"user", "assistant", "tool"},
               calls : Seq(STRING), answers : STRING \cup {None}, size : Nat]
    BY Inputs DEF Inputs
  <2>3. Len(history') = Len(history) + 1
    BY <2>1
  <2> QED BY <1>1, <2>1, <2>2, <2>3 DEF Record
<1>2. CASE RecordElsewhere
  BY <1>2 DEF RecordElsewhere
<1>3. CASE PublishTools
  BY <1>3 DEF PublishTools
<1>4. CASE CommitApplication
  BY <1>4 DEF CommitApplication
<1>5. CASE InvalidateSummary
  BY <1>5 DEF InvalidateSummary, facts
<1> QED BY <1>1, <1>2, <1>3, <1>4, <1>5 DEF Writers

\* Every step of _read_consistent and every writer keeps ReadInv.
LEMMA ReadNext == ReadInv /\ [Next]_vars => ReadInv'
<1> SUFFICES ASSUME ReadInv, [Next]_vars PROVE ReadInv'
  OBVIOUS
<1>a. Version \in Nat
  BY DEF ReadInv, FactsType, Histories, Version
<1>1. CASE Writers
  <2>1. /\ FactsType'
        /\ Version <= Version' /\ Version \in Nat /\ Version' \in Nat
        /\ cap <= cap'
        /\ UNCHANGED <<pc, got>>
    BY <1>1, WritersGrow
  <2>2. GotType' /\ SecondRead' /\ SnapshotsCoexisted'
    BY <2>1 DEF ReadInv, GotType, SecondRead, SnapshotsCoexisted
  <2>3. FirstRead' /\ MiddleRead'
    BY <2>1 DEF ReadInv, FactsType, GotType, Instants, FirstRead, MiddleRead
  <2> QED BY <2>1, <2>2, <2>3 DEF ReadInv
<1>2. ASSUME UNCHANGED <<facts, got>>,
             pc' \notin {"application", "again", "compare"},
             pc' \in {"build", "project", "summarize", "trim", "store", "check", "ready"} =>
                 pc \in {"build", "project", "summarize", "trim", "store", "check", "ready"}
      PROVE  ReadInv'
  BY <1>2 DEF ReadInv, FactsType, GotType, FirstRead, MiddleRead, SecondRead, SnapshotsCoexisted, facts
<1>3. CASE Begin \/ Build \/ Reuse \/ StartTrimming \/ StartSummarizing \/ Summarized \/ SummarizerFails
  BY <1>3, <1>2
     DEF Begin, Build, Reuse, StartTrimming, StartSummarizing, Summarized, SummarizerFails
<1>4. CASE Trimmed \/ DropToolGroup \/ DropPlainTurn \/ Refuse \/ StoreProjection \/ Deliver
  BY <1>4, <1>2 DEF Trimmed, DropToolGroup, DropPlainTurn, Refuse, StoreProjection, Deliver
<1>5. CASE ReadSnapshots
  <2>1. FactsType' /\ Version' = Version /\ cap' = cap
    BY <1>5 DEF ReadSnapshots, ReadInv, FactsType, Version, facts
  <2>2. GotType'
    <3>1. Version \in Int /\ cap \in Int /\ history \in Histories /\ GotType
      BY <1>a DEF ReadInv, FactsType
    <3>2. got' = [got EXCEPT !.version = Version, !.history = history, !.cap = cap]
      BY <1>5 DEF ReadSnapshots
    <3> QED BY <3>1, <3>2 DEF GotType
  <2>3. got'.version = Version /\ got'.cap = cap
    BY <1>5, <1>a DEF ReadSnapshots, ReadInv, GotType
  <2> QED BY <1>5, <1>a, <2>1, <2>2, <2>3
          DEF ReadSnapshots, ReadInv, FactsType, GotType, FirstRead, MiddleRead, SecondRead, SnapshotsCoexisted
<1>6. CASE ReadApplication
  <2>1. FactsType' /\ Version' = Version /\ cap' = cap
    BY <1>6 DEF ReadApplication, ReadInv, FactsType, Version, facts
  <2>2. GotType'
    <3>1. <<Version, cap, app>> \in Instants
      BY <1>a DEF ReadInv, FactsType, Instants
    <3> QED BY <1>6, <3>1 DEF ReadApplication, ReadInv, FactsType, GotType
  <2>3. /\ got'.version = got.version /\ got'.cap = got.cap /\ got'.app = app
        /\ got'.instant[1] = Version /\ got'.instant[2] = cap /\ got'.instant[3] = app
    BY <1>6, <1>a DEF ReadApplication, ReadInv, GotType
  <2> QED BY <1>6, <1>a, <2>1, <2>2, <2>3
          DEF ReadApplication, ReadInv, FactsType, GotType, FirstRead, MiddleRead, SecondRead, SnapshotsCoexisted
<1>7. CASE ReadAgain
  <2>1. FactsType' /\ Version' = Version /\ cap' = cap
    BY <1>7 DEF ReadAgain, ReadInv, FactsType, Version, facts
  <2>2. GotType'
    BY <1>7, <1>a DEF ReadAgain, ReadInv, FactsType, GotType
  <2>3. /\ got'.version = got.version /\ got'.cap = got.cap /\ got'.app = got.app
        /\ got'.instant = got.instant /\ got'.again[1] = Version /\ got'.again[2] = cap
    BY <1>7, <1>a DEF ReadAgain, ReadInv, GotType
  <2> QED BY <1>7, <1>a, <2>1, <2>2, <2>3
          DEF ReadAgain, ReadInv, FactsType, GotType, FirstRead, MiddleRead, SecondRead, SnapshotsCoexisted
<1>8. CASE Compare
  <2>1. CASE Unchanged /\ pc' = "build" /\ got' = got
    <3>1. got.again[1] = got.version /\ got.again[2] = got.cap
      BY <2>1 DEF Unchanged
    <3>2. got.instant[1] = got.version /\ got.instant[2] = got.cap /\ got.instant[3] = got.app
      BY <1>8, <3>1, <1>a DEF Compare, ReadInv, GotType, Instants, FactsType, MiddleRead, SecondRead
    <3>3. <<got.version, got.cap, got.app>> = got.instant
      BY <3>2 DEF ReadInv, GotType, Instants
    <3> QED BY <1>8, <2>1, <3>3
            DEF Compare, ReadInv, FactsType, GotType, FirstRead, MiddleRead, SecondRead,
                SnapshotsCoexisted, facts
  <2>2. CASE pc' \in {"read", "conflict"} /\ got' = NoRead
    BY <1>8, <2>2 DEF Compare, ReadInv, FactsType, GotType, FirstRead, MiddleRead, SecondRead,
                      SnapshotsCoexisted, facts, NoRead, Histories, Instants
  <2> QED BY <1>8, <2>1, <2>2 DEF Compare
<1>9. CASE Return
  BY <1>9 DEF Return, ReadInv, FactsType, GotType, FirstRead, MiddleRead, SecondRead,
              SnapshotsCoexisted, facts, NoRead, Histories, Instants
<1>10. CASE UNCHANGED vars
  BY <1>10 DEF vars, facts, ReadInv, FactsType, GotType, FirstRead, MiddleRead, SecondRead,
               SnapshotsCoexisted, Version
<1> QED
  BY <1>1, <1>3, <1>4, <1>5, <1>6, <1>7, <1>8, <1>9, <1>10 DEF Next, Prepare

\* A step is prepared from a history, tools and application state that were all current at one
\* instant, whatever other tasks wrote while _read_consistent awaited.
THEOREM SnapshotsCorrect == Spec => []SnapshotsCoexisted
<1>1. ReadInv => SnapshotsCoexisted
  BY DEF ReadInv
<1> QED BY <1>1, ReadInit, ReadNext, PTL DEF Spec

-----------------------------------------------------------------------------
(* Pairing.  A sequence is well paired when each of its messages is plain or  *)
(* in a fully answered group; what pairing, cutting and dropping preserve.    *)

Convos == Seq(Messages)

WellPaired(s) == Showable(s) = DOMAIN s

IsPlain(m) == ~IsTool(m) /\ ~Opens(m)

\* A conversation is a sequence of messages with lists of calls.
LEMMA ConvoIs ==
    ASSUME NEW s \in Convos
    PROVE  /\ Len(s) \in Nat /\ DOMAIN s = 1 .. Len(s)
           /\ \A i \in 1 .. Len(s) : s[i] \in Messages /\ s[i].calls \in Seq(STRING)
                                     /\ Len(s[i].calls) \in Nat /\ DOMAIN s[i].calls = 1 .. Len(s[i].calls)
<1>1. Len(s) \in Nat /\ DOMAIN s = 1 .. Len(s) /\ \A i \in 1 .. Len(s) : s[i] \in Messages BY DEF Convos
<1>2. \A i \in 1 .. Len(s) : s[i].calls \in Seq(STRING) BY <1>1 DEF Messages
<1> QED BY <1>1, <1>2

\* An interval of n numbers.
LEMMA IntervalIs ==
    ASSUME NEW a \in Int, NEW n \in Nat
    PROVE  IsFiniteSet(a + 1 .. a + n) /\ Cardinality(a + 1 .. a + n) = n
<1>1. a + 1 \in Int /\ a + n \in Int OBVIOUS
<1>2. IsFiniteSet(a + 1 .. a + n)
      /\ Cardinality(a + 1 .. a + n) = IF a + 1 > a + n THEN 0 ELSE (a + n) - (a + 1) + 1
      BY <1>1, FS_Interval
<1> QED BY <1>2

\* In an answered group every one of the n positions after the call holds a result of it:
\* n different calls have n different results among n positions.
LEMMA AnsweredIs ==
    ASSUME NEW s \in Convos, NEW h \in DOMAIN s, Answered(s, h)
    PROVE  /\ Len(s[h].calls) \in Nat \ {0} /\ h + Len(s[h].calls) <= Len(s)
           /\ \A j \in h + 1 .. h + Len(s[h].calls) : IsTool(s[j]) /\ s[j].answers \in Range(s[h].calls)
<1> DEFINE c == s[h].calls
           n == Len(c)
           B == h + 1 .. h + n
           result(k) == CHOOSE j \in B : IsTool(s[j]) /\ s[j].answers = c[k]
           f == [k \in 1 .. n |-> result(k)]
<1>1. h \in Int /\ c \in Seq(STRING) /\ n \in Nat /\ DOMAIN c = 1 .. n BY ConvoIs
<1>2. n # 0 /\ h + n <= Len(s) BY <1>1 DEF Answered, Opens
<1>3. /\ \A k \in 1 .. n : \E j \in B : IsTool(s[j]) /\ s[j].answers = c[k]
      /\ \A k, l \in 1 .. n : c[k] = c[l] => k = l
      BY <1>1 DEF Answered
<1> HIDE DEF c, n, B
<1>4. \A k \in 1 .. n : result(k) \in B /\ IsTool(s[result(k)]) /\ s[result(k)].answers = c[k] BY <1>3
<1> HIDE DEF result
<1>5. f \in Injection(1 .. n, B)
  <2>1. \A k, l \in 1 .. n : f[k] = f[l] => k = l BY <1>3, <1>4
  <2>2. f \in [1 .. n -> B] BY <1>4
  <2> QED BY <2>1, <2>2 DEF Injection, IsInjective
<1>6. IsFiniteSet(B) /\ Cardinality(B) = n BY <1>1, IntervalIs DEF B
<1>7. Cardinality(1 .. n) = n
  <2>1. Cardinality(0 + 1 .. 0 + n) = n BY <1>1, IntervalIs, 0 \in Int
  <2> QED BY <2>1, <1>1
<1>8. f \in Surjection(1 .. n, B)
  <2> HIDE DEF f
  <2> QED BY <1>5, <1>6, <1>7, FS_Injection
<1>9. ASSUME NEW j \in B PROVE IsTool(s[j]) /\ s[j].answers \in Range(c)
  <2>1. PICK k \in 1 .. n : f[k] = j BY <1>8 DEF Surjection
  <2>2. IsTool(s[j]) /\ s[j].answers = c[k] BY <2>1, <1>4
  <2> QED BY <2>2, <1>1 DEF Range
<1> QED BY <1>1, <1>2, <1>9 DEF n, c, B

\* Whether a group is answered depends on its own messages only.
LEMMA AnsweredMoves ==
    ASSUME NEW s \in Convos, NEW t \in Convos, NEW d \in Int, NEW h \in DOMAIN s, Answered(s, h),
           h + d \in DOMAIN t, h + Len(s[h].calls) + d <= Len(t),
           \A j \in h .. h + Len(s[h].calls) : t[j + d] = s[j]
    PROVE  Answered(t, h + d) /\ Len(t[h + d].calls) = Len(s[h].calls)
<1> DEFINE n == Len(s[h].calls)
<1>1. h \in Int /\ n \in Nat /\ DOMAIN s[h].calls = 1 .. n BY ConvoIs
<1>2. t[h + d] = s[h] BY <1>1
<1>3. \A k \in 1 .. n : \E j \in h + d + 1 .. h + d + n : IsTool(t[j]) /\ t[j].answers = s[h].calls[k]
  <2> SUFFICES ASSUME NEW k \in 1 .. n
               PROVE  \E j \in h + d + 1 .. h + d + n : IsTool(t[j]) /\ t[j].answers = s[h].calls[k]
    OBVIOUS
  <2>1. PICK j \in h + 1 .. h + n : IsTool(s[j]) /\ s[j].answers = s[h].calls[k] BY <1>1 DEF Answered
  <2>2. j + d \in h + d + 1 .. h + d + n /\ t[j + d] = s[j] BY <1>1
  <2> QED BY <2>1, <2>2
<1>4. h + d + n <= Len(t)
  <2>1. Len(t) \in Nat BY ConvoIs
  <2> QED BY <2>1, <1>1
<1> QED BY <1>1, <1>2, <1>3, <1>4 DEF Answered

\* Membership of a position, read off: plain, or in a group.
LEMMA ShowableIs ==
    ASSUME NEW s \in Convos, NEW i \in DOMAIN s
    PROVE  i \in Showable(s) <=>
             IsPlain(s[i]) \/ \E h \in DOMAIN s : h <= i /\ Answered(s, h) /\ i <= h + Len(s[h].calls)
<1>1. DOMAIN s = 1 .. Len(s) /\ Len(s) \in Nat BY ConvoIs
<1>2. \A h \in 1 .. i : h \in DOMAIN s /\ h <= i BY <1>1
<1>3. \A h \in DOMAIN s : h <= i => h \in 1 .. i BY <1>1
<1> QED BY <1>2, <1>3 DEF Showable, IsPlain

\* Every group of s that holds position i stands in t, d positions further.
GroupsMove(s, t, d, i) ==
    \A h \in DOMAIN s :
        Answered(s, h) /\ h <= i /\ i <= h + Len(s[h].calls) =>
            /\ h + d \in DOMAIN t /\ h + Len(s[h].calls) + d <= Len(t)
            /\ \A j \in h .. h + Len(s[h].calls) : t[j + d] = s[j]

\* A message is shown where it is moved to, if its group is moved with it.
LEMMA ShowableMoves ==
    ASSUME NEW s \in Convos, NEW t \in Convos, NEW d \in Int,
           NEW i \in DOMAIN s, i \in Showable(s), i + d \in DOMAIN t, t[i + d] = s[i], GroupsMove(s, t, d, i)
    PROVE  i + d \in Showable(t)
<1>1. CASE IsPlain(s[i])
  BY <1>1, ShowableIs
<1>2. CASE ~IsPlain(s[i])
  <2>1. PICK h \in DOMAIN s : h <= i /\ Answered(s, h) /\ i <= h + Len(s[h].calls) BY <1>2, ShowableIs
  <2>2. Answered(t, h + d) /\ Len(t[h + d].calls) = Len(s[h].calls) /\ h + d \in DOMAIN t
        BY <2>1, AnsweredMoves DEF GroupsMove
  <2>3. h \in Int /\ i \in Int /\ Len(s[h].calls) \in Nat BY <2>1, ConvoIs
  <2>4. h + d <= i + d /\ i + d <= h + d + Len(t[h + d].calls) BY <2>1, <2>2, <2>3
  <2> QED BY <2>2, <2>4, ShowableIs
<1> QED BY <1>1, <1>2

\* Whole groups, one part after the other, stay whole.
LEMMA WellPairedConcat ==
    ASSUME NEW s \in Convos, NEW t \in Convos, WellPaired(s), WellPaired(t)
    PROVE  s \o t \in Convos /\ WellPaired(s \o t)
<1> DEFINE u == s \o t
           a == Len(s)
<1>1. a \in Nat /\ Len(t) \in Nat /\ DOMAIN s = 1 .. a /\ DOMAIN t = 1 .. Len(t) BY ConvoIs
<1>2. u \in Convos /\ Len(u) = a + Len(t) BY DEF Convos
<1>3. DOMAIN u = 1 .. a + Len(t) BY <1>2, ConvoIs
<1>4. \A i \in 1 .. a : u[i] = s[i] BY DEF Convos
<1>5. \A i \in 1 .. Len(t) : u[i + a] = t[i] BY DEF Convos
<1> HIDE DEF u, a
<1>6. ASSUME NEW i \in 1 .. a PROVE i \in Showable(u)
  <2>1. i \in Showable(s) /\ i \in DOMAIN s BY <1>1 DEF WellPaired
  <2>2. GroupsMove(s, u, 0, i)
    <3> SUFFICES ASSUME NEW h \in DOMAIN s, Answered(s, h)
                 PROVE  /\ h + 0 \in DOMAIN u /\ h + Len(s[h].calls) + 0 <= Len(u)
                        /\ \A j \in h .. h + Len(s[h].calls) : u[j + 0] = s[j]
      BY DEF GroupsMove
    <3>1. h \in 1 .. a /\ Len(s[h].calls) \in Nat /\ h + Len(s[h].calls) <= a BY <1>1, AnsweredIs DEF a
    <3> QED BY <3>1, <1>1, <1>2, <1>3, <1>4
  <2>3. i + 0 \in DOMAIN u /\ u[i + 0] = s[i] /\ i + 0 = i BY <1>1, <1>3, <1>4
  <2>4. i + 0 \in Showable(u) BY <2>1, <2>2, <2>3, <1>2, ShowableMoves
  <2> QED BY <2>3, <2>4
<1>7. ASSUME NEW i \in 1 .. Len(t) PROVE i + a \in Showable(u)
  <2>1. i \in Showable(t) /\ i \in DOMAIN t BY <1>1 DEF WellPaired
  <2>2. GroupsMove(t, u, a, i)
    <3> SUFFICES ASSUME NEW h \in DOMAIN t, Answered(t, h)
                 PROVE  /\ h + a \in DOMAIN u /\ h + Len(t[h].calls) + a <= Len(u)
                        /\ \A j \in h .. h + Len(t[h].calls) : u[j + a] = t[j]
      BY DEF GroupsMove
    <3>1. h \in 1 .. Len(t) /\ Len(t[h].calls) \in Nat /\ h + Len(t[h].calls) <= Len(t) BY <1>1, AnsweredIs
    <3> QED BY <3>1, <1>1, <1>2, <1>3, <1>5
  <2>3. i + a \in DOMAIN u /\ u[i + a] = t[i] BY <1>1, <1>3, <1>5
  <2> QED BY <2>1, <2>2, <2>3, <1>1, <1>2, ShowableMoves
<1>8. ASSUME NEW i \in DOMAIN u PROVE i \in Showable(u)
  <2>1. CASE i <= a BY <2>1, <1>1, <1>3, <1>6
  <2>2. CASE i > a
    <3>1. i - a \in 1 .. Len(t) /\ (i - a) + a = i BY <2>2, <1>1, <1>3
    <3> QED BY <3>1, <1>7
  <2> QED BY <2>1, <2>2, <1>1, <1>3
<1>9. Showable(u) \subseteq DOMAIN u BY DEF Showable
<1>10. u \in Convos /\ WellPaired(u) BY <1>2, <1>8, <1>9 DEF WellPaired
<1> QED BY <1>10 DEF u

\* In front of a message that is no result a well paired sequence can be cut.
LEMMA WellPairedCut ==
    ASSUME NEW s \in Convos, WellPaired(s), NEW m \in DOMAIN s, ~IsTool(s[m])
    PROVE  /\ SubSeq(s, 1, m - 1) \in Convos /\ WellPaired(SubSeq(s, 1, m - 1))
           /\ SubSeq(s, m, Len(s)) \in Convos /\ WellPaired(SubSeq(s, m, Len(s)))
<1> DEFINE a == SubSeq(s, 1, m - 1)
           b == SubSeq(s, m, Len(s))
           n == Len(s)
           size(h) == Len(s[h].calls)
<1>1. n \in Nat /\ DOMAIN s = 1 .. n /\ m \in 1 .. n BY ConvoIs
<1>2. a \in Convos /\ Len(a) = m - 1 /\ \A i \in 1 .. m - 1 : a[i] = s[i] BY <1>1 DEF Convos
<1>3. b \in Convos /\ Len(b) = n - m + 1 /\ \A i \in 1 .. n - m + 1 : b[i] = s[i + m - 1] BY <1>1 DEF Convos
<1>4. DOMAIN a = 1 .. m - 1 /\ DOMAIN b = 1 .. n - m + 1 BY <1>2, <1>3, ConvoIs
<1>5. ASSUME NEW h \in DOMAIN s, Answered(s, h)
      PROVE  size(h) \in Nat /\ h + size(h) <= n /\ (h + size(h) < m \/ m <= h)
  <2>1. size(h) \in Nat /\ h + size(h) <= n /\ \A j \in h + 1 .. h + size(h) : IsTool(s[j]) BY <1>5, AnsweredIs
  <2>2. m \notin h + 1 .. h + size(h) BY <2>1
  <2> QED BY <2>1, <2>2, <1>1
<1> HIDE DEF a, b, n, size
<1>6. ASSUME NEW i \in DOMAIN a PROVE i \in Showable(a)
  <2>1. i \in Showable(s) /\ i \in DOMAIN s BY <1>1, <1>4 DEF WellPaired
  <2>2. i + 0 = i /\ i + 0 \in DOMAIN a /\ a[i + 0] = s[i] BY <1>2, <1>4
  <2>3. GroupsMove(s, a, 0, i)
    <3> SUFFICES ASSUME NEW h \in DOMAIN s, Answered(s, h), h <= i
                 PROVE  /\ h + 0 \in DOMAIN a /\ h + size(h) + 0 <= Len(a)
                        /\ \A j \in h .. h + size(h) : a[j + 0] = s[j]
      BY DEF GroupsMove, size
    <3>1. h \in 1 .. n /\ size(h) \in Nat /\ h + size(h) < m BY <1>1, <1>4, <1>5
    <3> QED BY <3>1, <1>1, <1>2, <1>4
  <2>4. i + 0 \in Showable(a) BY <2>1, <2>2, <2>3, <1>2, ShowableMoves
  <2> QED BY <2>2, <2>4
<1>7. ASSUME NEW k \in DOMAIN b PROVE k \in Showable(b)
  <2> DEFINE i == k + m - 1
             d == 1 - m
  <2>1. i \in 1 .. n /\ m <= i /\ i + d = k /\ d \in Int BY <1>1, <1>4
  <2>2. i \in Showable(s) /\ i \in DOMAIN s BY <2>1, <1>1 DEF WellPaired
  <2>3. i + d \in DOMAIN b /\ b[i + d] = s[i] BY <2>1, <1>3, <1>4
  <2>4. GroupsMove(s, b, d, i)
    <3> SUFFICES ASSUME NEW h \in DOMAIN s, Answered(s, h), i <= h + size(h)
                 PROVE  /\ h + d \in DOMAIN b /\ h + size(h) + d <= Len(b)
                        /\ \A j \in h .. h + size(h) : b[j + d] = s[j]
      BY DEF GroupsMove, size
    <3>1. h \in m .. n /\ size(h) \in Nat /\ h + size(h) <= n BY <1>1, <1>5, <2>1
    <3>2. \A j \in h .. h + size(h) : j + d \in 1 .. n - m + 1 /\ (j + d) + m - 1 = j BY <3>1, <1>1
    <3>3. \A j \in h .. h + size(h) : b[j + d] = s[j] BY <3>2, <1>3
    <3> QED BY <3>1, <3>3, <1>1, <1>3, <1>4
  <2> HIDE DEF i, d
  <2> QED BY <2>1, <2>2, <2>3, <2>4, <1>3, ShowableMoves
<1>8. Showable(a) \subseteq DOMAIN a /\ Showable(b) \subseteq DOMAIN b BY DEF Showable
<1>9. WellPaired(a) /\ WellPaired(b) BY <1>6, <1>7, <1>8 DEF WellPaired
<1> QED BY <1>2, <1>3, <1>9 DEF a, b, n

\* Dropping what lies between two such cuts keeps a sequence well paired.
LEMMA WellPairedWithout ==
    ASSUME NEW s \in Convos, WellPaired(s), NEW i \in DOMAIN s, ~IsTool(s[i]),
           NEW e \in i .. Len(s), e = Len(s) \/ ~IsTool(s[e + 1])
    PROVE  Without(s, i, e) \in Convos /\ WellPaired(Without(s, i, e))
<1>1. Len(s) \in Nat /\ DOMAIN s = 1 .. Len(s) BY ConvoIs
<1>2. SubSeq(s, 1, i - 1) \in Convos /\ WellPaired(SubSeq(s, 1, i - 1)) BY WellPairedCut
<1>3. SubSeq(s, e + 1, Len(s)) \in Convos /\ WellPaired(SubSeq(s, e + 1, Len(s)))
  <2>1. CASE e = Len(s)
    <3>1. SubSeq(s, e + 1, Len(s)) = <<>> BY <2>1, <1>1 DEF Convos
    <3>2. <<>> \in Convos BY DEF Convos
    <3>3. DOMAIN <<>> = {} /\ WellPaired(<<>>) BY DEF WellPaired, Showable
    <3> QED BY <3>1, <3>2, <3>3
  <2>2. CASE e # Len(s)
    <3>1. e \in Int /\ e + 1 \in 1 .. Len(s)
      <4> DEFINE n == Len(s)
      <4>1. i \in 1 .. n /\ e \in i .. n /\ e # n /\ n \in Nat BY <2>2, <1>1
      <4> HIDE DEF n
      <4>2. e \in Int /\ i \in Int BY <4>1
      <4>3. e <= n /\ 1 <= i /\ i <= e BY <4>1
      <4>4. e + 1 \in 1 .. n BY <4>1, <4>2, <4>3
      <4> QED BY <4>2, <4>4 DEF n
    <3>2. e + 1 \in DOMAIN s /\ ~IsTool(s[e + 1]) BY <3>1, <2>2, <1>1
    <3> QED BY <3>2, WellPairedCut
  <2> QED BY <2>1, <2>2
<1> QED BY <1>2, <1>3, WellPairedConcat DEF Without

\* The skip ends at the first message that is no result.
LEMMA PastResultsIs ==
    ASSUME NEW s \in Convos, NEW i \in 1 .. Len(s) + 1
    PROVE  /\ PastResults(s, i) \in i .. Len(s) + 1
           /\ \A k \in i .. PastResults(s, i) - 1 : k \in DOMAIN s /\ IsTool(s[k])
           /\ PastResults(s, i) \in DOMAIN s => ~IsTool(s[PastResults(s, i)])
<1> DEFINE n == Len(s)
           S == {k \in i .. n : ~IsTool(s[k])} \cup {n + 1}
           p == PastResults(s, i)
<1>1. n \in Nat /\ DOMAIN s = 1 .. n /\ i \in 1 .. n + 1 BY ConvoIs
<1>2. S \in SUBSET Nat /\ n + 1 \in S /\ \A k \in S : k \in i .. n + 1 BY <1>1
<1>3. p = Min(S) BY DEF PastResults
<1>4. p \in S /\ \A k \in S : p <= k
  <2> HIDE DEF S, p
  <2> QED BY <1>2, <1>3, MinIs
<1>5. p \in i .. n + 1 BY <1>2, <1>4
<1>6. p # n + 1 => ~IsTool(s[p]) BY <1>4
<1>7. ASSUME NEW k \in i .. p - 1 PROVE k \in DOMAIN s /\ IsTool(s[k])
  <2> HIDE DEF p, n
  <2>1. k \in i .. n /\ k < p /\ k \in 1 .. n BY <1>1, <1>5
  <2>2. k \notin S BY <2>1, <1>1, <1>4, <1>5
  <2> QED BY <2>1, <2>2, <1>1
<1> HIDE DEF p, n, S
<1> QED BY <1>1, <1>5, <1>6, <1>7 DEF p, n

\* What the scan takes for a complete group is a group every call of which is answered, and
\* the other way round.
LEMMA CompleteIs ==
    ASSUME NEW s \in Convos, NEW i \in DOMAIN s, Opens(s[i])
    PROVE  Complete(s, i) <=> Answered(s, i)
<1> DEFINE c == s[i].calls
           n == Len(c)
<1>1. i \in 1 .. Len(s) /\ Len(s) \in Nat /\ c \in Seq(STRING) /\ n \in Nat /\ DOMAIN c = 1 .. n BY ConvoIs
<1>2. i + 1 \in 1 .. Len(s) + 1 BY <1>1
<1>3. /\ PastResults(s, i + 1) \in i + 1 .. Len(s) + 1
      /\ \A k \in i + 1 .. PastResults(s, i + 1) - 1 : k \in DOMAIN s /\ IsTool(s[k])
      /\ PastResults(s, i + 1) \in DOMAIN s => ~IsTool(s[PastResults(s, i + 1)])
      BY <1>2, PastResultsIs
<1>4. IsFiniteSet(1 .. n) /\ Cardinality(1 .. n) = n
  <2>1. IsFiniteSet(0 + 1 .. 0 + n) /\ Cardinality(0 + 1 .. 0 + n) = n BY <1>1, 0 \in Int, IntervalIs
  <2> QED BY <2>1, <1>1
<1>5. c \in Surjection(1 .. n, Range(c)) BY <1>1 DEF Surjection, Range
<1>6. Cardinality(Range(c)) = n <=> \A k, l \in 1 .. n : c[k] = c[l] => k = l
  <2>1. Cardinality(Range(c)) = Cardinality(1 .. n) <=> c \in Injection(1 .. n, Range(c))
    <3> HIDE DEF c, n
    <3> QED BY <1>4, <1>5, FS_Surjection
  <2>2. c \in Injection(1 .. n, Range(c)) <=> \A k, l \in 1 .. n : c[k] = c[l] => k = l
        BY <1>1, <1>5 DEF Surjection, Injection, IsInjective
  <2> QED BY <2>1, <2>2, <1>4
<1>7. ASSUME Complete(s, i) PROVE Answered(s, i)
  <2>1. /\ Cardinality(Range(c)) = n /\ PastResults(s, i + 1) > i + n
        /\ Answers(s, i + 1, i + n) = Range(c)
        BY <1>7 DEF Complete
  <2>2. i + n <= Len(s) /\ \A k \in i + 1 .. i + n : IsTool(s[k]) BY <2>1, <1>1, <1>3
  <2>3. ASSUME NEW k \in 1 .. n PROVE \E j \in i + 1 .. i + n : IsTool(s[j]) /\ s[j].answers = c[k]
    <3>1. c[k] \in Answers(s, i + 1, i + n) BY <2>1, <1>1 DEF Range
    <3> QED BY <3>1, <2>2 DEF Answers
  <2>4. \A k, l \in 1 .. n : c[k] = c[l] => k = l BY <2>1, <1>6
  <2> QED BY <1>1, <2>2, <2>3, <2>4 DEF Answered
<1>8. ASSUME Answered(s, i) PROVE Complete(s, i)
  <2>1. i + n <= Len(s) /\ \A j \in i + 1 .. i + n : IsTool(s[j]) /\ s[j].answers \in Range(c) BY <1>8, AnsweredIs
  <2>2. Cardinality(Range(c)) = n BY <1>8, <1>1, <1>6 DEF Answered
  <2>3. PastResults(s, i + 1) > i + n
    <3> SUFFICES ASSUME PastResults(s, i + 1) <= i + n PROVE FALSE BY <1>1, <1>3
    <3>1. PastResults(s, i + 1) \in i + 1 .. i + n /\ PastResults(s, i + 1) \in 1 .. Len(s) BY <1>1, <1>3, <2>1
    <3> QED BY <3>1, <1>1, <1>3, <2>1, ConvoIs
  <2>4. Answers(s, i + 1, i + n) = Range(c)
    <3>1. Answers(s, i + 1, i + n) \subseteq Range(c) BY <2>1 DEF Answers
    <3>2. ASSUME NEW x \in Range(c) PROVE x \in Answers(s, i + 1, i + n)
      <4>1. PICK k \in 1 .. n : x = c[k] BY <1>1 DEF Range
      <4>2. \E j \in i + 1 .. i + n : s[j].answers = c[k] BY <1>8, <1>1, <4>1 DEF Answered
      <4> QED BY <4>1, <4>2 DEF Answers
    <3> QED BY <3>1, <3>2
  <2> QED BY <2>2, <2>3, <2>4 DEF Complete
<1> QED BY <1>7, <1>8

\* The scan goes forward, and what it takes at a position is well paired.
LEMMA AfterIs ==
    ASSUME NEW s \in Convos, NEW i \in DOMAIN s
    PROVE  After(s, i) \in i + 1 .. Len(s) + 1
<1>1. i \in 1 .. Len(s) /\ Len(s) \in Nat /\ Len(s[i].calls) \in Nat BY ConvoIs
<1>2. CASE ~Opens(s[i])
  BY <1>1, <1>2 DEF After
<1>3. CASE Opens(s[i]) /\ Complete(s, i)
  <2>1. i + Len(s[i].calls) <= Len(s) BY <1>3, CompleteIs DEF Answered
  <2> QED BY <1>1, <1>3, <2>1 DEF After
<1>4. CASE Opens(s[i]) /\ ~Complete(s, i)
  <2>1. i + 1 \in 1 .. Len(s) + 1 BY <1>1
  <2> QED BY <1>4, <2>1, PastResultsIs DEF After
<1> QED BY <1>2, <1>3, <1>4

\* What the scan takes at one place is nothing, a message or a whole group.
LEMMA TakenIs ==
    ASSUME NEW s \in Convos, NEW i \in DOMAIN s
    PROVE  Taken(s, i) \in Convos /\ WellPaired(Taken(s, i))
<1> DEFINE t == Taken(s, i)
           n == Len(s[i].calls)
<1>1. i \in 1 .. Len(s) /\ Len(s) \in Nat /\ n \in Nat BY ConvoIs
<1>2. CASE Opens(s[i]) /\ Complete(s, i)
  <2>1. Answered(s, i) /\ i + n <= Len(s) BY <1>2, CompleteIs DEF Answered
  <2>2. t = SubSeq(s, i, i + n) BY <1>2 DEF Taken
  <2>3. t \in Convos /\ Len(t) = n + 1 /\ \A k \in 1 .. n + 1 : t[k] = s[i + k - 1] BY <2>1, <2>2, <1>1 DEF Convos
  <2>4. DOMAIN t = 1 .. n + 1 BY <2>3, ConvoIs
  <2> HIDE DEF t
  <2> DEFINE d == 1 - i
  <2>5. d \in Int /\ i + d = 1 /\ i + d \in DOMAIN t /\ i + n + d <= Len(t) BY <1>1, <2>3, <2>4
  <2>6. \A j \in i .. i + n : t[j + d] = s[j]
    <3> SUFFICES ASSUME NEW j \in i .. i + n PROVE t[j + d] = s[j] OBVIOUS
    <3>1. j + d \in 1 .. n + 1 /\ i + (j + d) - 1 = j BY <1>1
    <3> QED BY <3>1, <2>3
  <2> HIDE DEF d
  <2>7. Answered(t, i + d) /\ Len(t[i + d].calls) = n
    <3>1. Answered(t, i + d) /\ Len(t[i + d].calls) = Len(s[i].calls) BY <2>1, <2>3, <2>5, <2>6, AnsweredMoves
    <3> QED BY <3>1
  <2>8. ASSUME NEW k \in DOMAIN t PROVE k \in Showable(t)
    <3>1. 1 \in DOMAIN t /\ 1 <= k /\ k <= 1 + Len(t[1].calls) /\ Answered(t, 1) BY <1>1, <2>4, <2>5, <2>7
    <3> QED BY <3>1, <2>3, ShowableIs
  <2>9. Showable(t) \subseteq DOMAIN t BY DEF Showable
  <2> QED BY <2>3, <2>8, <2>9 DEF WellPaired, t
<1>3. CASE ~(Opens(s[i]) /\ Complete(s, i)) /\ (Opens(s[i]) \/ IsTool(s[i]))
  <2>1. t = <<>> BY <1>3 DEF Taken
  <2>2. <<>> \in Convos /\ DOMAIN <<>> = {} /\ WellPaired(<<>>) BY DEF Convos, WellPaired, Showable
  <2> QED BY <2>1, <2>2
<1>4. CASE IsPlain(s[i])
  <2>1. t = <<s[i]>> /\ t \in Convos /\ DOMAIN t = {1} /\ t[1] = s[i] BY <1>1, <1>4 DEF Taken, IsPlain, Convos
  <2> HIDE DEF t
  <2>2. \A k \in DOMAIN t : k \in Showable(t) BY <2>1, <1>4, ShowableIs
  <2>3. Showable(t) \subseteq DOMAIN t BY DEF Showable
  <2> QED BY <2>1, <2>2, <2>3 DEF WellPaired, t
<1> QED BY <1>2, <1>3, <1>4 DEF IsPlain

\* Pairing leaves groups that are answered and plain messages, whatever it is given.
LEMMA PairIs ==
    ASSUME NEW s \in Convos
    PROVE  Pair(s) \in Convos /\ WellPaired(Pair(s))
<1> DEFINE n == Len(s)
           piece == [i \in DOMAIN s |-> Taken(s, i)]
           next == [i \in DOMAIN s |-> After(s, i)]
           T == {t \in Convos : WellPaired(t)}
<1>1. n \in Nat /\ DOMAIN s = 1 .. n BY ConvoIs
<1>2. \A i \in 1 .. n : After(s, i) \in i + 1 .. n + 1 BY <1>1, AfterIs
<1>3. next \in [1 .. n -> 1 .. n + 1] /\ \A i \in 1 .. n : next[i] > i BY <1>1, <1>2
<1>4. <<>> \in T BY DEF Convos, WellPaired, Showable
<1>5. ASSUME NEW i \in 1 .. n, NEW t \in T PROVE piece[i] \o t \in T
  <2>1. piece[i] = Taken(s, i) /\ piece[i] \in Convos /\ WellPaired(piece[i]) BY <1>1, TakenIs
  <2> HIDE DEF piece
  <2> QED BY <2>1, WellPairedConcat
<1>6. Pair(s) = Chain(n, piece, next) BY DEF Pair
<1> HIDE DEF T, n, piece, next
<1>7. Chain(n, piece, next) \in T BY <1>1, <1>3, <1>4, <1>5, ScanInduction
<1> QED BY <1>6, <1>7 DEF T

-----------------------------------------------------------------------------
(* What the compressors do to a well paired sequence. *)

\* Picking whole groups and plain messages keeps a sequence well paired: the positions of a
\* group follow each other, and so do their ranks.
LEMMA PickKeepsGroups ==
    ASSUME NEW s \in Convos, NEW P \in SUBSET DOMAIN s, P \subseteq Showable(s),
           \A i \in P, h \in DOMAIN s :
              Answered(s, h) /\ h <= i /\ i <= h + Len(s[h].calls) => \A j \in h .. h + Len(s[h].calls) : j \in P
    PROVE  Pick(s, P) \in Convos /\ WellPaired(Pick(s, P))
<1> DEFINE t == Pick(s, P)
           c == Cardinality(P)
<1>1. Len(s) \in Nat /\ DOMAIN s = 1 .. Len(s) BY ConvoIs
<1>2. P \in SUBSET (1 .. Len(s)) /\ P \in SUBSET Int /\ IsFiniteSet(P) /\ c \in Nat BY <1>1, PositionsFinite
<1>3. /\ t \in Convos /\ Len(t) = c
      /\ \A k \in 1 .. c : Nth(P, k) \in P /\ t[k] = s[Nth(P, k)]
      /\ \A i \in P : Rank(P, i) \in 1 .. c /\ t[Rank(P, i)] = s[i]
      BY PickIs DEF Convos
<1>4. \A k \in 1 .. c : Rank(P, Nth(P, k)) = k BY <1>2, NthIs
<1>5. DOMAIN t = 1 .. c BY <1>3, ConvoIs
<1> HIDE DEF t, c
<1>6. ASSUME NEW k \in DOMAIN t PROVE k \in Showable(t)
  <2> DEFINE i == Nth(P, k)
             d == k - i
  <2>1. i \in P /\ i \in DOMAIN s /\ i \in Showable(s) /\ i \in Int /\ k \in Int /\ Rank(P, i) = k /\ t[k] = s[i]
        BY <1>1, <1>2, <1>3, <1>4, <1>5
  <2> HIDE DEF i
  <2>2. d \in Int /\ i + d = k BY <2>1
  <2>3. GroupsMove(s, t, d, i)
    <3> SUFFICES ASSUME NEW h \in DOMAIN s, Answered(s, h), h <= i, i <= h + Len(s[h].calls)
                 PROVE  /\ h + d \in DOMAIN t /\ h + Len(s[h].calls) + d <= Len(t)
                        /\ \A j \in h .. h + Len(s[h].calls) : t[j + d] = s[j]
      BY DEF GroupsMove
    <3> DEFINE n == Len(s[h].calls)
    <3>1. h \in Int /\ n \in Nat BY ConvoIs
    <3>2. \A j \in h .. h + n : j \in P BY <2>1
    <3> HIDE DEF n, d
    <3>3. \A j \in h .. h + n : Rank(P, j) = Rank(P, h) + (j - h)
      <4>1. \A j \in h + 1 .. h + n : j \in P BY <3>1, <3>2
      <4> QED BY <3>1, <4>1, <1>2, RankRun
    <3>4. h \in P /\ h + n \in P BY <3>1, <3>2
    <3>5. Rank(P, h) \in 1 .. c /\ Rank(P, h + n) \in 1 .. c BY <3>4, <1>3
    <3>6. i \in h .. h + n BY <2>1, <3>1 DEF n
    <3>7. d = Rank(P, h) - h BY <3>1, <3>3, <3>5, <3>6, <2>1 DEF d
    <3>8. \A j \in h .. h + n : j + d = Rank(P, j) BY <3>1, <3>3, <3>5, <3>7
    <3>9. \A j \in h .. h + n : t[j + d] = s[j] BY <3>2, <3>8, <1>3
    <3>10. h + d = Rank(P, h) /\ h + n + d = Rank(P, h + n) BY <3>1, <3>8
    <3>11. h + d \in DOMAIN t BY <3>5, <3>10, <1>5
    <3>12. h + n + d <= Len(t) BY <3>5, <3>10, <1>2, <1>3
    <3> QED BY <3>9, <3>11, <3>12 DEF n
  <2> HIDE DEF d
  <2>4. i + d \in Showable(t) BY <2>1, <2>2, <2>3, <1>3, ShowableMoves
  <2> QED BY <2>2, <2>4
<1>7. Showable(t) \subseteq DOMAIN t BY DEF Showable
<1>8. t \in Convos /\ WellPaired(t) BY <1>3, <1>6, <1>7 DEF WellPaired
<1> QED BY <1>8 DEF t

\* The system messages are in no group.
LEMMA SystemsIs ==
    ASSUME NEW s \in Convos, WellPaired(s)
    PROVE  Systems(s) \in Convos /\ WellPaired(Systems(s))
<1> DEFINE P == {i \in DOMAIN s : s[i].role = "system"}
<1>1. P \in SUBSET DOMAIN s /\ P \subseteq Showable(s) BY DEF WellPaired
<1>2. ASSUME NEW i \in P, NEW h \in DOMAIN s, Answered(s, h), h <= i, i <= h + Len(s[h].calls)
      PROVE  FALSE
  <2>1. h \in Int /\ Len(s[h].calls) \in Nat /\ i \in Int /\ h # i BY <1>2, ConvoIs DEF Answered, Opens
  <2>2. i \in h + 1 .. h + Len(s[h].calls) BY <2>1, <1>2
  <2> QED BY <2>2, <1>2, AnsweredIs DEF IsTool
<1> HIDE DEF P
<1>3. Pick(s, P) \in Convos /\ WellPaired(Pick(s, P)) BY <1>1, <1>2, PickKeepsGroups
<1> QED BY <1>3 DEF Systems, P

\* Without the system messages every group is still whole.
LEMMA SpokenIs ==
    ASSUME NEW s \in Convos, WellPaired(s)
    PROVE  Spoken(s) \in Convos /\ WellPaired(Spoken(s))
<1> DEFINE P == {i \in DOMAIN s : s[i].role # "system"}
<1>1. P \in SUBSET DOMAIN s /\ P \subseteq Showable(s) BY DEF WellPaired
<1>2. ASSUME NEW h \in DOMAIN s, Answered(s, h), NEW j \in h .. h + Len(s[h].calls)
      PROVE  j \in P
  <2>1. h \in 1 .. Len(s) /\ Len(s) \in Nat /\ Len(s[h].calls) \in Nat /\ DOMAIN s = 1 .. Len(s) BY ConvoIs
  <2>2. h + Len(s[h].calls) <= Len(s) BY <1>2, AnsweredIs
  <2>3. j \in DOMAIN s BY <2>1, <2>2
  <2>4. CASE j = h BY <1>2, <2>3, <2>4 DEF Answered, Opens
  <2>5. CASE j # h
    <3>1. j \in h + 1 .. h + Len(s[h].calls) BY <2>1, <2>5
    <3>2. IsTool(s[j]) BY <3>1, <1>2, AnsweredIs
    <3> QED BY <2>3, <3>2 DEF IsTool
  <2> QED BY <2>4, <2>5
<1> HIDE DEF P
<1>3. Pick(s, P) \in Convos /\ WellPaired(Pick(s, P)) BY <1>1, <1>2, PickKeepsGroups
<1> QED BY <1>3 DEF Spoken, P

\* The summary's cut falls in front of a unit.
LEMMA CutIs ==
    ASSUME NEW s \in Convos, WellPaired(s)
    PROVE  /\ SummarizedLength(s) \in 0 .. Len(Spoken(s))
           /\ SummarizedLength(s) # 0 =>
                 SummarizedLength(s) + 1 \in DOMAIN Spoken(s) /\ ~IsTool(Spoken(s)[SummarizedLength(s) + 1])
<1> DEFINE p == Spoken(s)
           U == Units(p)
           cut == Cardinality(U) - KeepRecent
<1>1. p \in Convos /\ Len(p) \in Nat /\ DOMAIN p = 1 .. Len(p) BY SpokenIs, ConvoIs
<1>2. U \in SUBSET (1 .. Len(p)) /\ \A m \in U : m \in DOMAIN p /\ ~IsTool(p[m]) BY <1>1 DEF Units
<1>3. KeepRecent \in Nat /\ KeepRecent >= 1 BY Inputs DEF Inputs
<1>4. SummarizedLength(s) = IF cut > 0 THEN Nth(U, cut + 1) - 1 ELSE 0 BY DEF SummarizedLength
<1> HIDE DEF p, U
<1>5. U \in SUBSET Int /\ IsFiniteSet(U) /\ Cardinality(U) \in Nat BY <1>1, <1>2, PositionsFinite
<1>6. CASE cut > 0
  <2>1. cut + 1 \in 1 .. Cardinality(U) BY <1>3, <1>5, <1>6
  <2>2. Nth(U, cut + 1) \in U BY <2>1, <1>5, NthIs
  <2> DEFINE m == Nth(U, cut + 1)
  <2>3. m \in 1 .. Len(p) /\ m \in DOMAIN p /\ ~IsTool(p[m]) BY <2>2, <1>2
  <2>4. SummarizedLength(s) = m - 1 BY <1>4, <1>6
  <2> HIDE DEF m, cut
  <2>5. SummarizedLength(s) \in 0 .. Len(p) /\ SummarizedLength(s) + 1 = m BY <2>3, <2>4, <1>1
  <2> QED BY <2>3, <2>5 DEF p
<1>7. CASE ~(cut > 0)
  <2>1. SummarizedLength(s) = 0 BY <1>4, <1>7
  <2> QED BY <2>1, <1>1 DEF p
<1> QED BY <1>6, <1>7

\* The summary's cut is where a unit begins, so what is kept has whole groups.
LEMMA RecentIs ==
    ASSUME NEW s \in Convos, WellPaired(s)
    PROVE  Recent(s) \in Convos /\ WellPaired(Recent(s))
<1> DEFINE p == Spoken(s)
           k == SummarizedLength(s)
<1>1. p \in Convos /\ WellPaired(p) BY SpokenIs
<1>2. k \in 0 .. Len(p) /\ (k # 0 => k + 1 \in DOMAIN p /\ ~IsTool(p[k + 1])) BY CutIs
<1>3. Recent(s) = SubSeq(p, k + 1, Len(p)) BY DEF Recent
<1> HIDE DEF p, k
<1>4. CASE k = 0
  <2>1. Len(p) \in Nat /\ 0 + 1 = 1 BY <1>1, ConvoIs
  <2>2. SubSeq(p, 1, Len(p)) = p BY <1>1, <2>1 DEF Convos
  <2> QED BY <1>1, <1>3, <1>4, <2>1, <2>2
<1>5. CASE k # 0
  BY <1>1, <1>2, <1>3, <1>5, WellPairedCut
<1> QED BY <1>4, <1>5

\* In a well paired view an assistant's calls are all answered.
LEMMA OpensIs ==
    ASSUME NEW s \in Convos, WellPaired(s), NEW i \in DOMAIN s, Opens(s[i])
    PROVE  Answered(s, i)
<1>1. i \in Showable(s) BY DEF WellPaired
<1>2. PICK h \in DOMAIN s : h <= i /\ Answered(s, h) /\ i <= h + Len(s[h].calls)
      BY <1>1, ShowableIs DEF IsPlain
<1>3. h \in Int /\ i \in Int /\ Len(s[h].calls) \in Nat BY ConvoIs
<1>4. CASE h = i BY <1>2, <1>4
<1>5. CASE h # i
  <2>1. i \in h + 1 .. h + Len(s[h].calls) BY <1>2, <1>3, <1>5
  <2>2. IsTool(s[i]) BY <1>2, <2>1, AnsweredIs
  <2> QED BY <2>2 DEF IsTool, Opens
<1> QED BY <1>4, <1>5

\* A result in a well paired view answers a call of the last message before it that is no result.
LEMMA ResultIs ==
    ASSUME NEW s \in Convos, WellPaired(s), NEW i \in DOMAIN s, ~IsTool(s[i]),
           NEW k \in DOMAIN s, i < k, \A j \in i + 1 .. k : IsTool(s[j])
    PROVE  Answered(s, i) /\ k <= i + Len(s[i].calls) /\ s[k].answers \in Range(s[i].calls)
<1>1. i \in Int /\ k \in Int BY ConvoIs
<1>2. k \in i + 1 .. k /\ IsTool(s[k]) BY <1>1
<1>3. k \in Showable(s) /\ ~IsPlain(s[k]) BY <1>2 DEF WellPaired, IsPlain
<1>4. PICK h \in DOMAIN s : h <= k /\ Answered(s, h) /\ k <= h + Len(s[h].calls) BY <1>3, ShowableIs
<1>5. h \in Int /\ Len(s[h].calls) \in Nat /\ ~IsTool(s[h]) BY <1>4, ConvoIs DEF Answered, Opens, IsTool
<1>6. \A j \in h + 1 .. h + Len(s[h].calls) : IsTool(s[j]) /\ s[j].answers \in Range(s[h].calls)
      BY <1>4, AnsweredIs
<1>7. h \notin i + 1 .. k /\ i \notin h + 1 .. h + Len(s[h].calls) BY <1>5, <1>6
<1>8. h = i BY <1>1, <1>4, <1>5, <1>7
<1>9. k \in h + 1 .. h + Len(s[h].calls) BY <1>1, <1>4, <1>5, <1>8
<1> QED BY <1>4, <1>6, <1>8, <1>9

\* What counts as a call's group for trimming ends where the run of results ends.
LEMMA GroupEndIs ==
    ASSUME NEW s \in Convos, WellPaired(s), NEW i \in DOMAIN s, ~IsTool(s[i])
    PROVE  /\ GroupEnd(s, i) \in i .. Len(s)
           /\ GroupEnd(s, i) = Len(s) \/ ~IsTool(s[GroupEnd(s, i) + 1])
           /\ \A k \in i + 1 .. GroupEnd(s, i) : IsTool(s[k])
<1> DEFINE n == Len(s)
           S == {k \in i .. n : k = n \/ ~IsTool(s[k + 1]) \/ s[k + 1].answers \notin Range(s[i].calls)}
           e == GroupEnd(s, i)
<1>1. n \in Nat /\ DOMAIN s = 1 .. n /\ i \in 1 .. n BY ConvoIs
<1>2. S \in SUBSET Nat /\ n \in S /\ \A k \in S : k \in i .. n
  <2>1. n \in i .. n /\ \A k \in i .. n : k \in Nat
    <3> HIDE DEF n
    <3> QED BY <1>1
  <2>2. n \in S BY <2>1
  <2>3. \A k \in S : k \in i .. n OBVIOUS
  <2> HIDE DEF S
  <2> QED BY <2>1, <2>2, <2>3
<1>3. e = Min(S) BY DEF GroupEnd
<1>4. e \in S /\ \A k \in S : e <= k
  <2> HIDE DEF S, e
  <2> QED BY <1>2, <1>3, MinIs
<1>5. e \in i .. n BY <1>2, <1>4
<1>6. e = n \/ ~IsTool(s[e + 1]) \/ s[e + 1].answers \notin Range(s[i].calls) BY <1>4
<1>7. ASSUME NEW k \in i + 1 .. e PROVE IsTool(s[k])
  <2> HIDE DEF n, e
  <2>1. k - 1 \in i .. n /\ k - 1 < e /\ k - 1 # n /\ (k - 1) + 1 = k BY <1>1, <1>5
  <2>2. k - 1 \notin S BY <2>1, <1>1, <1>4, <1>5
  <2> QED BY <2>1, <2>2
<1> HIDE DEF n, S, e
<1>8. ASSUME e # n, IsTool(s[e + 1]) PROVE FALSE
  <2>1. i \in Int /\ e \in Int /\ e + 1 \in DOMAIN s /\ i < e + 1 BY <1>1, <1>5, <1>8
  <2>2. \A j \in i + 1 .. e + 1 : IsTool(s[j])
    <3> SUFFICES ASSUME NEW j \in i + 1 .. e + 1 PROVE IsTool(s[j]) OBVIOUS
    <3>1. j \in i + 1 .. e \/ j = e + 1 BY <2>1
    <3> QED BY <3>1, <1>7, <1>8
  <2>3. s[e + 1].answers \in Range(s[i].calls) BY <2>1, <2>2, ResultIs
  <2> QED BY <2>3, <1>6, <1>8
<1> QED BY <1>5, <1>7, <1>8 DEF e, n

\* The oldest tool group is deleted as a whole.
LEMMA GroupDropped ==
    ASSUME NEW s \in Convos, WellPaired(s), ToolGroups(s) # {}
    PROVE  /\ Min(ToolGroups(s)) \in ToolGroups(s) /\ \A i \in ToolGroups(s) : Min(ToolGroups(s)) <= i
           /\ LET i == Min(ToolGroups(s)) IN
              Without(s, i, GroupEnd(s, i)) \in Convos /\ WellPaired(Without(s, i, GroupEnd(s, i)))
<1> DEFINE i == Min(ToolGroups(s))
<1>1. ToolGroups(s) \in SUBSET Nat BY ConvoIs DEF ToolGroups
<1>2. i \in ToolGroups(s) /\ \A j \in ToolGroups(s) : i <= j BY <1>1, MinIs
<1> HIDE DEF i
<1>3. i \in DOMAIN s /\ ~IsTool(s[i]) BY <1>2 DEF ToolGroups, Opens, IsTool
<1>4. GroupEnd(s, i) \in i .. Len(s) /\ (GroupEnd(s, i) = Len(s) \/ ~IsTool(s[GroupEnd(s, i) + 1]))
      BY <1>3, GroupEndIs
<1>5. Without(s, i, GroupEnd(s, i)) \in Convos /\ WellPaired(Without(s, i, GroupEnd(s, i)))
      BY <1>3, <1>4, WellPairedWithout
<1> QED BY <1>2, <1>5 DEF i

\* A well paired view without groups holds plain messages only.
LEMMA NoGroups ==
    ASSUME NEW s \in Convos, WellPaired(s), ToolGroups(s) = {}
    PROVE  \A i \in DOMAIN s : IsPlain(s[i])
<1>1. ASSUME NEW h \in DOMAIN s, Opens(s[h]) PROVE FALSE
  <2>1. Answered(s, h) BY <1>1, OpensIs
  <2>2. /\ Len(s[h].calls) \in Nat \ {0} /\ h + Len(s[h].calls) <= Len(s)
        /\ \A j \in h + 1 .. h + Len(s[h].calls) : IsTool(s[j]) BY <2>1, AnsweredIs
  <2>3. h \in 1 .. Len(s) /\ Len(s) \in Nat BY ConvoIs
  <2>4. GroupEnd(s, h) \in h .. Len(s) /\ (GroupEnd(s, h) = Len(s) \/ ~IsTool(s[GroupEnd(s, h) + 1]))
        BY <1>1, GroupEndIs DEF Opens, IsTool
  <2>5. h + 1 \in h + 1 .. h + Len(s[h].calls) /\ h # Len(s) BY <2>2, <2>3
  <2>6. GroupEnd(s, h) # h BY <2>2, <2>4, <2>5
  <2>7. GroupEnd(s, h) > h BY <2>3, <2>4, <2>6
  <2> QED BY <1>1, <2>7 DEF ToolGroups
<1> SUFFICES ASSUME NEW i \in DOMAIN s, ~IsPlain(s[i]) PROVE FALSE OBVIOUS
<1>2. i \in Showable(s) BY DEF WellPaired
<1>3. \E h \in DOMAIN s : Answered(s, h) BY <1>2, ShowableIs
<1> QED BY <1>1, <1>3 DEF Answered

\* With no tool group left, the oldest plain turn is a message of its own.
LEMMA PlainDropped ==
    ASSUME NEW s \in Convos, WellPaired(s), ToolGroups(s) = {}, PlainTurns(s) # {}
    PROVE  /\ Min(PlainTurns(s)) \in PlainTurns(s) /\ \A i \in PlainTurns(s) : Min(PlainTurns(s)) <= i
           /\ LET i == Min(PlainTurns(s)) IN
              Without(s, i, i) \in Convos /\ WellPaired(Without(s, i, i))
<1> DEFINE i == Min(PlainTurns(s))
<1>1. PlainTurns(s) \in SUBSET Nat BY DEF PlainTurns
<1>2. i \in PlainTurns(s) /\ \A j \in PlainTurns(s) : i <= j BY <1>1, MinIs
<1> HIDE DEF i
<1>3. i \in 1 .. Len(s) - 1 /\ Len(s) \in Nat /\ DOMAIN s = 1 .. Len(s) BY <1>2, ConvoIs DEF PlainTurns
<1>4. i \in DOMAIN s /\ i + 1 \in DOMAIN s /\ i \in i .. Len(s) BY <1>3
<1>5. ~IsTool(s[i]) /\ ~IsTool(s[i + 1]) BY <1>4, NoGroups DEF IsPlain
<1>6. Without(s, i, i) \in Convos /\ WellPaired(Without(s, i, i)) BY <1>4, <1>5, WellPairedWithout
<1> QED BY <1>2, <1>6 DEF i

-----------------------------------------------------------------------------
(* The view stays well paired, in every step of prepare and in the store. *)

Compressing == {"summarize", "trim", "store", "check", "ready"}
Projecting  == {"project", "summarize", "trim", "store"}

GotKnown ==
    /\ app \in Nat
    /\ pc \in {"application", "again", "compare", "build"} \cup Projecting => got.cap \in CapVersions
    /\ pc \in {"again", "compare", "build"} \cup Projecting => got.app \in AppVersions /\ got.app \in Nat
    /\ pc \in Projecting => available > 0

TriesLeft ==
    /\ pc = "idle" => tries = 0
    /\ pc \in {"read", "application", "again", "compare"} => tries < MaxTries

PairedView  == pc \in Compressing => WellPaired(view)
PairedStore == stored # None => WellPaired(stored.messages)

ViewInv == TypeOK /\ GotKnown /\ TriesLeft /\ PairedView /\ PairedStore

\* Messages outside groups need no partner.
LEMMA PlainIsPaired ==
    ASSUME NEW s \in Convos, \A i \in DOMAIN s : IsPlain(s[i])
    PROVE  WellPaired(s)
<1>1. \A i \in DOMAIN s : i \in Showable(s) BY ShowableIs
<1>2. Showable(s) \subseteq DOMAIN s BY DEF Showable
<1> QED BY <1>1, <1>2 DEF WellPaired

\* A history is a conversation.
LEMMA RecordedIs == Histories \subseteq Convos
<1>1. Recorded \subseteq Messages BY DEF Recorded, Messages
<1> QED BY <1>1 DEF Histories, Convos

\* What was read has its type.
LEMMA ReadsAre == ReadInv => got \in Reads
BY RecordedIs DEF ReadInv, GotType, Instants, Reads, Convos

\* The summary is a system message.
LEMMA SummaryIs ==
    ASSUME NEW size \in SummarySizes
    PROVE  /\ Summary(size) \in Messages /\ Summary(size).role = "system"
           /\ <<Summary(size)>> \in Convos /\ WellPaired(<<Summary(size)>>)
<1> DEFINE m == Summary(size)
<1>1. size \in Nat BY Inputs DEF Inputs
<1>2. m \in Messages /\ m.role = "system" BY <1>1 DEF Summary, Messages
<1>3. IsPlain(m) BY <1>2 DEF IsPlain, IsTool, Opens
<1> HIDE DEF m
<1>4. <<m>> \in Convos /\ DOMAIN <<m>> = {1} /\ <<m>>[1] = m BY <1>2 DEF Convos
<1>5. WellPaired(<<m>>) BY <1>3, <1>4, PlainIsPaired
<1> QED BY <1>2, <1>4, <1>5 DEF m

\* What the application contributes is system messages.
LEMMA ContributionIs ==
    ASSUME NEW a \in Nat, a \in AppVersions
    PROVE  /\ Contribution(a) \in Convos
           /\ \A i \in DOMAIN Contribution(a) : Contribution(a)[i].role = "system"
<1> DEFINE m == [id |-> <<"app", a>>, role |-> "system", calls |-> <<>>, answers |-> None,
                 size |-> ContributedSize[a]]
<1>1. ContributedSize[a] \in Nat BY Inputs DEF Inputs
<1>2. m \in Messages /\ m.role = "system" BY <1>1 DEF Messages
<1>3. Contribution(a) = IF ContributedSize[a] = 0 THEN <<>> ELSE <<m>> BY DEF Contribution
<1> HIDE DEF m
<1>4. <<m>> \in Convos /\ DOMAIN <<m>> = {1} /\ <<m>>[1] = m /\ <<>> \in Convos /\ DOMAIN <<>> = {}
      BY <1>2 DEF Convos
<1> QED BY <1>2, <1>3, <1>4

\* What a summary leaves is well paired.
LEMMA ShortIs ==
    ASSUME NEW s \in Convos, WellPaired(s), NEW size \in SummarySizes
    PROVE  LET short == Systems(s) \o <<Summary(size)>> \o Recent(s) IN
           short \in Convos /\ WellPaired(short)
<1>1. /\ Systems(s) \in Convos /\ WellPaired(Systems(s))
      /\ <<Summary(size)>> \in Convos /\ WellPaired(<<Summary(size)>>)
      /\ Recent(s) \in Convos /\ WellPaired(Recent(s))
      BY SystemsIs, SummaryIs, RecentIs
<1>2. Systems(s) \o <<Summary(size)>> \in Convos /\ WellPaired(Systems(s) \o <<Summary(size)>>)
      BY <1>1, WellPairedConcat
<1> QED BY <1>1, <1>2, WellPairedConcat

\* Nothing has been prepared.
LEMMA ViewInit == Init => ViewInv
<1> SUFFICES ASSUME Init PROVE ViewInv OBVIOUS
<1>r. got \in Reads BY ReadInit, ReadsAre
<1>1. <<>> \in Seq(Messages) OBVIOUS
<1>2. MaxPrepares \in Nat /\ 1 \in CapVersions /\ 1 \in AppVersions BY Inputs DEF Inputs
<1>3. 0 \in 0 .. MaxPrepares /\ 0 \in 0 .. MaxTries BY <1>2 DEF MaxTries
<1>4. TypeOK
  <2>1. history = <<>> /\ prompt = <<>> /\ view = <<>> /\ stored = None BY DEF Init
  <2>2. /\ elsewhere \in Nat /\ cap \in CapVersions /\ app \in AppVersions
        /\ prepares \in 0 .. MaxPrepares /\ tries \in 0 .. MaxTries /\ available \in Int
        BY <1>2, <1>3 DEF Init
  <2>3. strategy \in Strategies /\ pc = "idle" /\ compressed \in BOOLEAN BY DEF Init
  <2> QED BY <1>1, <1>r, <2>1, <2>2, <2>3 DEF TypeOK
<1> QED BY <1>4 DEF Init, ViewInv, Projecting, GotKnown, TriesLeft, PairedView, PairedStore, Compressing

\* Every step of prepare and every writer keeps ViewInv.
LEMMA ViewNext == ReadInv /\ ReadInv' /\ ViewInv /\ [Next]_vars => ViewInv'
<1> SUFFICES ASSUME ReadInv, ReadInv', ViewInv, [Next]_vars PROVE ViewInv' OBVIOUS
<1> USE DEF facts, work
<1>1. view \in Convos /\ prompt \in Convos /\ history' \in Seq(Messages)
      BY RecordedIs DEF ViewInv, TypeOK, Convos, ReadInv, FactsType
<1>r. got' \in Reads BY RecordedIs DEF ReadInv, GotType, Instants, Reads, Convos
<1>2. CASE Writers
  <2>1. /\ UNCHANGED <<strategy, prepares, pc, tries, got, prompt, available, view, compressed>>
        /\ stored' = stored \/ stored' = None
        /\ elsewhere' \in Nat /\ cap' \in CapVersions /\ app' \in AppVersions /\ app' \in Nat
    BY <1>2 DEF Writers, Record, RecordElsewhere, PublishTools, CommitApplication, InvalidateSummary,
                ViewInv, TypeOK, GotKnown
  <2>2. TypeOK' BY <1>1, <1>r, <2>1 DEF ViewInv, TypeOK
  <2> QED BY <2>1, <2>2 DEF ViewInv, GotKnown, TriesLeft, PairedView, PairedStore
<1>3. CASE Begin
  <2>1. prepares' \in 0 .. MaxPrepares
    <3>1. prepares \in 0 .. MaxPrepares /\ prepares < MaxPrepares /\ prepares' = prepares + 1 /\ MaxPrepares \in Nat
      BY <1>3, Inputs DEF Begin, ViewInv, TypeOK, Inputs
    <3> QED BY <3>1
  <2> QED BY <1>3, <2>1, <1>r
          DEF Begin, ViewInv, TypeOK, Projecting, GotKnown, TriesLeft, PairedView, PairedStore, Compressing, Failures, MaxTries
<1>4. CASE ReadSnapshots \/ ReadApplication \/ ReadAgain
  <2>1. UNCHANGED <<facts, stored, strategy, prepares, tries, work>>
        /\ pc' \in {"application", "again", "compare"} /\ tries < MaxTries
    BY <1>4 DEF ReadSnapshots, ReadApplication, ReadAgain, ViewInv, TriesLeft
  <2>2. TypeOK' BY <1>r, <2>1 DEF ViewInv, TypeOK, Failures
  <2>3. GotKnown'
    <3>1. got \in [version : Int, history : Histories, cap : Int, app : Int,
                   again : Int \X Int, instant : Instants] BY DEF ReadInv, GotType
    <3> QED BY <1>4, <2>1, <3>1 DEF ReadSnapshots, ReadApplication, ReadAgain, ViewInv, TypeOK, Projecting, GotKnown
  <2> QED BY <2>1, <2>2, <2>3 DEF ViewInv, TriesLeft, PairedView, PairedStore, Compressing
<1>5. CASE Compare
  <2>1. UNCHANGED <<facts, stored, strategy, prepares, work>> BY <1>5 DEF Compare
  <2>2. CASE pc' = "build" /\ UNCHANGED <<tries, got>>
    <3>1. pc = "compare" BY <1>5 DEF Compare
    <3> QED BY <2>1, <2>2, <3>1, <1>r
            DEF ViewInv, TypeOK, Projecting, GotKnown, TriesLeft, PairedView, PairedStore, Compressing, Failures
  <2>3. CASE tries' = tries + 1 /\ pc' = IF tries + 1 < MaxTries THEN "read" ELSE "conflict"
    <3>1. pc = "compare" /\ tries < MaxTries /\ tries \in 0 .. MaxTries BY <1>5 DEF Compare, ViewInv, TypeOK, TriesLeft
    <3>2. tries' \in 0 .. MaxTries /\ pc' \in {"read", "conflict"} /\ (pc' = "read" => tries' < MaxTries)
          BY <2>3, <3>1 DEF MaxTries
    <3> QED BY <2>1, <3>1, <3>2, <1>r
            DEF ViewInv, TypeOK, Projecting, GotKnown, TriesLeft, PairedView, PairedStore, Compressing, Failures
  <2> QED BY <1>5, <2>2, <2>3 DEF Compare
<1>6. CASE Build
  <2>1. got.app \in AppVersions /\ got.app \in Nat /\ got.cap \in CapVersions /\ got.history \in Convos
    BY <1>6, RecordedIs DEF Build, ViewInv, GotKnown, ReadInv, GotType
  <2>2. Contribution(got.app) \o Pair(got.history) \in Convos
    <3>1. Contribution(got.app) \in Convos /\ Pair(got.history) \in Convos BY <2>1, ContributionIs, PairIs
    <3> QED BY <3>1 DEF Convos
  <2>3. AvailableForPrompt(got.cap) \in Int BY <2>1, Inputs DEF AvailableForPrompt, Inputs
  <2>4. prompt' \in Seq(Messages) /\ available' \in Int BY <1>6, <2>2, <2>3 DEF Build, Convos
  <2>5. pc' \in {"project", "no_budget"} BY <1>6 DEF Build
  <2> QED BY <1>6, <2>4, <2>5, <1>r
          DEF Build, ViewInv, TypeOK, Projecting, GotKnown, TriesLeft, PairedView, PairedStore, Compressing, Failures
<1>7. CASE Reuse
  BY <1>7, <1>r DEF Reuse, ViewInv, TypeOK, Projections, Projecting, GotKnown, TriesLeft, PairedView, PairedStore, Compressing, Failures
<1>8. CASE StartTrimming \/ StartSummarizing
  <2>1. view' = Pair(prompt) /\ compressed' = FALSE /\ pc = "project" /\ pc' \in {"trim", "check", "summarize"}
        /\ UNCHANGED <<facts, stored, strategy, prepares, tries, got, prompt, available>>
    BY <1>8 DEF StartTrimming, StartSummarizing
  <2>2. view' \in Seq(Messages) /\ WellPaired(view') BY <1>1, <2>1, PairIs DEF Convos
  <2> QED BY <2>1, <2>2, <1>r DEF ViewInv, TypeOK, Projecting, GotKnown, TriesLeft, PairedView, PairedStore, Compressing, Failures
<1>9. CASE Summarized
  <2>1. WellPaired(view) BY <1>9 DEF Summarized, ViewInv, PairedView, Compressing
  <2> DEFINE short(size) == Systems(view) \o <<Summary(size)>> \o Recent(view)
  <2>2. PICK size \in SummarySizes : view' = short(size) \/ view' = Pair(short(size)) BY <1>9 DEF Summarized
  <2>3. short(size) \in Convos /\ WellPaired(short(size)) BY <1>1, <2>1, ShortIs
  <2> HIDE DEF short
  <2>4. view' \in Seq(Messages) /\ WellPaired(view') BY <2>2, <2>3, PairIs DEF Convos
  <2>5. pc = "summarize" /\ pc' \in {"store", "trim"} /\ compressed' = TRUE
        /\ UNCHANGED <<facts, stored, strategy, prepares, tries, got, prompt, available>> BY <1>9 DEF Summarized
  <2> QED BY <2>4, <2>5, <1>r DEF ViewInv, TypeOK, Projecting, GotKnown, TriesLeft, PairedView, PairedStore, Compressing, Failures
<1>10. CASE SummarizerFails \/ Trimmed \/ Refuse \/ Deliver
  <2>1. pc \in {"summarize", "trim", "check"}
        /\ pc' \in {"no_summary", "store", "check", "refused", "ready", "overflow"}
        /\ (pc' = "store" => pc = "trim")
        /\ UNCHANGED <<facts, stored, strategy, prepares, tries, got, work>>
    BY <1>10 DEF SummarizerFails, Trimmed, Refuse, Deliver
  <2> QED BY <2>1, <1>r DEF ViewInv, TypeOK, Projecting, GotKnown, TriesLeft, PairedView, PairedStore, Compressing, Failures
<1>11. CASE DropToolGroup \/ DropPlainTurn
  <2>1. WellPaired(view) BY <1>11 DEF DropToolGroup, DropPlainTurn, ViewInv, PairedView, Compressing
  <2>2. view' \in Convos /\ WellPaired(view')
    <3>1. CASE DropToolGroup BY <1>1, <2>1, <3>1, GroupDropped DEF DropToolGroup
    <3>2. CASE DropPlainTurn BY <1>1, <2>1, <3>2, PlainDropped DEF DropPlainTurn
    <3> QED BY <1>11, <3>1, <3>2
  <2>3. compressed' = TRUE /\ UNCHANGED <<facts, stored, strategy, prepares, pc, tries, got, prompt, available>>
    BY <1>11 DEF DropToolGroup, DropPlainTurn
  <2> QED BY <2>2, <2>3, <1>r DEF ViewInv, TypeOK, Projecting, GotKnown, TriesLeft, PairedView, PairedStore, Compressing, Convos
<1>12. CASE StoreProjection
  <2>1. pc = "store" /\ pc' = "check" /\ stored' = [key |-> Key, messages |-> view]
        /\ UNCHANGED <<facts, strategy, prepares, tries, got, work>> BY <1>12 DEF StoreProjection
  <2>2. stored' \in Projections
    <3>1. /\ got.version \in Int /\ got.cap \in CapVersions /\ got.app \in AppVersions
          /\ available \in Nat \ {0}
        BY <1>r, <2>1 DEF Reads, ViewInv, TypeOK, GotKnown, Projecting
    <3> QED BY <1>1, <2>1, <3>1 DEF Key, Projections, Convos
  <2> QED BY <2>1, <2>2, <1>r DEF ViewInv, TypeOK, Projecting, GotKnown, TriesLeft, PairedView, PairedStore, Compressing, Failures
<1>13. CASE Return
  <2>1. <<>> \in Seq(Messages) /\ 0 \in Int /\ 0 \in 0 .. MaxTries BY DEF MaxTries
  <2> QED BY <1>13, <2>1, <1>r
          DEF Return, ViewInv, TypeOK, Projecting, GotKnown, TriesLeft, PairedView, PairedStore, Compressing, Failures
<1>14. CASE UNCHANGED vars
  BY <1>14 DEF vars, ViewInv, TypeOK, Projecting, GotKnown, TriesLeft, PairedView, PairedStore
<1> QED
  BY <1>2, <1>3, <1>4, <1>5, <1>6, <1>7, <1>8, <1>9, <1>10, <1>11, <1>12, <1>13, <1>14 DEF Next, Prepare

\* prepare's variables hold what the code can store in them, whatever the transcript holds.
THEOREM TypeCorrect == Spec => []TypeOK
<1>1. ReadInv /\ ViewInv => TypeOK BY DEF ViewInv
<1>2. Init => ReadInv /\ ViewInv BY ReadInit, ViewInit
<1>3. (ReadInv /\ ViewInv) /\ [Next]_vars => (ReadInv /\ ViewInv)' BY ReadNext, ViewNext
<1> QED BY <1>1, <1>2, <1>3, PTL DEF Spec

\* No call reaches the model without its results and no result without its call, for every
\* history, budget and compressor: pair_tool_messages leaves only complete groups, and neither
\* the summary's cut nor ToolGroupCompressor's deletions take a part of one.
THEOREM ViewPairedCorrect == Spec => []ViewWellPaired
<1>1. ReadInv /\ ViewInv => ViewWellPaired
  BY DEF ViewInv, PairedView, Compressing, WellPaired, ViewWellPaired
<1>2. Init => ReadInv /\ ViewInv BY ReadInit, ViewInit
<1>3. (ReadInv /\ ViewInv) /\ [Next]_vars => (ReadInv /\ ViewInv)' BY ReadNext, ViewNext
<1> QED BY <1>1, <1>2, <1>3, PTL DEF Spec

-----------------------------------------------------------------------------
(* Pairing keeps exactly what is showable. *)

\* Position i holds a result of an answered group.
Inside(s, i) == \E h \in DOMAIN s : h < i /\ Answered(s, h) /\ i <= h + Len(s[h].calls)

\* What is inside a group is a result, and showable is what is plain, inside or a head.
LEMMA InsideIs ==
    ASSUME NEW s \in Convos, NEW i \in DOMAIN s
    PROVE  /\ Inside(s, i) => IsTool(s[i])
           /\ i \in Showable(s) <=> IsPlain(s[i]) \/ Inside(s, i) \/ Answered(s, i)
<1>1. i \in Int /\ \A h \in DOMAIN s : h \in Int /\ Len(s[h].calls) \in Nat BY ConvoIs
<1>2. Inside(s, i) => IsTool(s[i])
  <2> SUFFICES ASSUME NEW h \in DOMAIN s, h < i, Answered(s, h), i <= h + Len(s[h].calls) PROVE IsTool(s[i])
    BY DEF Inside
  <2>1. i \in h + 1 .. h + Len(s[h].calls) BY <1>1
  <2> QED BY <2>1, AnsweredIs
<1>3. (\E h \in DOMAIN s : h <= i /\ Answered(s, h) /\ i <= h + Len(s[h].calls))
         <=> Inside(s, i) \/ Answered(s, i)
  <2>1. \A h \in DOMAIN s : h <= i <=> h < i \/ h = i BY <1>1
  <2>2. i <= i + Len(s[i].calls) BY <1>1
  <2> QED BY <2>1, <2>2 DEF Inside
<1> QED BY <1>2, <1>3, ShowableIs

\* The scan goes on outside every group, and takes what is showable on its way.
LEMMA ScanStep ==
    ASSUME NEW s \in Convos, NEW i \in DOMAIN s, ~Inside(s, i)
    PROVE  /\ ~Inside(s, After(s, i))
           /\ Taken(s, i) = Pick(s, Showable(s) \cap (i .. After(s, i) - 1))
<1> DEFINE n == Len(s[i].calls)
           a == After(s, i)
           C == Showable(s) \cap (i .. a - 1)
<1>1. i \in 1 .. Len(s) /\ Len(s) \in Nat /\ DOMAIN s = 1 .. Len(s) /\ n \in Nat BY ConvoIs
<1>2. \A h \in DOMAIN s : h \in Int /\ Len(s[h].calls) \in Nat BY ConvoIs
<1>3. a \in i + 1 .. Len(s) + 1 BY AfterIs
<1>4. CASE ~Opens(s[i])
  <2>1. a = i + 1 /\ ~Answered(s, i) BY <1>4 DEF After, Answered
  <2>2. ~Inside(s, a)
    <3> SUFFICES ASSUME NEW h \in DOMAIN s, h < i + 1, Answered(s, h), i + 1 <= h + Len(s[h].calls) PROVE FALSE
      BY <2>1 DEF Inside
    <3>1. h < i /\ i <= h + Len(s[h].calls) BY <1>1, <1>2, <2>1
    <3> QED BY <3>1 DEF Inside
  <2>3. i .. a - 1 = {i} BY <1>1, <2>1
  <2>4. i \in Showable(s) <=> IsPlain(s[i]) BY <2>1, InsideIs
  <2>5. CASE IsTool(s[i])
    <3>1. C = {} BY <2>3, <2>4, <2>5 DEF IsPlain
    <3>2. Taken(s, i) = <<>> BY <2>5, <1>4 DEF Taken
    <3> QED BY <2>2, <3>1, <3>2, PickNone
  <2>6. CASE ~IsTool(s[i])
    <3>1. C = i .. i + 0
      <4>1. i .. i + 0 = {i} BY <1>1
      <4> QED BY <4>1, <2>3, <2>4, <2>6, <1>4 DEF IsPlain
    <3>2. Pick(s, i .. i + 0) = SubSeq(s, i, i + 0)
      <4>1. i + 0 <= Len(s) /\ 0 \in Nat /\ i \in DOMAIN s BY <1>1
      <4>2. s \in Seq(Messages) BY DEF Convos
      <4> QED BY <4>1, <4>2, PickBlock
    <3>3. SubSeq(s, i, i + 0) = <<s[i]>>
      <4>1. i + 0 = i BY <1>1
      <4> DEFINE u == SubSeq(s, i, i)
      <4>2. u \in Seq(Messages) /\ Len(u) = 1 /\ u[1] = s[i] BY <1>1 DEF Convos
      <4> HIDE DEF u
      <4>3. u = <<s[i]>> BY <4>2
      <4> QED BY <4>1, <4>3 DEF u
    <3>4. Taken(s, i) = <<s[i]>> BY <2>6, <1>4 DEF Taken
    <3> QED BY <2>2, <3>1, <3>2, <3>3, <3>4
  <2> QED BY <2>5, <2>6
<1>5. CASE Opens(s[i]) /\ Answered(s, i)
  <2>1. Complete(s, i) BY <1>5, CompleteIs
  <2>2. a = i + n + 1 /\ Taken(s, i) = SubSeq(s, i, i + n) BY <1>5, <2>1 DEF After, Taken
  <2>3. i + n <= Len(s) /\ \A j \in i + 1 .. i + n : IsTool(s[j]) BY <1>5, AnsweredIs
  <2>4. ~Inside(s, a)
    <3> SUFFICES ASSUME NEW h \in DOMAIN s, h < i + n + 1, Answered(s, h), i + n + 1 <= h + Len(s[h].calls)
                 PROVE  FALSE
      BY <2>2 DEF Inside
    <3>1. ~IsTool(s[h]) BY DEF Answered, Opens, IsTool
    <3>2. h \notin i + 1 .. i + n BY <2>3, <3>1
    <3>3. CASE h = i BY <3>3, <1>1
    <3>4. CASE h # i
      <4>1. h < i /\ i <= h + Len(s[h].calls) BY <1>1, <1>2, <3>2, <3>4
      <4> QED BY <4>1 DEF Inside
    <3> QED BY <3>3, <3>4
  <2>5. C = i .. i + n
    <3>1. i .. a - 1 = i .. i + n BY <1>1, <2>2
    <3>2. ASSUME NEW j \in i .. i + n PROVE j \in Showable(s)
      <4>1. j \in DOMAIN s BY <1>1, <2>3
      <4>2. i <= j /\ j <= i + Len(s[i].calls) BY <1>1
      <4> QED BY <4>1, <4>2, <1>5, ShowableIs
    <3> QED BY <3>1, <3>2
  <2>6. Pick(s, i .. i + n) = SubSeq(s, i, i + n)
    <3> HIDE DEF n
    <3> QED BY <1>1, <2>3, PickBlock DEF Convos, n
  <2> QED BY <2>2, <2>4, <2>5, <2>6
<1>6. CASE Opens(s[i]) /\ ~Answered(s, i)
  <2>1. a = PastResults(s, i + 1) /\ Taken(s, i) = <<>> BY <1>6, CompleteIs DEF After, Taken
  <2>2. i + 1 \in 1 .. Len(s) + 1 BY <1>1
  <2>3. /\ \A k \in i + 1 .. a - 1 : k \in DOMAIN s /\ IsTool(s[k])
        /\ a \in DOMAIN s => ~IsTool(s[a])
        BY <2>1, <2>2, PastResultsIs
  <2>4. ~Inside(s, a)
    <3>1. CASE a \in DOMAIN s BY <3>1, <2>3, InsideIs
    <3>2. CASE a \notin DOMAIN s
      <4> SUFFICES ASSUME NEW h \in DOMAIN s, Answered(s, h), a <= h + Len(s[h].calls) PROVE FALSE
        BY DEF Inside
      <4>1. a = Len(s) + 1 BY <1>1, <1>3, <3>2
      <4>2. h + Len(s[h].calls) <= Len(s) BY AnsweredIs
      <4> QED BY <4>1, <4>2, <1>1, <1>2
    <3> QED BY <3>1, <3>2
  <2>5. ASSUME NEW k \in i .. a - 1 PROVE k \notin Showable(s)
    <3>1. CASE k = i BY <3>1, <1>6, InsideIs DEF IsPlain
    <3>2. CASE k # i
      <4>1. k \in i + 1 .. a - 1 BY <1>1, <1>3, <3>2
      <4>2. k \in DOMAIN s /\ IsTool(s[k]) /\ k \in Int BY <4>1, <2>3
      <4>3. ASSUME Inside(s, k) PROVE FALSE
        <5>1. PICK h \in DOMAIN s : h < k /\ Answered(s, h) /\ k <= h + Len(s[h].calls) BY <4>3 DEF Inside
        <5>2. ~IsTool(s[h]) BY <5>1 DEF Answered, Opens, IsTool
        <5>3. h \notin i + 1 .. a - 1 BY <2>3, <5>2
        <5>4. h # i BY <5>1, <1>6
        <5>5. h < i /\ i <= h + Len(s[h].calls) BY <5>1, <5>3, <5>4, <4>1, <1>1, <1>2, <1>3
        <5> QED BY <5>1, <5>5 DEF Inside
      <4>4. ~Answered(s, k) BY <4>2 DEF Answered, Opens, IsTool
      <4> QED BY <4>2, <4>3, <4>4, InsideIs DEF IsPlain
    <3> QED BY <3>1, <3>2
  <2>6. C = {} BY <2>5
  <2> QED BY <2>1, <2>4, <2>6, PickNone
<1> QED BY <1>4, <1>5, <1>6

\* What pairing keeps, read from the history alone.
LEMMA PairPicks ==
    ASSUME NEW s \in Convos
    PROVE  Pair(s) = Pick(s, Showable(s))
<1> DEFINE n == Len(s)
           piece == [i \in DOMAIN s |-> Taken(s, i)]
           next == [i \in DOMAIN s |-> After(s, i)]
<1>1. n \in Nat /\ DOMAIN s = 1 .. n /\ Showable(s) \subseteq DOMAIN s BY ConvoIs DEF Showable
<1>2. \A i \in 1 .. n : After(s, i) \in i + 1 .. n + 1 BY <1>1, AfterIs
<1>3. next \in [1 .. n -> 1 .. n + 1] /\ \A i \in 1 .. n : next[i] > i BY <1>1, <1>2
<1>4. Pair(s) = Chain(n, piece, next) BY DEF Pair
<1>5. PICK f : Scans(f, n, piece, next) /\ Chain(n, piece, next) = f[1]
  <2> HIDE DEF n, piece, next
  <2> QED BY <1>1, <1>3, ChainIs
<1> DEFINE G == {i \in 1 .. n + 1 : ~Inside(s, i) => f[i] = Pick(s, Showable(s) \cap (i .. n))}
<1>6. n + 1 \in G
  <2>1. n + 1 \in 1 .. n + 1 /\ n + 1 > n /\ (n + 1) .. n = {} BY <1>1
  <2>2. f[n + 1] = <<>> BY <2>1, <1>5 DEF Scans
  <2> QED BY <2>1, <2>2, PickNone
<1>7. ASSUME NEW i \in 1 .. n, \A j \in i + 1 .. n + 1 : j \in G PROVE i \in G
  <2> DEFINE a == After(s, i)
             A == Showable(s) \cap (i .. a - 1)
             B == Showable(s) \cap (a .. n)
  <2> SUFFICES ASSUME ~Inside(s, i) PROVE f[i] = Pick(s, Showable(s) \cap (i .. n)) BY <1>1
  <2>1. a \in i + 1 .. n + 1 /\ i \in DOMAIN s BY <1>1, <1>2
  <2>2. ~Inside(s, a) /\ Taken(s, i) = Pick(s, A) BY <2>1, ScanStep
  <2>3. f[a] = Pick(s, B) BY <2>1, <2>2, <1>7
  <2>4. f[i] = piece[i] \o f[next[i]]
    <3>1. i \in 1 .. n + 1 /\ ~(i > n) BY <1>1
    <3> HIDE DEF piece, next
    <3> QED BY <3>1, <1>5 DEF Scans
  <2>5. piece[i] = Taken(s, i) /\ next[i] = a BY <2>1
  <2>6. A \in SUBSET DOMAIN s /\ B \in SUBSET DOMAIN s /\ \A x \in A, y \in B : x < y BY <1>1, <2>1
  <2>7. Pick(s, A \cup B) = Pick(s, A) \o Pick(s, B)
    <3> HIDE DEF A, B
    <3> QED BY <2>6, PickSplit DEF Convos
  <2>8. A \cup B = Showable(s) \cap (i .. n)
    <3>1. i \in Int /\ a \in Int /\ i <= a /\ a <= n + 1 BY <1>1, <2>1
    <3> HIDE DEF a, n
    <3>2. \A x \in Int : x \in i .. n <=> x \in i .. a - 1 \/ x \in a .. n BY <3>1, <1>1
    <3> QED BY <3>2
  <2> QED BY <2>2, <2>3, <2>4, <2>5, <2>7, <2>8
<1>8. 1 \in G
  <2> HIDE DEF G
  <2>1. \A i \in 1 .. n + 1 : i \in G BY <1>1, <1>6, <1>7, Backwards
  <2> QED BY <2>1, <1>1
<1>9. ~Inside(s, 1)
  <2> SUFFICES ASSUME NEW h \in DOMAIN s, h < 1 PROVE FALSE BY DEF Inside
  <2> QED BY <1>1
<1>10. Showable(s) \cap (1 .. n) = Showable(s) BY <1>1
<1> QED BY <1>4, <1>5, <1>8, <1>9, <1>10

\* The spoken part of a prompt is what pairing left of the history.
LEMMA SpokenOfContributed ==
    ASSUME NEW c \in Convos, \A i \in DOMAIN c : c[i].role = "system",
           NEW t \in Convos, \A i \in DOMAIN t : t[i].role # "system"
    PROVE  c \o t \in Convos /\ Spoken(c \o t) = t
<1> DEFINE u == c \o t
           a == Len(c)
           b == Len(t)
           P == {i \in DOMAIN u : u[i].role # "system"}
<1>1. a \in Nat /\ b \in Nat /\ DOMAIN c = 1 .. a /\ DOMAIN t = 1 .. b BY ConvoIs
<1>2. /\ u \in Convos /\ Len(u) = a + b
      /\ \A i \in 1 .. a : u[i] = c[i]
      /\ \A i \in 1 .. b : u[a + i] = t[i]
  <2>1. c \in Seq(Messages) /\ t \in Seq(Messages) BY DEF Convos
  <2> QED BY <2>1 DEF Convos
<1>3. DOMAIN u = 1 .. a + b BY <1>2, ConvoIs
<1> HIDE DEF u, a, b
<1>4. P = a + 1 .. a + b
  <2>1. ASSUME NEW i \in DOMAIN u PROVE u[i].role # "system" <=> i \in a + 1 .. a + b
    <3>1. CASE i <= a
      <4>1. i \in 1 .. a /\ i \notin a + 1 .. a + b BY <1>1, <1>3, <3>1
      <4>2. u[i].role = "system" BY <1>1, <1>2, <4>1
      <4> QED BY <4>1, <4>2
    <3>2. CASE i > a
      <4>1. i - a \in 1 .. b /\ a + (i - a) = i /\ i \in a + 1 .. a + b BY <1>1, <1>3, <3>2
      <4>2. u[i] = t[i - a] BY <1>2, <4>1
      <4> QED BY <4>1, <4>2, <1>1
    <3> QED BY <3>1, <3>2, <1>1, <1>3
  <2>2. a + 1 .. a + b \subseteq DOMAIN u BY <1>1, <1>3
  <2> QED BY <2>1, <2>2
<1>5. Spoken(u) = Pick(u, P) BY DEF Spoken
<1>6. CASE b = 0
  <2>1. a + 1 .. a + b = {} BY <1>1, <1>6
  <2>2. t = <<>> BY <1>6 DEF b, Convos
  <2> QED BY <1>2, <1>4, <1>5, <2>1, <2>2, PickNone DEF u
<1>7. CASE b # 0
  <2> DEFINE i == a + 1
             n == b - 1
  <2>1. i \in DOMAIN u /\ n \in Nat /\ i + n = a + b /\ i + n <= Len(u) BY <1>1, <1>2, <1>3, <1>7
  <2>2. u \in Seq(Messages) /\ t \in Seq(Messages) BY <1>2 DEF Convos
  <2>3. Pick(u, i .. i + n) = SubSeq(u, i, i + n)
    <3> HIDE DEF i, n
    <3> QED BY <2>1, <2>2, PickBlock
  <2>4. P = i .. i + n BY <1>4, <2>1
  <2> DEFINE v == SubSeq(u, i, i + n)
  <2>5. v \in Seq(Messages) /\ Len(v) = b /\ \A k \in 1 .. b : v[k] = u[a + k]
    <3>1. SubSeq(u, a + 1, a + b) \in Seq(Messages) /\ Len(SubSeq(u, a + 1, a + b)) = b BY <1>1, <1>2, <2>2
    <3>2. \A k \in 1 .. b : SubSeq(u, a + 1, a + b)[k] = u[a + k] BY <1>1, <1>2, <2>2
    <3> QED BY <3>1, <3>2, <2>1
  <2> HIDE DEF v, i, n
  <2>6. v = t BY <1>2, <2>2, <2>5 DEF b
  <2> QED BY <1>2, <1>5, <2>3, <2>4, <2>6 DEF u, v
<1> QED BY <1>6, <1>7

\* A recorded message is not a system message, and neither is a paired one.
LEMMA PairSpoken ==
    ASSUME NEW s \in Histories
    PROVE  /\ s \in Convos /\ Pair(s) \in Convos
           /\ \A i \in DOMAIN Pair(s) : Pair(s)[i].role # "system"
<1>1. s \in Convos BY RecordedIs
<1>2. \A i \in DOMAIN s : s[i].role # "system"
  <2>1. \A i \in DOMAIN s : s[i] \in Recorded BY DEF Histories
  <2>2. \A m \in Recorded : m.role # "system" BY DEF Recorded
  <2> QED BY <2>1, <2>2
<1>3. Pair(s) \in Convos /\ DOMAIN Pair(s) = 1 .. Len(Pair(s)) BY <1>1, PairIs, ConvoIs
<1>4. Showable(s) \in SUBSET DOMAIN s BY DEF Showable
<1>5. /\ Len(Pick(s, Showable(s))) = Cardinality(Showable(s))
      /\ \A k \in 1 .. Cardinality(Showable(s)) :
            Nth(Showable(s), k) \in Showable(s) /\ Pick(s, Showable(s))[k] = s[Nth(Showable(s), k)]
      BY <1>1, <1>4, PickIs DEF Convos
<1> QED BY <1>1, <1>2, <1>3, <1>4, <1>5, PairPicks

\* From "project" on prepare works on the prompt it built from what it holds.
Built == {"project", "no_summary", "refused", "overflow"} \cup Compressing

PromptBuilt ==
    pc \in Built =>
        /\ got.app \in AppVersions /\ got.app \in Nat
        /\ prompt = Contribution(got.app) \o Pair(got.history)

\* The prompt stays the pairing of what was read.
LEMMA PromptNext == ReadInv /\ ViewInv /\ PromptBuilt /\ [Next]_vars => PromptBuilt'
<1> SUFFICES ASSUME ReadInv, ViewInv, PromptBuilt, [Next]_vars PROVE PromptBuilt' OBVIOUS
<1>1. CASE Writers
  <2>1. UNCHANGED <<pc, got, prompt>>
    BY <1>1 DEF Writers, Record, RecordElsewhere, PublishTools, CommitApplication, InvalidateSummary, work
  <2> QED BY <2>1 DEF PromptBuilt
<1>2. CASE Begin \/ ReadSnapshots \/ ReadApplication \/ ReadAgain \/ Compare \/ Return
  <2>1. pc' \notin Built
    BY <1>2 DEF Begin, ReadSnapshots, ReadApplication, ReadAgain, Compare, Return, Built, Compressing
  <2> QED BY <2>1 DEF PromptBuilt
<1>3. CASE Build
  BY <1>3 DEF Build, PromptBuilt, ViewInv, GotKnown
<1>4. CASE Reuse \/ StartTrimming \/ StartSummarizing \/ Summarized \/ SummarizerFails
  <2>1. pc \in Built /\ UNCHANGED <<got, prompt>>
    BY <1>4 DEF Reuse, StartTrimming, StartSummarizing, Summarized, SummarizerFails, Built, Compressing, work
  <2> QED BY <2>1 DEF PromptBuilt
<1>5. CASE Trimmed \/ DropToolGroup \/ DropPlainTurn \/ Refuse \/ StoreProjection \/ Deliver
  <2>1. pc \in Built /\ UNCHANGED <<got, prompt>>
    BY <1>5 DEF Trimmed, DropToolGroup, DropPlainTurn, Refuse, StoreProjection, Deliver, Built, Compressing, work
  <2> QED BY <2>1 DEF PromptBuilt
<1>6. CASE UNCHANGED vars
  BY <1>6 DEF vars, work, PromptBuilt
<1> QED BY <1>1, <1>2, <1>3, <1>4, <1>5, <1>6 DEF Next, Prepare

\* Pairing loses no complete exchange and lets no broken one through: the prompt holds the
\* contributions and exactly the plain messages and fully answered groups of the history the
\* step was read from, for every history (pair_tool_messages).
THEOREM PairingCorrect == Spec => []PairingExact
<1>1. ReadInv /\ PromptBuilt => PairingExact
  <2> SUFFICES ASSUME ReadInv, PromptBuilt, pc = "project"
               PROVE  Spoken(prompt) = Pick(got.history, Showable(got.history))
    BY DEF PairingExact
  <2>1. got.history \in Histories BY DEF ReadInv, GotType
  <2>2. got.app \in Nat /\ got.app \in AppVersions /\ prompt = Contribution(got.app) \o Pair(got.history)
    BY DEF PromptBuilt, Built
  <2>3. Spoken(prompt) = Pair(got.history)
    BY <2>1, <2>2, ContributionIs, PairSpoken, SpokenOfContributed
  <2> QED BY <2>1, <2>3, PairSpoken, PairPicks
<1>2. Init => ReadInv /\ ViewInv /\ PromptBuilt
  BY ReadInit, ViewInit DEF Init, PromptBuilt, Built, Compressing
<1>3. (ReadInv /\ ViewInv /\ PromptBuilt) /\ [Next]_vars => (ReadInv /\ ViewInv /\ PromptBuilt)'
  BY ReadNext, ViewNext, PromptNext
<1> QED BY <1>1, <1>2, <1>3, PTL DEF Spec

-----------------------------------------------------------------------------
(* What a view lacks.  The view is related to the prompt it was made from by  *)
(* which of the prompt's messages it holds and in which order.                *)

InOrder(p, v) ==
    \A k, l \in DOMAIN v, q, r \in DOMAIN p : k < l /\ v[k] = p[q] /\ v[l] = p[r] => q < r

OldestGone(p, v) ==
    \A i, j \in DOMAIN p :
        /\ i < j /\ ~IsTool(p[i]) /\ ~IsTool(p[j]) /\ p[i].role # "system" /\ Opens(p[i]) = Opens(p[j])
        /\ p[j] \notin Range(v)
        => p[i] \notin Range(v)

SystemsKept(p, v) == \A i \in DOMAIN p : p[i].role = "system" => p[i] \in Range(v)

GroupsFirst(p, v) ==
    (\E i \in DOMAIN p : IsPlain(p[i]) /\ p[i] \notin Range(v)) => \A k \in DOMAIN v : ~Opens(v[k])

PlainLeft(p, v) ==
    (\E i \in DOMAIN p : IsPlain(p[i]) /\ p[i].role # "system") =>
        \E k \in DOMAIN v : IsPlain(v[k]) /\ v[k].role # "system"

\* What trimming and summarizing guarantee; the last three parts only where nothing is summarized.
Reduces(p, v, trimming) ==
    /\ InOrder(p, v) /\ OldestGone(p, v) /\ SystemsKept(p, v)
    /\ trimming => GroupsFirst(p, v) /\ PlainLeft(p, v) /\ Range(v) \subseteq Range(p)

Distinct(p)     == \A i, j \in DOMAIN p : p[i] = p[j] => i = j
SystemsFirst(p) == \A i, j \in DOMAIN p : i < j /\ p[j].role = "system" => p[i].role = "system"

\* The elements of a sequence are what stands at its places.
LEMMA RangeIs ==
    ASSUME NEW s
    PROVE  \A m : m \in Range(s) <=> \E k \in DOMAIN s : s[k] = m
BY DEF Range

\* A view from which nothing was dropped.
LEMMA ReducesItself ==
    ASSUME NEW p \in Convos, Distinct(p), NEW b
    PROVE  Reduces(p, p, b)
<1>1. \A i \in DOMAIN p : p[i] \in Range(p) BY RangeIs
<1>2. InOrder(p, p) BY DEF InOrder, Distinct
<1>3. OldestGone(p, p) /\ SystemsKept(p, p) BY <1>1 DEF OldestGone, SystemsKept
<1>4. GroupsFirst(p, p) BY <1>1 DEF GroupsFirst
<1>5. PlainLeft(p, p) BY DEF PlainLeft
<1> QED BY <1>2, <1>3, <1>4, <1>5 DEF Reduces

\* The positions that are left keep their order.
Slots(s, t, i, e, f) ==
    /\ f \in [DOMAIN t -> DOMAIN s]
    /\ \A k \in DOMAIN t : t[k] = s[f[k]] /\ f[k] \notin i .. e
    /\ \A k, l \in DOMAIN t : k < l => f[k] < f[l]
    /\ \A m \in DOMAIN s : m \notin i .. e => \E k \in DOMAIN t : f[k] = m

\* After a deletion the rest stands in its order.
LEMMA WithoutIs ==
    ASSUME NEW s \in Convos, NEW i \in DOMAIN s, NEW e \in i .. Len(s)
    PROVE  \E f : Slots(s, Without(s, i, e), i, e, f)
<1> DEFINE n == Len(s)
           d == e - i + 1
           a == SubSeq(s, 1, i - 1)
           b == SubSeq(s, e + 1, n)
           t == Without(s, i, e)
           f == [k \in DOMAIN t |-> IF k < i THEN k ELSE k + d]
<1>1. n \in Nat /\ DOMAIN s = 1 .. n /\ i \in 1 .. n BY ConvoIs
<1>2. e \in Int /\ i \in Int /\ i <= e /\ e <= n /\ d \in Nat /\ n - d \in Nat /\ i - 1 + (n - e) = n - d
  <2>1. i \in 1 .. n /\ e \in i .. n /\ n \in Nat BY <1>1
  <2> HIDE DEF n
  <2> QED BY <2>1
<1>3. s \in Seq(Messages) BY DEF Convos
<1>4. a \in Seq(Messages) /\ Len(a) = i - 1 /\ \A k \in 1 .. i - 1 : a[k] = s[k] BY <1>1, <1>3
<1>5. b \in Seq(Messages) /\ Len(b) = n - e /\ \A k \in 1 .. n - e : b[k] = s[e + k]
  <2> DEFINE m == e + 1
  <2>1. m \in Int /\ m >= 1 /\ m <= n + 1 BY <1>1, <1>2
  <2> HIDE DEF m
  <2>2. SubSeq(s, m, n) \in Seq(Messages) /\ Len(SubSeq(s, m, n)) = n - m + 1
        /\ \A k \in 1 .. n - m + 1 : SubSeq(s, m, n)[k] = s[m + k - 1]
        BY <1>1, <1>3, <2>1
  <2>3. n - m + 1 = n - e /\ \A k \in 1 .. n - e : m + k - 1 = e + k BY <1>1, <1>2 DEF m
  <2> QED BY <2>2, <2>3 DEF m
<1>6. t = a \o b BY DEF Without
<1> HIDE DEF a, b, t, n, d
<1>7. Len(t) = n - d /\ DOMAIN t = 1 .. n - d
      /\ \A k \in 1 .. n - d : t[k] = IF k <= i - 1 THEN a[k] ELSE b[k - (i - 1)]
  <2>0. a \in Seq(Messages) /\ b \in Seq(Messages) /\ Len(a) = i - 1 /\ Len(b) = n - e BY <1>4, <1>5
  <2> DEFINE u == i - 1
             w == n - e
  <2>a. u \in Nat /\ w \in Nat /\ u + w = n - d /\ Len(a) = u /\ Len(b) = w BY <1>1, <1>2, <2>0
  <2> HIDE DEF u, w
  <2>b. /\ Len(a \o b) = u + w /\ DOMAIN (a \o b) = 1 .. u + w
        /\ \A k \in 1 .. u + w : (a \o b)[k] = IF k <= u THEN a[k] ELSE b[k - u]
        BY <2>0, <2>a
  <2>1. Len(a \o b) = n - d BY <2>a, <2>b
  <2>2. DOMAIN (a \o b) = 1 .. n - d BY <2>a, <2>b
  <2>3. \A k \in 1 .. n - d : (a \o b)[k] = IF k <= i - 1 THEN a[k] ELSE b[k - (i - 1)]
        BY <2>a, <2>b DEF u
  <2> QED BY <1>6, <2>1, <2>2, <2>3
<1>8. ASSUME NEW k \in DOMAIN t
      PROVE  f[k] \in DOMAIN s /\ t[k] = s[f[k]] /\ f[k] \notin i .. e
  <2>1. k \in 1 .. n - d /\ k \in Int BY <1>7, <1>2
  <2>2. CASE k < i
    <3>1. f[k] = k /\ k \in 1 .. i - 1 BY <1>2, <2>1, <2>2
    <3>2. t[k] = a[k] /\ a[k] = s[k] BY <3>1, <2>1, <1>4, <1>7
    <3> QED BY <3>1, <3>2, <1>1, <1>2
  <2>3. CASE ~(k < i)
    <3>1. f[k] = k + d /\ k - (i - 1) \in 1 .. n - e /\ e + (k - (i - 1)) = k + d
      <4>1. d = e - i + 1 BY DEF d
      <4> QED BY <4>1, <1>1, <1>2, <2>1, <2>3
    <3>2. t[k] = b[k - (i - 1)] BY <1>2, <1>7, <2>1, <2>3
    <3>3. b[k - (i - 1)] = s[k + d] BY <3>1, <1>5
    <3>4. k + d \in 1 .. n /\ k + d \notin i .. e BY <3>1, <1>1, <1>2, <2>1
    <3> QED BY <3>1, <3>2, <3>3, <3>4, <1>1
  <2> QED BY <2>2, <2>3
<1>9. ASSUME NEW k \in DOMAIN t, NEW l \in DOMAIN t, k < l PROVE f[k] < f[l]
  <2>1. k \in Int /\ l \in Int BY <1>7
  <2>2. f[k] = (IF k < i THEN k ELSE k + d) /\ f[l] = (IF l < i THEN l ELSE l + d) OBVIOUS
  <2> QED BY <2>1, <2>2, <1>2, <1>9
<1>10. ASSUME NEW m \in DOMAIN s, m \notin i .. e PROVE \E k \in DOMAIN t : f[k] = m
  <2>1. m \in 1 .. n BY <1>1
  <2>2. CASE m < i
    <3>1. m \in DOMAIN t BY <2>1, <2>2, <1>1, <1>2, <1>7 DEF d
    <3> QED BY <3>1, <2>2
  <2>3. CASE m > e
    <3>1. m - d \in 1 .. n - d /\ ~(m - d < i) /\ (m - d) + d = m BY <2>1, <2>3, <1>1, <1>2 DEF d
    <3> QED BY <3>1, <1>7
  <2> QED BY <1>2, <1>10, <2>1, <2>2, <2>3
<1>11. f \in [DOMAIN t -> DOMAIN s] BY <1>8
<1> HIDE DEF f
<1> QED BY <1>8, <1>9, <1>10, <1>11 DEF Slots, t

\* Which messages a view without positions i .. e still holds.
LEMMA WithoutRange ==
    ASSUME NEW s, NEW t, NEW i, NEW e, NEW f, Slots(s, t, i, e, f)
    PROVE  /\ Range(t) \subseteq Range(s)
           /\ \A m \in Range(s) : m \notin Range(t) => \E k \in DOMAIN s : k \in i .. e /\ s[k] = m
<1>1. ASSUME NEW m \in Range(t) PROVE m \in Range(s)
  <2>1. PICK k \in DOMAIN t : t[k] = m BY <1>1, RangeIs
  <2>2. s[f[k]] = m /\ f[k] \in DOMAIN s BY <2>1 DEF Slots
  <2> QED BY <2>2, RangeIs
<1>2. ASSUME NEW m \in Range(s), m \notin Range(t) PROVE \E k \in DOMAIN s : k \in i .. e /\ s[k] = m
  <2>1. PICK k \in DOMAIN s : s[k] = m BY <1>2, RangeIs
  <2>2. ASSUME k \notin i .. e PROVE FALSE
    <3>1. PICK l \in DOMAIN t : f[l] = k BY <2>2 DEF Slots
    <3>2. t[l] = m BY <2>1, <3>1 DEF Slots
    <3> QED BY <3>2, <1>2, RangeIs
  <2> QED BY <2>1, <2>2
<1> QED BY <1>1, <1>2

\* Dropping the oldest group.
LEMMA GroupReduces ==
    ASSUME NEW p \in Convos, NEW v \in Convos, NEW b, WellPaired(v), ToolGroups(v) # {}, Reduces(p, v, b)
    PROVE  LET i == Min(ToolGroups(v)) IN Reduces(p, Without(v, i, GroupEnd(v, i)), b)
<1> DEFINE i == Min(ToolGroups(v))
           e == GroupEnd(v, i)
           t == Without(v, i, e)
<1>1. i \in ToolGroups(v) /\ \A j \in ToolGroups(v) : i <= j BY GroupDropped
<1> HIDE DEF i
<1>2. i \in DOMAIN v /\ Opens(v[i]) /\ ~IsTool(v[i]) /\ v[i].role = "assistant"
      BY <1>1 DEF ToolGroups, Opens, IsTool
<1>3. e \in i .. Len(v) /\ \A k \in i + 1 .. e : IsTool(v[k]) BY <1>2, GroupEndIs
<1> HIDE DEF e
<1>4. PICK f : Slots(v, t, i, e, f) BY <1>2, <1>3, WithoutIs
<1> HIDE DEF t
<1>5. \A k \in DOMAIN v : k \in Int BY ConvoIs
<1>6. \A k \in DOMAIN v : Opens(v[k]) => k \in ToolGroups(v)
  <2> SUFFICES ASSUME NEW k \in DOMAIN v, Opens(v[k]) PROVE k \in ToolGroups(v) OBVIOUS
  <2>1. Answered(v, k) BY OpensIs
  <2>2. ~IsTool(v[k]) BY DEF Opens, IsTool
  <2>3. /\ Len(v[k].calls) \in Nat \ {0} /\ k + Len(v[k].calls) <= Len(v)
        /\ \A j \in k + 1 .. k + Len(v[k].calls) : IsTool(v[j]) BY <2>1, AnsweredIs
  <2>4. GroupEnd(v, k) \in k .. Len(v) /\ (GroupEnd(v, k) = Len(v) \/ ~IsTool(v[GroupEnd(v, k) + 1]))
        BY <2>2, GroupEndIs
  <2>5. k \in 1 .. Len(v) /\ Len(v) \in Nat BY ConvoIs
  <2>6. k + 1 \in k + 1 .. k + Len(v[k].calls) /\ k # Len(v) BY <2>3, <2>5
  <2>7. GroupEnd(v, k) # k BY <2>3, <2>4, <2>6
  <2>8. GroupEnd(v, k) > k BY <2>4, <2>5, <2>7
  <2> QED BY <2>8 DEF ToolGroups
<1>7. /\ Range(t) \subseteq Range(v)
      /\ \A m \in Range(v) : m \notin Range(t) => m = v[i] \/ IsTool(m)
  <2>1. \A k \in DOMAIN v : k \in i .. e => k = i \/ IsTool(v[k])
    <3> SUFFICES ASSUME NEW k \in DOMAIN v, k \in i .. e, k # i PROVE IsTool(v[k]) OBVIOUS
    <3>1. k \in i + 1 .. e BY <1>2, <1>5
    <3> QED BY <3>1, <1>3
  <2>2. Range(t) \subseteq Range(v) BY <1>4, WithoutRange
  <2>3. \A m \in Range(v) : m \notin Range(t) => \E k \in DOMAIN v : k \in i .. e /\ v[k] = m
        BY <1>4, WithoutRange
  <2> QED BY <2>1, <2>2, <2>3
<1>8. InOrder(p, t)
  <2> SUFFICES ASSUME NEW k \in DOMAIN t, NEW l \in DOMAIN t, NEW q \in DOMAIN p, NEW r \in DOMAIN p,
                      k < l, t[k] = p[q], t[l] = p[r]
               PROVE  q < r
    BY DEF InOrder
  <2>1. f[k] \in DOMAIN v /\ f[l] \in DOMAIN v /\ f[k] < f[l] /\ v[f[k]] = p[q] /\ v[f[l]] = p[r]
        BY <1>4 DEF Slots
  <2> QED BY <2>1 DEF Reduces, InOrder
<1>9. SystemsKept(p, t)
  <2> SUFFICES ASSUME NEW q \in DOMAIN p, p[q].role = "system", p[q] \notin Range(t) PROVE FALSE
    BY DEF SystemsKept
  <2>1. p[q] \in Range(v) BY DEF Reduces, SystemsKept
  <2>2. p[q] = v[i] \/ IsTool(p[q]) BY <2>1, <1>7
  <2> QED BY <2>2, <1>2 DEF IsTool
<1>10. OldestGone(p, t)
  <2> SUFFICES ASSUME NEW q \in DOMAIN p, NEW r \in DOMAIN p, q < r, ~IsTool(p[q]), ~IsTool(p[r]),
                      p[q].role # "system", Opens(p[q]) = Opens(p[r]), p[r] \notin Range(t), p[q] \in Range(t)
               PROVE  FALSE
    BY DEF OldestGone
  <2>1. CASE p[r] \notin Range(v) BY <2>1, <1>7 DEF Reduces, OldestGone
  <2>2. CASE p[r] \in Range(v)
    <3>1. p[r] = v[i] BY <2>2, <1>7
    <3>2. Opens(p[q]) BY <3>1, <1>2
    <3>3. PICK l \in DOMAIN t : t[l] = p[q] BY RangeIs
    <3>4. f[l] \in DOMAIN v /\ v[f[l]] = p[q] /\ f[l] \notin i .. e BY <3>3, <1>4 DEF Slots
    <3>5. i <= f[l] BY <3>2, <3>4, <1>1, <1>6
    <3>6. i \in i .. e /\ f[l] # i BY <3>4, <1>2, <1>3, <1>5
    <3>7. i < f[l] BY <3>4, <3>5, <3>6, <1>2, <1>5
    <3>8. r < q BY <3>1, <3>4, <3>7, <1>2 DEF Reduces, InOrder
    <3>9. q \in Int /\ r \in Int BY ConvoIs
    <3> QED BY <3>8, <3>9
  <2> QED BY <2>1, <2>2
<1>11. ASSUME b PROVE GroupsFirst(p, t) /\ PlainLeft(p, t) /\ Range(t) \subseteq Range(p)
  <2>1. GroupsFirst(p, v) /\ PlainLeft(p, v) /\ Range(v) \subseteq Range(p) BY <1>11 DEF Reduces
  <2>2. GroupsFirst(p, t)
    <3> SUFFICES ASSUME NEW q \in DOMAIN p, IsPlain(p[q]), p[q] \notin Range(t) PROVE FALSE BY DEF GroupsFirst
    <3>1. p[q] \in Range(v) BY <2>1, <1>2 DEF GroupsFirst
    <3>2. p[q] = v[i] \/ IsTool(p[q]) BY <3>1, <1>7
    <3> QED BY <3>2, <1>2 DEF IsPlain
  <2>3. PlainLeft(p, t)
    <3> SUFFICES ASSUME \E q \in DOMAIN p : IsPlain(p[q]) /\ p[q].role # "system"
                 PROVE  \E k \in DOMAIN t : IsPlain(t[k]) /\ t[k].role # "system"
      BY DEF PlainLeft
    <3>1. PICK k \in DOMAIN v : IsPlain(v[k]) /\ v[k].role # "system" BY <2>1 DEF PlainLeft
    <3>2. v[k] \in Range(v) /\ v[k] # v[i] /\ ~IsTool(v[k]) BY <3>1, <1>2, RangeIs DEF IsPlain
    <3>3. v[k] \in Range(t) BY <3>2, <1>7
    <3> QED BY <3>1, <3>3, RangeIs
  <2> QED BY <2>1, <2>2, <2>3, <1>7
<1> QED BY <1>8, <1>9, <1>10, <1>11 DEF Reduces, t, e, i

\* Dropping the oldest plain turn, when no group is left.
LEMMA PlainReduces ==
    ASSUME NEW p \in Convos, NEW v \in Convos, NEW b, SystemsFirst(p), WellPaired(v),
           ToolGroups(v) = {}, PlainTurns(v) # {}, Reduces(p, v, b)
    PROVE  LET i == Min(PlainTurns(v)) IN Reduces(p, Without(v, i, i), b)
<1> DEFINE i == Min(PlainTurns(v))
           t == Without(v, i, i)
           n == Len(v)
<1>1. i \in PlainTurns(v) /\ \A j \in PlainTurns(v) : i <= j BY PlainDropped
<1> HIDE DEF i
<1>2. n \in Nat /\ DOMAIN v = 1 .. n /\ i \in 1 .. n - 1 /\ v[i].role # "system" BY <1>1, ConvoIs DEF PlainTurns
<1>3. i \in DOMAIN v /\ n \in DOMAIN v /\ i < n /\ i \in i .. n /\ i .. i = {i} BY <1>2
<1>4. PICK f : Slots(v, t, i, i, f) BY <1>3, WithoutIs
<1>5. \A k \in DOMAIN v : IsPlain(v[k]) BY NoGroups
<1>6. \A k \in DOMAIN v : v[k].role # "system" /\ k # i => i < k
  <2> SUFFICES ASSUME NEW k \in DOMAIN v, v[k].role # "system", k # i PROVE i < k OBVIOUS
  <2>1. CASE k = n BY <2>1, <1>3
  <2>2. CASE k # n
    <3>1. k \in PlainTurns(v) BY <2>2, <1>2 DEF PlainTurns
    <3> QED BY <3>1, <1>1, <1>2
  <2> QED BY <2>1, <2>2
<1> HIDE DEF t, n
<1>7. Range(t) \subseteq Range(v) /\ \A m \in Range(v) : m \notin Range(t) => m = v[i]
  <2>1. Range(t) \subseteq Range(v) BY <1>4, WithoutRange
  <2>2. \A m \in Range(v) : m \notin Range(t) => \E k \in DOMAIN v : k \in i .. i /\ v[k] = m
    <3> DEFINE e == i
    <3>1. Slots(v, t, i, e, f) BY <1>4
    <3> HIDE DEF e
    <3>2. \A m \in Range(v) : m \notin Range(t) => \E k \in DOMAIN v : k \in i .. e /\ v[k] = m
          BY <3>1, WithoutRange
    <3> QED BY <3>2 DEF e
  <2> QED BY <2>1, <2>2, <1>3
<1>8. InOrder(p, t)
  <2> SUFFICES ASSUME NEW k \in DOMAIN t, NEW l \in DOMAIN t, NEW q \in DOMAIN p, NEW r \in DOMAIN p,
                      k < l, t[k] = p[q], t[l] = p[r]
               PROVE  q < r
    BY DEF InOrder
  <2>1. f[k] \in DOMAIN v /\ f[l] \in DOMAIN v /\ f[k] < f[l] /\ v[f[k]] = p[q] /\ v[f[l]] = p[r]
        BY <1>4 DEF Slots
  <2> QED BY <2>1 DEF Reduces, InOrder
<1>9. SystemsKept(p, t)
  <2> SUFFICES ASSUME NEW q \in DOMAIN p, p[q].role = "system", p[q] \notin Range(t) PROVE FALSE
    BY DEF SystemsKept
  <2>1. p[q] \in Range(v) BY DEF Reduces, SystemsKept
  <2> QED BY <2>1, <1>2, <1>7
<1>10. OldestGone(p, t)
  <2> SUFFICES ASSUME NEW q \in DOMAIN p, NEW r \in DOMAIN p, q < r, ~IsTool(p[q]), ~IsTool(p[r]),
                      p[q].role # "system", Opens(p[q]) = Opens(p[r]), p[r] \notin Range(t), p[q] \in Range(t)
               PROVE  FALSE
    BY DEF OldestGone
  <2>1. CASE p[r] \notin Range(v) BY <2>1, <1>7 DEF Reduces, OldestGone
  <2>2. CASE p[r] \in Range(v)
    <3>1. p[r] = v[i] BY <2>2, <1>7
    <3>2. PICK l \in DOMAIN t : t[l] = p[q] BY RangeIs
    <3>3. f[l] \in DOMAIN v /\ v[f[l]] = p[q] /\ f[l] # i BY <3>2, <1>3, <1>4 DEF Slots
    <3>4. i < f[l] BY <3>3, <1>6
    <3>5. r < q BY <3>1, <3>3, <3>4, <1>3 DEF Reduces, InOrder
    <3>6. q \in Int /\ r \in Int BY ConvoIs
    <3> QED BY <3>5, <3>6
  <2> QED BY <2>1, <2>2
<1>11. ASSUME b PROVE GroupsFirst(p, t) /\ PlainLeft(p, t) /\ Range(t) \subseteq Range(p)
  <2>1. GroupsFirst(p, v) /\ PlainLeft(p, v) /\ Range(v) \subseteq Range(p) BY <1>11 DEF Reduces
  <2>2. GroupsFirst(p, t)
    <3>1. \A k \in DOMAIN t : ~Opens(t[k]) BY <1>4, <1>5 DEF Slots, IsPlain
    <3> QED BY <3>1 DEF GroupsFirst
  <2>3. PlainLeft(p, t)
    <3>1. v[i] \in Range(v) /\ v[n] \in Range(v) BY <1>3, RangeIs
    <3>2. PICK q \in DOMAIN p : p[q] = v[i] BY <3>1, <2>1, RangeIs
    <3>3. PICK r \in DOMAIN p : p[r] = v[n] BY <3>1, <2>1, RangeIs
    <3>4. q < r BY <3>2, <3>3, <1>3 DEF Reduces, InOrder
    <3>5. v[n].role # "system" BY <3>2, <3>3, <3>4, <1>2 DEF SystemsFirst
    <3>6. n \notin i .. i BY <1>3, <1>2
    <3>7. PICK k \in DOMAIN t : f[k] = n BY <3>6, <1>3, <1>4 DEF Slots
    <3>8. t[k] = v[n] BY <3>7, <1>4 DEF Slots
    <3> QED BY <3>5, <3>8, <1>3, <1>5 DEF PlainLeft
  <2> QED BY <2>1, <2>2, <2>3, <1>7
<1> QED BY <1>8, <1>9, <1>10, <1>11 DEF Reduces, t, i

\* Pairing leaves a well paired sequence as it is.
LEMMA PairAgain ==
    ASSUME NEW s \in Convos, WellPaired(s)
    PROVE  Pair(s) = s
<1>1. Pair(s) = Pick(s, DOMAIN s) BY PairPicks DEF WellPaired
<1>2. s \in Seq(Messages) BY DEF Convos
<1> QED BY <1>1, <1>2, PickAll

\* Replacing the oldest units by a summary.
LEMMA ShortReduces ==
    ASSUME NEW p \in Convos, WellPaired(p), Distinct(p), SystemsFirst(p),
           NEW size \in SummarySizes, Summary(size) \notin Range(p)
    PROVE  Reduces(p, Systems(p) \o <<Summary(size)>> \o Recent(p), FALSE)
<1> DEFINE P == {i \in DOMAIN p : p[i].role = "system"}
           Q == {i \in DOMAIN p : p[i].role # "system"}
           a == Cardinality(P)
           c == Cardinality(Q)
           L == SummarizedLength(p)
           m == Summary(size)
           w == Recent(p)
           s == Systems(p) \o <<m>> \o w
<1>1. Len(p) \in Nat /\ DOMAIN p = 1 .. Len(p) /\ p \in Seq(Messages) BY ConvoIs DEF Convos
<1>2. /\ P \in SUBSET DOMAIN p /\ P \in SUBSET Int /\ IsFiniteSet(P) /\ a \in Nat
      /\ Q \in SUBSET DOMAIN p /\ Q \in SUBSET Int /\ IsFiniteSet(Q) /\ c \in Nat
  <2>1. P \in SUBSET (1 .. Len(p)) /\ Q \in SUBSET (1 .. Len(p)) BY <1>1
  <2> HIDE DEF P, Q
  <2> QED BY <1>1, <2>1, PositionsFinite
<1>3. Systems(p) = Pick(p, P) /\ Spoken(p) = Pick(p, Q) BY DEF Systems, Spoken
<1>4. m \in Messages /\ m.role = "system" /\ m \notin Range(p) BY SummaryIs
<1>5. \A i \in P : p[i].role = "system" OBVIOUS
<1>6. \A i \in Q : p[i].role # "system" OBVIOUS
<1>7. \A i \in DOMAIN p : i \in P \/ i \in Q OBVIOUS
<1> HIDE DEF P, Q, m
<1>8. Systems(p) \in Seq(Messages) /\ Len(Systems(p)) = a /\ \A k \in 1 .. a : Systems(p)[k] = p[Nth(P, k)]
      BY <1>1, <1>2, <1>3, PickIs
<1>9. Spoken(p) \in Seq(Messages) /\ Len(Spoken(p)) = c /\ \A k \in 1 .. c : Spoken(p)[k] = p[Nth(Q, k)]
      BY <1>1, <1>2, <1>3, PickIs
<1>10. /\ \A k \in 1 .. a : Nth(P, k) \in P /\ Rank(P, Nth(P, k)) = k
       /\ \A k \in 1 .. c : Nth(Q, k) \in Q /\ Rank(Q, Nth(Q, k)) = k
       /\ \A i \in P : Rank(P, i) \in 1 .. a /\ Nth(P, Rank(P, i)) = i
       /\ \A i \in Q : Rank(Q, i) \in 1 .. c /\ Nth(Q, Rank(Q, i)) = i
       /\ \A i, j \in P : i < j <=> Rank(P, i) < Rank(P, j)
       /\ \A i, j \in Q : i < j <=> Rank(Q, i) < Rank(Q, j)
       BY <1>2, NthIs
<1>11. L \in 0 .. c BY <1>9, CutIs
<1> HIDE DEF a, c, L
<1> DEFINE b == c - L
<1>12. b \in Nat /\ L \in Nat /\ L + b = c BY <1>2, <1>11
<1>13. w \in Seq(Messages) /\ Len(w) = b /\ \A k \in 1 .. b : w[k] = p[Nth(Q, L + k)]
  <2>1. w = SubSeq(Spoken(p), L + 1, c) BY <1>9 DEF Recent, L
  <2>2. \A k \in 1 .. b : L + k \in 1 .. c BY <1>12
  <2>3. w \in Seq(Messages) /\ Len(w) = b /\ \A k \in 1 .. b : w[k] = Spoken(p)[L + k]
        BY <1>2, <1>9, <1>11, <1>12, <2>1
  <2> QED BY <2>2, <2>3, <1>9
<1> HIDE DEF w, b
<1>14. /\ DOMAIN s = 1 .. a + 1 + b
       /\ \A k \in 1 .. a : s[k] = p[Nth(P, k)]
       /\ s[a + 1] = m
       /\ \A k \in 1 .. b : s[a + 1 + k] = p[Nth(Q, L + k)]
  <2> DEFINE z == Systems(p)
             u == z \o <<m>>
  <2>1. z \in Seq(Messages) /\ Len(z) = a /\ \A k \in 1 .. a : z[k] = Systems(p)[k] BY <1>8
  <2>2. s = u \o w OBVIOUS
  <2> HIDE DEF z, s
  <2>3. /\ u \in Seq(Messages) /\ Len(u) = a + 1
        /\ \A k \in 1 .. a : u[k] = Systems(p)[k]
        /\ u[a + 1] = m
    <3>1. /\ z \o <<m>> \in Seq(Messages) /\ Len(z \o <<m>>) = Len(z) + 1
          /\ \A k \in 1 .. Len(z) : (z \o <<m>>)[k] = z[k]
          /\ (z \o <<m>>)[Len(z) + 1] = m
          BY <2>1, <1>4, ConcatOne
    <3> QED BY <3>1, <2>1
  <2>4. s = u \o w BY <2>2
  <2> HIDE DEF u
  <2>5. /\ s \in Seq(Messages) /\ Len(s) = a + 1 + b
        /\ \A k \in 1 .. a + 1 : s[k] = u[k]
        /\ \A k \in 1 .. b : s[a + 1 + k] = w[k]
    <3>1. w \in Seq(Messages) /\ Len(w) = b /\ u \in Seq(Messages) /\ Len(u) = a + 1 BY <2>3, <1>13
    <3>2. /\ u \o w \in Seq(Messages) /\ Len(u \o w) = a + 1 + b
          /\ \A k \in 1 .. a + 1 : (u \o w)[k] = u[k]
          /\ \A k \in 1 .. b : (u \o w)[a + 1 + k] = w[k]
      <4> DEFINE n == a + 1
      <4>1. n \in Nat /\ b \in Nat /\ Len(u) = n BY <3>1, <1>2, <1>12
      <4> HIDE DEF n
      <4>2. u \o w \in Seq(Messages) /\ Len(u \o w) = n + b BY <3>1, <4>1
      <4>3. \A k \in 1 .. n : (u \o w)[k] = u[k] BY <3>1, <4>1
      <4>4. \A k \in 1 .. b : (u \o w)[n + k] = w[k] BY <3>1, <4>1
      <4> QED BY <4>2, <4>3, <4>4 DEF n
    <3> QED BY <2>4, <3>2
  <2>6. \A k \in 1 .. a : k \in 1 .. a + 1 BY <1>2
  <2>7. a + 1 \in 1 .. a + 1 BY <1>2
  <2> QED BY <2>3, <2>5, <2>6, <2>7, <1>8, <1>13
<1> HIDE DEF s
<1>15. ASSUME NEW k \in DOMAIN s, NEW q \in DOMAIN p, s[k] = p[q]
       PROVE  \/ k <= a /\ q \in P /\ Rank(P, q) = k
              \/ k > a + 1 /\ q \in Q /\ Rank(Q, q) = L + (k - (a + 1))
  <2>1. k \in 1 .. a + 1 + b BY <1>14
  <2>2. CASE k <= a
    <3>1. k \in 1 .. a BY <2>1, <2>2, <1>2
    <3>2. Nth(P, k) \in P /\ Nth(P, k) \in DOMAIN p /\ Rank(P, Nth(P, k)) = k /\ p[Nth(P, k)] = p[q]
          BY <3>1, <1>2, <1>10, <1>14, <1>15
    <3>3. Nth(P, k) = q BY <3>2 DEF Distinct
    <3> QED BY <2>2, <3>2, <3>3
  <2>3. CASE k = a + 1
    <3>1. p[q] = m BY <2>3, <1>14, <1>15
    <3> QED BY <3>1, <1>4, RangeIs
  <2>4. CASE k > a + 1
    <3> DEFINE j == k - (a + 1)
    <3>1. j \in 1 .. b /\ a + 1 + j = k /\ L + j \in 1 .. c BY <2>1, <2>4, <1>2, <1>12
    <3> HIDE DEF j
    <3>2. /\ Nth(Q, L + j) \in Q /\ Nth(Q, L + j) \in DOMAIN p
          /\ Rank(Q, Nth(Q, L + j)) = L + j /\ p[Nth(Q, L + j)] = p[q]
          BY <3>1, <1>2, <1>10, <1>14, <1>15
    <3>3. Nth(Q, L + j) = q BY <3>2 DEF Distinct
    <3> QED BY <2>4, <3>2, <3>3 DEF j
  <2>5. k <= a \/ k = a + 1 \/ k > a + 1 BY <2>1, <1>2
  <2> QED BY <2>2, <2>3, <2>4, <2>5
<1>16. \A i \in P, j \in Q : i < j
  <2> SUFFICES ASSUME NEW i \in P, NEW j \in Q PROVE i < j OBVIOUS
  <2>1. i \in DOMAIN p /\ j \in DOMAIN p /\ i \in Int /\ j \in Int /\ p[i].role = "system" /\ p[j].role # "system"
        BY <1>2, <1>5, <1>6
  <2>2. i # j /\ ~(j < i) BY <2>1 DEF SystemsFirst
  <2> QED BY <2>1, <2>2
<1>17. InOrder(p, s)
  <2> SUFFICES ASSUME NEW k \in DOMAIN s, NEW l \in DOMAIN s, NEW q \in DOMAIN p, NEW r \in DOMAIN p,
                      k < l, s[k] = p[q], s[l] = p[r]
               PROVE  q < r
    BY DEF InOrder
  <2>0. k \in Int /\ l \in Int /\ a \in Int /\ L \in Int BY <1>2, <1>12, <1>14
  <2>1. \/ k <= a /\ q \in P /\ Rank(P, q) = k
        \/ k > a + 1 /\ q \in Q /\ Rank(Q, q) = L + (k - (a + 1)) BY <1>15
  <2>2. \/ l <= a /\ r \in P /\ Rank(P, r) = l
        \/ l > a + 1 /\ r \in Q /\ Rank(Q, r) = L + (l - (a + 1)) BY <1>15
  <2>3. CASE q \in P /\ r \in P /\ Rank(P, q) = k /\ Rank(P, r) = l BY <2>3, <1>10
  <2>4. CASE q \in P /\ r \in Q BY <2>4, <1>16
  <2>5. CASE q \in Q /\ r \in Q /\ Rank(Q, q) = L + (k - (a + 1)) /\ Rank(Q, r) = L + (l - (a + 1))
    <3>1. L + (k - (a + 1)) < L + (l - (a + 1)) BY <2>0
    <3> QED BY <2>5, <3>1, <1>10
  <2>6. CASE k > a + 1 /\ l <= a BY <2>0, <2>6
  <2> QED BY <2>1, <2>2, <2>3, <2>4, <2>5, <2>6
<1>18. SystemsKept(p, s)
  <2> SUFFICES ASSUME NEW q \in DOMAIN p, p[q].role = "system" PROVE p[q] \in Range(s) BY DEF SystemsKept
  <2>1. q \in P BY <1>6, <1>7
  <2>2. Rank(P, q) \in 1 .. a /\ Nth(P, Rank(P, q)) = q BY <2>1, <1>10
  <2>3. s[Rank(P, q)] = p[q] /\ Rank(P, q) \in DOMAIN s BY <2>2, <1>2, <1>12, <1>14
  <2> QED BY <2>3, RangeIs
<1>19. OldestGone(p, s)
  <2> SUFFICES ASSUME NEW q \in DOMAIN p, NEW r \in DOMAIN p, q < r, p[q].role # "system",
                      p[r] \notin Range(s), p[q] \in Range(s)
               PROVE  FALSE
    BY DEF OldestGone
  <2>1. q \in Q /\ r \in Q
    <3>1. p[r].role # "system" BY DEF SystemsFirst
    <3> QED BY <3>1, <1>5, <1>7
  <2>2. PICK k \in DOMAIN s : s[k] = p[q] BY RangeIs
  <2>3. k > a + 1 /\ Rank(Q, q) = L + (k - (a + 1))
    <3>1. q \notin P BY <1>5
    <3> QED BY <2>2, <3>1, <1>15
  <2>4. Rank(Q, q) < Rank(Q, r) /\ Rank(Q, r) \in 1 .. c BY <2>1, <1>10
  <2> DEFINE j == Rank(Q, r) - L
  <2>5. j \in 1 .. b /\ L + j = Rank(Q, r)
    <3>1. k \in Int BY <1>14
    <3> QED BY <3>1, <2>3, <2>4, <1>2, <1>12
  <2> HIDE DEF j
  <2>6. s[a + 1 + j] = p[r] BY <2>1, <2>5, <1>10, <1>14
  <2>7. a + 1 + j \in DOMAIN s BY <2>5, <1>2, <1>12, <1>14
  <2> QED BY <2>6, <2>7, RangeIs
<1> QED BY <1>17, <1>18, <1>19 DEF Reduces, s, m, w

\* A recorded message carries its position, so no two messages of a prompt are the same.
Numbered(h) == \A k \in DOMAIN h : h[k].id = <<"history", k>>

\* A prompt has whole groups, no message twice, and its system messages first.
LEMMA PromptIs ==
    ASSUME NEW h \in Histories, Numbered(h), NEW a \in Nat, a \in AppVersions
    PROVE  LET p == Contribution(a) \o Pair(h) IN
           /\ p \in Convos /\ WellPaired(p) /\ Distinct(p) /\ SystemsFirst(p)
           /\ \A size \in SummarySizes : Summary(size) \notin Range(p)
<1> DEFINE c == Contribution(a)
           t == Pair(h)
           p == c \o t
           S == Showable(h)
           n == Len(c)
<1>1. /\ h \in Convos /\ t \in Convos /\ WellPaired(t) /\ Len(t) \in Nat /\ DOMAIN t = 1 .. Len(t)
      /\ \A k \in DOMAIN t : t[k].role # "system"
      BY PairSpoken, PairIs, ConvoIs
<1>2. /\ c \in Convos /\ n \in {0, 1} /\ DOMAIN c = 1 .. n
      /\ \A k \in DOMAIN c : c[k].role = "system" /\ c[k].id = <<"app", a>>
  <2>1. c \in Convos /\ \A k \in DOMAIN c : c[k].role = "system" BY ContributionIs
  <2>2. DOMAIN c = 1 .. n BY <2>1, ConvoIs
  <2> DEFINE m == [id |-> <<"app", a>>, role |-> "system", calls |-> <<>>, answers |-> None,
                   size |-> ContributedSize[a]]
  <2>3. c = <<>> \/ c = <<m>> BY DEF Contribution
  <2>4. m.id = <<"app", a>> OBVIOUS
  <2> HIDE DEF m, c
  <2>5. n \in {0, 1} BY <2>3
  <2>6. \A k \in DOMAIN c : c[k].id = <<"app", a>> BY <2>3, <2>4
  <2> QED BY <2>1, <2>2, <2>5, <2>6
<1>3. WellPaired(c) BY <1>2, PlainIsPaired DEF IsPlain, IsTool, Opens
<1>4. \A k \in DOMAIN t : \E i \in DOMAIN h : t[k] = h[i] /\ Rank(S, i) = k
  <2>1. S \in SUBSET DOMAIN h /\ h \in Seq(Messages) /\ DOMAIN h = 1 .. Len(h) /\ Len(h) \in Nat
        BY <1>1, ConvoIs DEF Showable, Convos
  <2>2. /\ Len(Pick(h, S)) = Cardinality(S)
        /\ \A k \in 1 .. Cardinality(S) : Nth(S, k) \in S /\ Pick(h, S)[k] = h[Nth(S, k)]
        BY <2>1, PickIs
  <2>3. S \in SUBSET Int /\ IsFiniteSet(S)
    <3> HIDE DEF S
    <3>1. S \in SUBSET (1 .. Len(h)) BY <2>1
    <3> QED BY <2>1, <3>1, PositionsFinite
  <2>4. \A k \in 1 .. Cardinality(S) : Rank(S, Nth(S, k)) = k BY <2>3, NthIs
  <2>5. t = Pick(h, S) BY <1>1, PairPicks
  <2> QED BY <1>1, <2>1, <2>2, <2>4, <2>5
<1>5. \A k, l \in DOMAIN t : t[k] = t[l] => k = l
  <2> SUFFICES ASSUME NEW k \in DOMAIN t, NEW l \in DOMAIN t, t[k] = t[l] PROVE k = l OBVIOUS
  <2>1. PICK i \in DOMAIN h : t[k] = h[i] /\ Rank(S, i) = k BY <1>4
  <2>2. PICK j \in DOMAIN h : t[l] = h[j] /\ Rank(S, j) = l BY <1>4
  <2>3. h[i].id = <<"history", i>> /\ h[j].id = <<"history", j>> BY DEF Numbered
  <2>4. h[i].id[2] = i /\ h[j].id[2] = j BY <2>3
  <2>5. h[i] = h[j] BY <2>1, <2>2
  <2>6. i = j BY <2>4, <2>5
  <2> QED BY <2>1, <2>2, <2>6
<1>6. \A k \in DOMAIN t : t[k].id[1] = "history"
  <2> SUFFICES ASSUME NEW k \in DOMAIN t PROVE t[k].id[1] = "history" OBVIOUS
  <2>1. PICK i \in DOMAIN h : t[k] = h[i] BY <1>4
  <2>2. h[i].id = <<"history", i>> BY DEF Numbered
  <2> QED BY <2>1, <2>2
<1> HIDE DEF c, t, n, S
<1>7. p \in Convos /\ WellPaired(p) BY <1>1, <1>2, <1>3, WellPairedConcat
<1>8. /\ DOMAIN p = 1 .. n + Len(t)
      /\ \A k \in 1 .. n : p[k] = c[k]
      /\ \A k \in 1 .. Len(t) : p[n + k] = t[k]
  <2>1. c \in Seq(Messages) /\ t \in Seq(Messages) /\ Len(c) = n BY <1>1, <1>2 DEF Convos, n
  <2>2. Len(p) = n + Len(t) /\ DOMAIN p = 1 .. Len(p) BY <2>1, <1>2
  <2>3. \A k \in 1 .. n : p[k] = c[k] BY <2>1, <1>2
  <2>4. \A k \in 1 .. Len(t) : p[n + k] = t[k] BY <2>1, <1>2
  <2> QED BY <2>2, <2>3, <2>4
<1> HIDE DEF p
<1>9. ASSUME NEW k \in DOMAIN p
      PROVE  \/ k \in 1 .. n /\ p[k].role = "system" /\ p[k].id[1] = "app"
             \/ /\ k - n \in DOMAIN t /\ k > n /\ p[k] = t[k - n]
                /\ p[k].role # "system" /\ p[k].id[1] = "history"
  <2>1. CASE k <= n
    <3>1. k \in 1 .. n BY <2>1, <1>2, <1>8
    <3>2. p[k].role = "system" /\ p[k].id = <<"app", a>> BY <3>1, <1>2, <1>8
    <3>3. p[k].id[1] = "app" BY <3>2
    <3> QED BY <3>1, <3>2, <3>3
  <2>2. CASE k > n
    <3>1. k - n \in 1 .. Len(t) /\ n + (k - n) = k BY <2>2, <1>1, <1>2, <1>8
    <3>2. p[k] = t[k - n] BY <3>1, <1>8
    <3> QED BY <3>1, <3>2, <2>2, <1>1, <1>6
  <2> QED BY <2>1, <2>2, <1>2, <1>8
<1>10. Distinct(p)
  <2> SUFFICES ASSUME NEW k \in DOMAIN p, NEW l \in DOMAIN p, p[k] = p[l] PROVE k = l BY DEF Distinct
  <2>0. k \in Int /\ l \in Int /\ n \in Int BY <1>2, <1>8
  <2>1. CASE k \in 1 .. n
    <3>1. l \in 1 .. n BY <2>1, <2>0, <1>9
    <3> QED BY <2>1, <3>1, <1>2
  <2>2. CASE k \notin 1 .. n
    <3>1. p[k].role # "system" /\ k - n \in DOMAIN t /\ p[k] = t[k - n] BY <2>2, <1>9
    <3>2. l - n \in DOMAIN t /\ p[l] = t[l - n] BY <3>1, <1>9
    <3>3. k - n = l - n BY <3>1, <3>2, <1>5
    <3> QED BY <3>3, <2>0
  <2> QED BY <2>1, <2>2
<1>11. SystemsFirst(p)
  <2> SUFFICES ASSUME NEW k \in DOMAIN p, NEW l \in DOMAIN p, k < l, p[l].role = "system"
               PROVE  p[k].role = "system"
    BY DEF SystemsFirst
  <2>0. k \in Int /\ l \in Int /\ n \in Int BY <1>2, <1>8
  <2>1. l \in 1 .. n BY <1>9
  <2>2. ~(k > n) BY <2>0, <2>1
  <2> QED BY <2>2, <1>9
<1>12. ASSUME NEW size \in SummarySizes, Summary(size) \in Range(p) PROVE FALSE
  <2>1. PICK k \in DOMAIN p : p[k] = Summary(size) BY <1>12, RangeIs
  <2>2. p[k].id[1] = "summary" BY <2>1 DEF Summary
  <2> QED BY <2>2, <1>9
<1> QED BY <1>7, <1>10, <1>11, <1>12 DEF p, c, t

-----------------------------------------------------------------------------
(* The view of every step of prepare, and a stored one, lacks only the oldest. *)

Trimming == strategy = "trim"

NumberedInv   == Numbered(history) /\ Numbered(got.history)
SummarizeInv  == pc = "summarize" => ~Trimming /\ view = prompt
ViewReduces   == pc \in Compressing \cup {"refused"} => Reduces(prompt, view, Trimming)
StoredReduces == stored # None => Reduces(stored.key.prompt, stored.messages, Trimming)
RefusedStuck  == pc = "refused" => ~Fits(view) /\ ToolGroups(view) = {} /\ PlainTurns(view) = {}

ReduceInv == NumberedInv /\ SummarizeInv /\ ViewReduces /\ StoredReduces /\ RefusedStuck

\* No view has been made.
LEMMA ReduceInit == Init => ReduceInv
<1> SUFFICES ASSUME Init PROVE ReduceInv OBVIOUS
<1>1. history = <<>> /\ got.history = <<>> /\ pc = "idle" /\ stored = None BY DEF Init, NoRead
<1>2. DOMAIN <<>> = {} OBVIOUS
<1>3. NumberedInv BY <1>1, <1>2 DEF NumberedInv, Numbered
<1> QED BY <1>1, <1>3
        DEF ReduceInv, SummarizeInv, ViewReduces, StoredReduces, RefusedStuck, Compressing

\* The prompt of the current step.
LEMMA PromptFacts ==
    ASSUME ReadInv, PromptBuilt, ReduceInv, pc \in Built
    PROVE  /\ prompt \in Convos /\ WellPaired(prompt) /\ Distinct(prompt) /\ SystemsFirst(prompt)
           /\ \A size \in SummarySizes : Summary(size) \notin Range(prompt)
<1>1. got.history \in Histories BY DEF ReadInv, GotType
<1>2. got.app \in Nat /\ got.app \in AppVersions /\ prompt = Contribution(got.app) \o Pair(got.history)
      BY DEF PromptBuilt
<1>3. Numbered(got.history) BY DEF ReduceInv, NumberedInv
<1> QED BY <1>1, <1>2, <1>3, PromptIs

\* Messages of a history are told apart by their place.
LEMMA NumberedNext == ReadInv /\ NumberedInv /\ [Next]_vars => NumberedInv'
<1> SUFFICES ASSUME ReadInv, NumberedInv, [Next]_vars PROVE NumberedInv' OBVIOUS
<1> USE DEF facts, work
<1>1. CASE Record
  <2>1. PICK b \in Bodies :
          history' = Append(history, [id |-> <<"history", Len(history) + 1>>, role |-> b.role,
                                      calls |-> b.calls, answers |-> b.answers, size |-> b.size])
    BY <1>1 DEF Record
  <2> DEFINE n == Len(history)
             m == [id |-> <<"history", n + 1>>, role |-> b.role,
                   calls |-> b.calls, answers |-> b.answers, size |-> b.size]
  <2>2. history \in Seq(Recorded) /\ n \in Nat BY DEF ReadInv, FactsType, Histories
  <2>3. history' = Append(history, m) /\ m.id = <<"history", n + 1>> BY <2>1
  <2> HIDE DEF m
  <2>4. /\ DOMAIN history' = 1 .. n + 1
        /\ \A k \in 1 .. n : history'[k] = history[k]
        /\ history'[n + 1] = m
        BY <2>2, <2>3
  <2> HIDE DEF n
  <2>5. ASSUME NEW k \in DOMAIN history' PROVE history'[k].id = <<"history", k>>
    <3>1. CASE k = n + 1 BY <3>1, <2>3, <2>4
    <3>2. CASE k # n + 1
      <4>1. k \in 1 .. n /\ DOMAIN history = 1 .. n BY <3>2, <2>2, <2>4 DEF n
      <4> QED BY <4>1, <2>4 DEF NumberedInv, Numbered
    <3> QED BY <3>1, <3>2
  <2>6. got' = got BY <1>1 DEF Record
  <2> QED BY <2>5, <2>6 DEF NumberedInv, Numbered
<1>2. CASE RecordElsewhere \/ PublishTools \/ CommitApplication \/ InvalidateSummary
  BY <1>2 DEF RecordElsewhere, PublishTools, CommitApplication, InvalidateSummary, NumberedInv
<1>3. CASE ReadSnapshots \/ ReadApplication \/ ReadAgain
  <2>1. got \in [version : Int, history : Histories, cap : Int, app : Int,
                 again : Int \X Int, instant : Instants] BY DEF ReadInv, GotType
  <2>2. history' = history /\ got'.history \in {history, got.history}
    BY <1>3, <2>1 DEF ReadSnapshots, ReadApplication, ReadAgain
  <2> QED BY <2>2 DEF NumberedInv
<1>4. CASE Compare \/ Return
  <2>1. history' = history /\ (got' = got \/ got'.history = <<>>) BY <1>4 DEF Compare, Return, NoRead
  <2>2. DOMAIN <<>> = {} OBVIOUS
  <2> QED BY <2>1, <2>2 DEF NumberedInv, Numbered
<1>5. CASE Begin \/ Build \/ Reuse \/ StartTrimming \/ StartSummarizing \/ Summarized \/ SummarizerFails
  BY <1>5 DEF Begin, Build, Reuse, StartTrimming, StartSummarizing, Summarized, SummarizerFails, NumberedInv
<1>6. CASE Trimmed \/ DropToolGroup \/ DropPlainTurn \/ Refuse \/ StoreProjection \/ Deliver
  BY <1>6 DEF Trimmed, DropToolGroup, DropPlainTurn, Refuse, StoreProjection, Deliver, NumberedInv
<1>7. CASE UNCHANGED vars
  BY <1>7 DEF vars, NumberedInv
<1> QED BY <1>1, <1>2, <1>3, <1>4, <1>5, <1>6, <1>7 DEF Next, Writers, Prepare

\* Every drop, the summary and the store keep ReduceInv.
LEMMA ReduceNext ==
    ReadInv /\ ViewInv /\ PromptBuilt /\ ReduceInv /\ [Next]_vars => ReduceInv'
<1> SUFFICES ASSUME ReadInv, ViewInv, PromptBuilt, ReduceInv, [Next]_vars PROVE ReduceInv' OBVIOUS
<1> DEFINE Rest == SummarizeInv /\ ViewReduces /\ StoredReduces /\ RefusedStuck
<1>a. NumberedInv' BY NumberedNext DEF ReduceInv
<1>b. Rest BY DEF ReduceInv
<1>c. SUFFICES Rest' BY <1>a DEF ReduceInv
<1>d. view \in Convos BY DEF ViewInv, TypeOK, Convos
<1> USE DEF facts, work
<1>1. CASE Writers
  <2>1. /\ UNCHANGED <<strategy, pc, got, prompt, available, view>> /\ (stored' = stored \/ stored' = None)
    BY <1>1 DEF Writers, Record, RecordElsewhere, PublishTools, CommitApplication, InvalidateSummary
  <2> QED BY <1>b, <2>1 DEF SummarizeInv, ViewReduces, StoredReduces, RefusedStuck, Trimming, Fits
<1>2. CASE Begin \/ ReadSnapshots \/ ReadApplication \/ ReadAgain \/ Compare \/ Build \/ Return \/ SummarizerFails
  <2>1. /\ UNCHANGED <<strategy, stored>>
        /\ pc' \in {"read", "application", "again", "compare", "build", "conflict", "project", "no_budget",
                    "idle", "no_summary"}
    BY <1>2 DEF Begin, ReadSnapshots, ReadApplication, ReadAgain, Compare, Build, Return, SummarizerFails
  <2> QED BY <1>b, <2>1 DEF SummarizeInv, ViewReduces, StoredReduces, RefusedStuck, Trimming, Compressing
<1>3. CASE Reuse
  <2>1. stored # None /\ stored.key.prompt = prompt BY <1>3 DEF Reuse, Key
  <2>2. Reduces(prompt, stored.messages, Trimming) BY <1>b, <2>1 DEF StoredReduces
  <2>3. pc' = "check" /\ view' = stored.messages /\ UNCHANGED <<strategy, stored, prompt>> BY <1>3 DEF Reuse
  <2> QED BY <1>b, <2>2, <2>3 DEF SummarizeInv, ViewReduces, StoredReduces, RefusedStuck, Trimming, Compressing
<1>4. CASE StartTrimming \/ StartSummarizing
  <2>1. pc \in Built BY <1>4 DEF StartTrimming, StartSummarizing, Built
  <2>2. prompt \in Convos /\ WellPaired(prompt) /\ Distinct(prompt) BY <2>1, PromptFacts
  <2>3. view' = prompt /\ prompt' = prompt
    <3>1. view' = Pair(prompt) /\ prompt' = prompt BY <1>4 DEF StartTrimming, StartSummarizing
    <3> QED BY <3>1, <2>2, PairAgain
  <2>4. Reduces(prompt, prompt, Trimming) BY <2>2, ReducesItself
  <2>5. /\ UNCHANGED <<strategy, stored>> /\ pc' \in {"trim", "check", "summarize"}
        /\ pc' = "summarize" => strategy = "summarize"
    BY <1>4 DEF StartTrimming, StartSummarizing
  <2> QED BY <1>b, <2>3, <2>4, <2>5
          DEF SummarizeInv, ViewReduces, StoredReduces, RefusedStuck, Trimming, Compressing
<1>5. CASE Summarized
  <2>1. pc = "summarize" BY <1>5 DEF Summarized
  <2>2. view = prompt /\ ~Trimming BY <1>b, <2>1 DEF SummarizeInv
  <2>3. pc \in Built BY <2>1 DEF Built, Compressing
  <2>4. /\ prompt \in Convos /\ WellPaired(prompt) /\ Distinct(prompt) /\ SystemsFirst(prompt)
        /\ \A size \in SummarySizes : Summary(size) \notin Range(prompt) BY <2>3, PromptFacts
  <2> DEFINE short(size) == Systems(view) \o <<Summary(size)>> \o Recent(view)
  <2>5. PICK size \in SummarySizes : view' = short(size) \/ view' = Pair(short(size)) BY <1>5 DEF Summarized
  <2>6. short(size) \in Convos /\ WellPaired(short(size)) BY <2>2, <2>4, ShortIs
  <2>7. Reduces(prompt, short(size), FALSE) BY <2>2, <2>4, ShortReduces
  <2> HIDE DEF short
  <2>8. view' = short(size) BY <2>5, <2>6, PairAgain
  <2>9. Reduces(prompt, view', Trimming) BY <2>2, <2>7, <2>8 DEF Reduces
  <2>10. UNCHANGED <<strategy, stored, prompt>> /\ pc' \in {"store", "trim"} BY <1>5 DEF Summarized
  <2> QED BY <1>b, <2>9, <2>10
          DEF SummarizeInv, ViewReduces, StoredReduces, RefusedStuck, Trimming, Compressing
<1>6. CASE Trimmed \/ Deliver
  <2>1. /\ pc \in {"trim", "check"} /\ UNCHANGED <<strategy, stored, prompt, view>>
        /\ pc' \in {"store", "check", "ready", "overflow"}
    BY <1>6 DEF Trimmed, Deliver
  <2> QED BY <1>b, <2>1 DEF SummarizeInv, ViewReduces, StoredReduces, RefusedStuck, Trimming, Compressing
<1>7. CASE Refuse
  <2>1. /\ pc = "trim" /\ pc' = "refused" /\ UNCHANGED <<strategy, stored, prompt, view, available>>
        /\ ~Fits(view) /\ ToolGroups(view) = {} /\ PlainTurns(view) = {}
    BY <1>7 DEF Refuse
  <2>2. RefusedStuck' BY <2>1 DEF RefusedStuck, Fits
  <2> QED BY <1>b, <2>1, <2>2 DEF SummarizeInv, ViewReduces, StoredReduces, Trimming, Compressing
<1>8. CASE DropToolGroup \/ DropPlainTurn
  <2>1. pc = "trim" /\ pc' = pc /\ UNCHANGED <<strategy, stored, prompt>> BY <1>8 DEF DropToolGroup, DropPlainTurn
  <2>2. WellPaired(view) /\ Reduces(prompt, view, Trimming)
    BY <1>b, <2>1 DEF ViewInv, PairedView, ViewReduces, Compressing
  <2>3. prompt \in Convos /\ SystemsFirst(prompt)
    <3>1. pc \in Built BY <2>1 DEF Built, Compressing
    <3> QED BY <3>1, PromptFacts
  <2>4. CASE DropToolGroup
    <3>1. ToolGroups(view) # {} /\ view' = Without(view, Min(ToolGroups(view)), GroupEnd(view, Min(ToolGroups(view))))
      BY <2>4 DEF DropToolGroup
    <3>2. Reduces(prompt, view', Trimming) BY <1>d, <2>2, <2>3, <3>1, GroupReduces
    <3> QED BY <1>b, <2>1, <3>2
            DEF SummarizeInv, ViewReduces, StoredReduces, RefusedStuck, Trimming, Compressing
  <2>5. CASE DropPlainTurn
    <3>1. /\ ToolGroups(view) = {} /\ PlainTurns(view) # {}
          /\ view' = Without(view, Min(PlainTurns(view)), Min(PlainTurns(view)))
      BY <2>5 DEF DropPlainTurn
    <3>2. Reduces(prompt, view', Trimming) BY <1>d, <2>2, <2>3, <3>1, PlainReduces
    <3> QED BY <1>b, <2>1, <3>2
            DEF SummarizeInv, ViewReduces, StoredReduces, RefusedStuck, Trimming, Compressing
  <2> QED BY <1>8, <2>4, <2>5
<1>9. CASE StoreProjection
  <2>1. /\ pc = "store" /\ pc' = "check" /\ UNCHANGED <<strategy, prompt, view>>
        /\ stored'.key.prompt = prompt /\ stored'.messages = view
    BY <1>9 DEF StoreProjection, Key
  <2>2. Reduces(prompt, view, Trimming) BY <1>b, <2>1 DEF ViewReduces, Compressing
  <2> QED BY <1>b, <2>1, <2>2
          DEF SummarizeInv, ViewReduces, StoredReduces, RefusedStuck, Trimming, Compressing
<1>10. CASE UNCHANGED vars
  BY <1>10, <1>b DEF vars, SummarizeInv, ViewReduces, StoredReduces, RefusedStuck, Trimming, Fits
<1> QED BY <1>1, <1>2, <1>3, <1>4, <1>5, <1>6, <1>7, <1>8, <1>9, <1>10 DEF Next, Prepare

StepInv == ReadInv /\ ViewInv /\ PromptBuilt /\ ReduceInv

\* Everything the theorems below need holds initially and is preserved by every step.
LEMMA StepInvariant == Spec => []StepInv
<1>1. Init => StepInv
  BY ReadInit, ViewInit, ReduceInit DEF Init, StepInv, PromptBuilt, Built, Compressing
<1>2. StepInv /\ [Next]_vars => StepInv'
  <2> SUFFICES ASSUME StepInv, [Next]_vars PROVE StepInv' OBVIOUS
  <2>1. ReadInv' BY ReadNext DEF StepInv
  <2>2. ViewInv' BY <2>1, ViewNext DEF StepInv
  <2>3. PromptBuilt' BY PromptNext DEF StepInv
  <2>4. ReduceInv' BY ReduceNext DEF StepInv
  <2> QED BY <2>1, <2>2, <2>3, <2>4 DEF StepInv
<1> QED BY <1>1, <1>2, PTL DEF Spec

\* What a compressed view lacks is the oldest, for every history, budget and compressor, also
\* when it was stored by an earlier prepare (ToolGroupCompressor, SummarizingCompressor).
THEOREM OldestCorrect == Spec => []OldestDroppedFirst
<1>1. StepInv => OldestDroppedFirst
  <2> SUFFICES ASSUME StepInv, pc \in {"store", "check", "ready"}
               PROVE  /\ OldestGone(prompt, view) /\ SystemsKept(prompt, view)
                      /\ Trimming => GroupsFirst(prompt, view)
    BY DEF OldestDroppedFirst, Dropped, OldestGone, SystemsKept, GroupsFirst, Trimming, IsPlain
  <2>1. Reduces(prompt, view, Trimming) BY DEF StepInv, ReduceInv, ViewReduces, Compressing
  <2> QED BY <2>1 DEF Reduces
<1> QED BY <1>1, StepInvariant, PTL

\* A step is refused only when everything that may be dropped has been: the system messages and
\* the newest plain message are left and do not fit (ToolGroupCompressor.compress).
THEOREM RefusedCorrect == Spec => []RefusedOnlyWhenRequired
<1>1. StepInv => RefusedOnlyWhenRequired
  <2> SUFFICES ASSUME StepInv, pc = "refused" PROVE RefusedOnlyWhenRequired
    BY DEF RefusedOnlyWhenRequired
  <2> DEFINE Q == {k \in DOMAIN view : view[k].role # "system"}
             n == Len(view)
  <2>1. ~Fits(view) /\ ToolGroups(view) = {} /\ PlainTurns(view) = {}
    BY DEF StepInv, ReduceInv, RefusedStuck
  <2>2. Reduces(prompt, view, Trimming) BY DEF StepInv, ReduceInv, ViewReduces
  <2>3. prompt \in Convos /\ Distinct(prompt) /\ SystemsFirst(prompt)
    BY PromptFacts DEF StepInv, Built
  <2>4. view \in Convos /\ n \in Nat /\ DOMAIN view = 1 .. n BY ConvoIs DEF StepInv, ViewInv, TypeOK, Convos
  <2>5. \A k \in Q : k = n
    <3> SUFFICES ASSUME NEW k \in Q, k # n PROVE FALSE OBVIOUS
    <3>1. k \in 1 .. n - 1 BY <2>4
    <3> QED BY <3>1, <2>1 DEF PlainTurns
  <2>6. Len(Spoken(view)) = Cardinality(Q) /\ Cardinality(Q) \in Nat
    <3>1. Spoken(view) = Pick(view, Q) BY DEF Spoken
    <3>2. Q \in SUBSET DOMAIN view OBVIOUS
    <3> HIDE DEF Q
    <3> QED BY <3>1, <3>2, <2>4, PickIs DEF Convos
  <2>7. Cardinality(Q) <= 1
    <3>1. IsFiniteSet({n}) /\ Cardinality({n}) = 1 /\ Q \in SUBSET {n} BY <2>5, FS_Singleton
    <3> HIDE DEF Q
    <3>2. Cardinality(Q) <= Cardinality({n}) BY <3>1, FS_Subset
    <3> QED BY <3>1, <3>2
  <2>8. ASSUME NEW i \in DOMAIN prompt, NEW j \in DOMAIN prompt, i < j, ~IsTool(prompt[i]), ~IsTool(prompt[j]),
               ~Opens(prompt[i]), ~Opens(prompt[j]), prompt[i].role # "system", prompt[i] \in Range(view)
        PROVE  FALSE
    <3>1. PICK k \in DOMAIN view : view[k] = prompt[i] BY <2>8, RangeIs
    <3>2. Opens(prompt[i]) = Opens(prompt[j]) BY <2>8 DEF Opens
    <3>3. prompt[j] \in Range(view) BY <2>2, <2>8, <3>2 DEF Reduces, OldestGone
    <3>4. PICK l \in DOMAIN view : view[l] = prompt[j] BY <3>3, RangeIs
    <3>5. prompt[j].role # "system" BY <2>3, <2>8 DEF SystemsFirst
    <3>6. k \in Q /\ l \in Q BY <2>8, <3>1, <3>4, <3>5
    <3>7. prompt[i] = prompt[j] BY <2>5, <3>1, <3>4, <3>6
    <3>8. i = j /\ i \in Int BY <3>7, <2>3, ConvoIs DEF Distinct
    <3> QED BY <3>8, <2>8
  <2>9. ASSUME strategy = "trim", Spoken(view) = <<>>, NEW i \in DOMAIN prompt, ~Opens(prompt[i]),
               prompt[i].role \notin {"tool", "system"}
        PROVE  FALSE
    <3>1. IsPlain(prompt[i]) /\ prompt[i].role # "system" BY <2>9 DEF IsPlain, IsTool
    <3>2. PICK k \in DOMAIN view : view[k].role # "system" BY <3>1, <2>2, <2>9 DEF Reduces, PlainLeft, Trimming
    <3>3. Cardinality(Q) = 0 BY <2>6, <2>9
    <3>4. IsFiniteSet(Q)
      <4>1. Q \in SUBSET (1 .. n) BY <2>4
      <4> HIDE DEF Q
      <4> QED BY <4>1, <2>4, PositionsFinite
    <3>5. k \in Q BY <3>2
    <3> HIDE DEF Q
    <3>6. Q = {} BY <3>3, <3>4, FS_EmptySet
    <3> QED BY <3>5, <3>6
  <2> HIDE DEF Q, n
  <2>10. Len(Spoken(view)) <= 1 BY <2>6, <2>7
  <2> QED BY <2>1, <2>8, <2>9, <2>10 DEF RefusedOnlyWhenRequired, Dropped
<1> QED BY <1>1, StepInvariant, PTL

=============================================================================
