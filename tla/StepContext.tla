----------------------------- MODULE StepContext -----------------------------
(***************************************************************************)
(* Preparing one model step: DefaultStepProvider.prepare                   *)
(* (agent_runtime/context/manager.py) and the two compressors              *)
(* (context/compress.py), while other tasks write the transcript, publish  *)
(* tools and commit application state.                                     *)
(*                                                                         *)
(* One prepare reads the three snapshots twice, pairs calls with results,  *)
(* puts the contributions in front, reuses the stored projection or        *)
(* compresses, stores the new projection and checks the budget.  Other     *)
(* tasks run wherever the code awaits; the first read and the trimming     *)
(* loop await nothing.                                                     *)
(*                                                                         *)
(* Data: a message is its identity, role, call ids and token size.  Tools  *)
(* enter as the tokens their schemas take, contributions as one system     *)
(* message per application version, a version as its number.               *)
(* One record target, whose history holds no system message, although the  *)
(* recorder takes one from a request's input_items; the estimator accepts  *)
(* every text, as the default CharQuarterEstimator does.                   *)
(***************************************************************************)
EXTENDS Integers, Sequences, FiniteSets, SequencesExt, Positions

CONSTANTS
    None,              \* Python's None
    Bodies,            \* what writers record: [role, calls, answers, size]
    Strategies,        \* the compressors a host may install
    KeepRecent,        \* keep_recent_units, at least 1
    SummarySizes,      \* token sizes of the texts a summarizer may return
    MaxPrompt,         \* max_prompt_tokens
    ReservedOutput,    \* reserved_output_tokens
    SchemaTokens,      \* capability version -> size of its tools' names, descriptions and schemas
    ContributedSize,   \* application version -> size of its contribution; 0: no content
    MaxWrites,         \* bound: writes by other tasks
    MaxPrepares        \* bound: calls of prepare

MaxTries == 3
CapVersions == DOMAIN SchemaTokens
AppVersions == DOMAIN ContributedSize

ASSUME Inputs ==
    /\ \A b \in Bodies :
          /\ b.role \in {"user", "assistant", "tool"}
          /\ b.calls \in Seq(STRING) /\ b.answers \in STRING \cup {None} /\ b.size \in Nat
          /\ b.calls # <<>> => b.role = "assistant"
    /\ Strategies \subseteq {"trim", "summarize"}
    /\ KeepRecent \in Nat \ {0} /\ SummarySizes \subseteq Nat \ {0}
    /\ MaxPrompt \in Nat /\ ReservedOutput \in Nat
    /\ \A c \in CapVersions : SchemaTokens[c] \in Nat
    /\ \A a \in AppVersions : ContributedSize[a] \in Nat
    /\ 1 \in CapVersions /\ 1 \in AppVersions
    /\ MaxWrites \in Nat /\ MaxPrepares \in Nat

VARIABLES
    history,     \* the target's messages in the transcript
    elsewhere,   \* writes that moved the transcript's version and not this history
    cap, app,    \* versions of the published tools and of the application state
    stored,      \* MemorySummaryProjection: the stored projection
    strategy,    \* the installed compressor
    prepares,    \* calls of prepare so far
    pc, tries,   \* where the current prepare is; reads it has redone
    got,         \* what _read_consistent holds
    prompt,      \* contributions followed by the paired history
    available,   \* tokens left for the prompt
    view,        \* the messages for the model
    compressed   \* whether the view is a reduction of the prompt

facts == <<history, elsewhere, cap, app>>
work  == <<prompt, available, view, compressed>>
vars  == <<facts, stored, strategy, prepares, pc, tries, got, work>>

-----------------------------------------------------------------------------
(* Pairing and grouping. *)

Version == Len(history) + elsewhere

IsTool(m) == m.role = "tool"
Opens(m)  == m.role = "assistant" /\ m.calls # <<>>
Answers(s, i, j) == {s[k].answers : k \in i..j}

\* A skip that takes the first message for a result without looking at it.
PastResultsBlind(s, i) == Min({k \in i + 1..Len(s) : ~IsTool(s[k])} \cup {Len(s) + 1})

\* The first position from i on that holds no tool message.
PastResults(s, i) == Min({k \in i..Len(s) : ~IsTool(s[k])} \cup {Len(s) + 1})

\* The messages after s[i] answer each of its calls once, before anything else.
Complete(s, i) ==
    LET n == Len(s[i].calls) IN
    /\ Cardinality(Range(s[i].calls)) = n
    /\ PastResults(s, i + 1) > i + n
    /\ Answers(s, i + 1, i + n) = Range(s[i].calls)

\* What the scan takes at s[i]: a complete group, a message outside groups, or nothing.
Taken(s, i) ==
    IF Opens(s[i]) /\ Complete(s, i) THEN SubSeq(s, i, i + Len(s[i].calls))
    ELSE IF Opens(s[i]) \/ IsTool(s[i]) THEN <<>>
    ELSE <<s[i]>>

\* Where it goes on: a broken group is skipped with all results that follow it.
After(s, i) ==
    IF ~Opens(s[i]) THEN i + 1
    ELSE IF Complete(s, i) THEN i + Len(s[i].calls) + 1
    ELSE PastResults(s, i + 1)

Pair(s) == Chain(Len(s), [i \in DOMAIN s |-> Taken(s, i)], [i \in DOMAIN s |-> After(s, i)])

Estimate(s) == FoldLeft(LAMBDA total, m : total + m.size, 0, s)

\* The end of the run of results that belong to the calls of s[i].
GroupEnd(s, i) ==
    Min({k \in i..Len(s) : k = Len(s) \/ ~IsTool(s[k + 1]) \/ s[k + 1].answers \notin Range(s[i].calls)})

ToolGroups(s) == {i \in DOMAIN s : Opens(s[i]) /\ GroupEnd(s, i) > i}

\* An off-by-one in "all but the last".
PlainTurnsButTwo(s) == {i \in 1..Len(s) - 2 : s[i].role # "system"}

PlainTurns(s) == {i \in 1..Len(s) - 1 : s[i].role # "system"}

Without(s, i, j) == SubSeq(s, 1, i - 1) \o SubSeq(s, j + 1, Len(s))

Systems(s) == Pick(s, {i \in DOMAIN s : s[i].role = "system"})
Spoken(s)  == Pick(s, {i \in DOMAIN s : s[i].role # "system"})

\* Where the units of a paired view begin: a group or a plain message.
Units(s) == {i \in DOMAIN s : ~IsTool(s[i])}

\* How many spoken messages the summary replaces: all units but the last KeepRecent.
SummarizedLength(s) ==
    LET units == Units(Spoken(s))
        cut   == Cardinality(units) - KeepRecent
    IN  IF cut > 0 THEN Nth(units, cut + 1) - 1 ELSE 0

Contribution(a) ==
    IF ContributedSize[a] = 0 THEN <<>>
    ELSE <<[id |-> <<"app", a>>, role |-> "system", calls |-> <<>>, answers |-> None,
            size |-> ContributedSize[a]]>>

Summary(size) ==
    [id |-> <<"summary", size>>, role |-> "system", calls |-> <<>>, answers |-> None, size |-> size]

\* Tokens the tools and the reserved output leave for the prompt.
AvailableForPrompt(c) == MaxPrompt - (ReservedOutput + SchemaTokens[c])

\* A key that leaves out what the tools leave for the prompt.
KeyWithoutBudget == [history |-> got.version, application |-> got.app, prompt |-> prompt]

\* A key that forgets the history.
KeyWithoutHistory == [capabilities |-> got.cap, application |-> got.app, available |-> available]

\* Every input of the compression.
Key == [history |-> got.version, capabilities |-> got.cap, application |-> got.app,
        prompt |-> prompt, available |-> available]

-----------------------------------------------------------------------------
(* Other tasks: they run while prepare awaits something.  From "build" on  *)
(* prepare reads only what it holds, so a write that falls there is the    *)
(* same as one after it returned; the model takes it there.                *)

Awaiting == pc \in {"idle", "application", "again", "compare"}
MayWrite == Awaiting /\ Version + (cap - 1) + (app - 1) < MaxWrites

Record ==
    /\ MayWrite
    /\ \E b \in Bodies :
          history' = Append(history, [id |-> <<"history", Len(history) + 1>>, role |-> b.role,
                                      calls |-> b.calls, answers |-> b.answers, size |-> b.size])
    /\ UNCHANGED <<elsewhere, cap, app, stored, strategy, prepares, pc, tries, got, work>>

RecordElsewhere ==
    /\ MayWrite
    /\ elsewhere' = elsewhere + 1
    /\ UNCHANGED <<history, cap, app, stored, strategy, prepares, pc, tries, got, work>>

PublishTools ==
    /\ MayWrite /\ cap + 1 \in CapVersions
    /\ cap' = cap + 1
    /\ UNCHANGED <<history, elsewhere, app, stored, strategy, prepares, pc, tries, got, work>>

CommitApplication ==
    /\ MayWrite /\ app + 1 \in AppVersions
    /\ app' = app + 1
    /\ UNCHANGED <<history, elsewhere, cap, stored, strategy, prepares, pc, tries, got, work>>

\* The runner drops the projection after a commit that failed.
InvalidateSummary ==
    /\ pc = "idle" /\ stored # None
    /\ stored' = None
    /\ UNCHANGED <<facts, strategy, prepares, pc, tries, got, work>>

-----------------------------------------------------------------------------
(* _read_consistent: read, read again, compare, at most MaxTries times. *)

NoRead == [version |-> 0, history |-> <<>>, cap |-> 0, app |-> 0, again |-> <<0, 0>>,
           instant |-> <<0, 0, 0>>]

Begin ==
    /\ pc = "idle" /\ prepares < MaxPrepares
    /\ prepares' = prepares + 1
    /\ pc' = "read"
    /\ UNCHANGED <<facts, stored, strategy, tries, got, work>>

ReadSnapshots ==
    /\ pc = "read"
    /\ got' = [got EXCEPT !.version = Version, !.history = history, !.cap = cap]
    /\ pc' = "application"
    /\ UNCHANGED <<facts, stored, strategy, prepares, tries, work>>

\* `instant` records what was current when the application state was read; no code reads it.
ReadApplication ==
    /\ pc = "application"
    /\ got' = [got EXCEPT !.app = app, !.instant = <<Version, cap, app>>]
    /\ pc' = "again"
    /\ UNCHANGED <<facts, stored, strategy, prepares, tries, work>>

ReadAgain ==
    /\ pc = "again"
    /\ got' = [got EXCEPT !.again = <<Version, cap>>]
    /\ pc' = "compare"
    /\ UNCHANGED <<facts, stored, strategy, prepares, tries, work>>

\* A comparison that trusts the first read of the history.
UnchangedButHistory == got.again[2] = got.cap /\ got.app = app

Unchanged == got.again = <<got.version, got.cap>> /\ got.app = app

\* One read too many.
CompareOnceMore ==
    /\ pc = "compare"
    /\ \/ /\ Unchanged
          /\ pc' = "build" /\ UNCHANGED <<tries, got>>
       \/ /\ ~Unchanged
          /\ tries' = tries + 1 /\ got' = NoRead
          /\ pc' = IF tries + 1 <= MaxTries THEN "read" ELSE "conflict"
    /\ UNCHANGED <<facts, stored, strategy, prepares, work>>

Compare ==
    /\ pc = "compare"
    /\ \/ /\ Unchanged
          /\ pc' = "build" /\ UNCHANGED <<tries, got>>
       \/ /\ ~Unchanged
          /\ tries' = tries + 1 /\ got' = NoRead
          /\ pc' = IF tries + 1 < MaxTries THEN "read" ELSE "conflict"
    /\ UNCHANGED <<facts, stored, strategy, prepares, work>>

-----------------------------------------------------------------------------
(* The prompt, the stored projection and the compressors. *)

Build ==
    /\ pc = "build"
    /\ prompt' = Contribution(got.app) \o Pair(got.history)
    /\ available' = AvailableForPrompt(got.cap)
    /\ pc' = IF available' > 0 THEN "project" ELSE "no_budget"
    /\ UNCHANGED <<facts, stored, strategy, prepares, tries, got, view, compressed>>

Reuse ==
    /\ pc = "project"
    /\ stored # None /\ stored.key = Key
    /\ view' = stored.messages /\ compressed' = TRUE
    /\ pc' = "check"
    /\ UNCHANGED <<facts, stored, strategy, prepares, tries, got, prompt, available>>

Fits(s) == Estimate(s) <= available

StartTrimming ==
    /\ pc = "project"
    /\ stored # None => stored.key # Key
    /\ \/ strategy = "trim"
       \/ strategy = "summarize" /\ ~Fits(Pair(prompt)) /\ SummarizedLength(Pair(prompt)) = 0
    /\ view' = Pair(prompt) /\ compressed' = FALSE
    /\ pc' = "trim"
    /\ UNCHANGED <<facts, stored, strategy, prepares, tries, got, prompt, available>>

StartSummarizing ==
    /\ pc = "project"
    /\ stored # None => stored.key # Key
    /\ strategy = "summarize"
    /\ view' = Pair(prompt) /\ compressed' = FALSE
    /\ \/ Fits(Pair(prompt)) /\ pc' = "check"
       \/ ~Fits(Pair(prompt)) /\ SummarizedLength(Pair(prompt)) > 0 /\ pc' = "summarize"
    /\ UNCHANGED <<facts, stored, strategy, prepares, tries, got, prompt, available>>

\* A cut that counts messages instead of units.
RecentMessages(s) == SubSeq(Spoken(s), Len(Spoken(s)) - KeepRecent + 1, Len(Spoken(s)))

\* What the summary leaves of the spoken messages.
Recent(s) == SubSeq(Spoken(s), SummarizedLength(s) + 1, Len(Spoken(s)))

Summarized ==
    /\ pc = "summarize"
    /\ \E size \in SummarySizes :
          LET short == Systems(view) \o <<Summary(size)>> \o Recent(view) IN
          \/ Fits(short) /\ view' = short /\ pc' = "store"
          \/ ~Fits(short) /\ view' = Pair(short) /\ pc' = "trim"
    /\ compressed' = TRUE
    /\ UNCHANGED <<facts, stored, strategy, prepares, tries, got, prompt, available>>

\* The summarizer fails, or returns no text.
SummarizerFails ==
    /\ pc = "summarize"
    /\ pc' = "no_summary"
    /\ UNCHANGED <<facts, stored, strategy, prepares, tries, got, work>>

Trimmed ==
    /\ pc = "trim" /\ Fits(view)
    /\ pc' = IF compressed THEN "store" ELSE "check"
    /\ UNCHANGED <<facts, stored, strategy, prepares, tries, got, work>>

DropToolGroup ==
    /\ pc = "trim" /\ ~Fits(view) /\ ToolGroups(view) # {}
    /\ LET i == Min(ToolGroups(view)) IN view' = Without(view, i, GroupEnd(view, i))
    /\ compressed' = TRUE
    /\ UNCHANGED <<facts, stored, strategy, prepares, pc, tries, got, prompt, available>>

DropPlainTurn ==
    /\ pc = "trim" /\ ~Fits(view) /\ ToolGroups(view) = {} /\ PlainTurns(view) # {}
    /\ LET i == Min(PlainTurns(view)) IN view' = Without(view, i, i)
    /\ compressed' = TRUE
    /\ UNCHANGED <<facts, stored, strategy, prepares, pc, tries, got, prompt, available>>

Refuse ==
    /\ pc = "trim" /\ ~Fits(view) /\ ToolGroups(view) = {} /\ PlainTurns(view) = {}
    /\ pc' = "refused"
    /\ UNCHANGED <<facts, stored, strategy, prepares, tries, got, work>>

StoreProjection ==
    /\ pc = "store"
    /\ stored' = [key |-> Key, messages |-> view]
    /\ pc' = "check"
    /\ UNCHANGED <<facts, strategy, prepares, tries, got, work>>

\* The last check of prepare.
Deliver ==
    /\ pc = "check"
    /\ pc' = IF Fits(view) THEN "ready" ELSE "overflow"
    /\ UNCHANGED <<facts, stored, strategy, prepares, tries, got, work>>

Failures == {"conflict", "no_budget", "no_summary", "refused", "overflow"}

\* The caller takes the prepared step, or the error.
Return ==
    /\ pc \in {"ready"} \cup Failures
    /\ pc' = "idle" /\ tries' = 0
    /\ got' = NoRead /\ prompt' = <<>> /\ available' = 0 /\ view' = <<>> /\ compressed' = FALSE
    /\ UNCHANGED <<facts, stored, strategy, prepares>>

Init ==
    /\ history = <<>> /\ elsewhere = 0 /\ cap = 1 /\ app = 1
    /\ stored = None /\ strategy \in Strategies /\ prepares = 0
    /\ pc = "idle" /\ tries = 0 /\ got = NoRead
    /\ prompt = <<>> /\ available = 0 /\ view = <<>> /\ compressed = FALSE

Writers == Record \/ RecordElsewhere \/ PublishTools \/ CommitApplication \/ InvalidateSummary

Prepare ==
    \/ Begin \/ ReadSnapshots \/ ReadApplication \/ ReadAgain \/ Compare
    \/ Build \/ Reuse \/ StartTrimming \/ StartSummarizing \/ Summarized \/ SummarizerFails
    \/ Trimmed \/ DropToolGroup \/ DropPlainTurn \/ Refuse \/ StoreProjection \/ Deliver \/ Return

Next == Writers \/ Prepare
Spec == Init /\ [][Next]_vars

-----------------------------------------------------------------------------
(* Properties. *)

Messages == [id : (({"history", "app", "summary"}) \X Nat), role : {"system", "user", "assistant", "tool"},
             calls : Seq(STRING), answers : STRING \cup {None}, size : Nat]

Reads == [version : Int, history : Seq(Messages), cap : Int, app : Int,
          again : Int \X Int, instant : Int \X Int \X Int]

\* A projection's key is made of versions that exist and of a budget that left room.
Projections ==
    [key : [history : Int, capabilities : CapVersions, application : AppVersions,
            prompt : Seq(Messages), available : Nat \ {0}],
     messages : Seq(Messages)]

\* Every variable has its type, what _read_consistent holds and a stored projection with
\* every part of its key included, and reads are redone at most MaxTries times.
TypeOK ==
    /\ history \in Seq(Messages) /\ elsewhere \in Nat
    /\ cap \in CapVersions /\ app \in AppVersions
    /\ strategy \in Strategies /\ prepares \in 0..MaxPrepares
    /\ pc \in {"idle", "read", "application", "again", "compare", "build", "project", "summarize",
               "trim", "store", "check", "ready"} \cup Failures
    /\ tries \in 0..MaxTries
    /\ prompt \in Seq(Messages) /\ view \in Seq(Messages) /\ available \in Int /\ compressed \in BOOLEAN
    /\ got \in Reads /\ (stored # None => stored \in Projections)

\* The history, tools and application state a step is prepared from were all current at one
\* instant, whatever was written between the reads (_read_consistent).
SnapshotsCoexisted ==
    pc \in {"build", "project", "summarize", "trim", "store", "check", "ready"} =>
        <<got.version, got.cap, got.app>> = got.instant

\* Read from the history alone: what pairing keeps.
Answered(s, h) ==
    /\ Opens(s[h]) /\ h + Len(s[h].calls) <= Len(s)
    /\ \A k \in DOMAIN s[h].calls : \E j \in h + 1..h + Len(s[h].calls) :
          IsTool(s[j]) /\ s[j].answers = s[h].calls[k]
    /\ \A k, l \in DOMAIN s[h].calls : s[h].calls[k] = s[h].calls[l] => k = l

Showable(s) ==
    {i \in DOMAIN s : \/ ~IsTool(s[i]) /\ ~Opens(s[i])
                      \/ \E h \in 1..i : Answered(s, h) /\ i <= h + Len(s[h].calls)}

\* The prompt holds the contributions and exactly the plain messages and the fully answered
\* groups of the history, in order: pairing loses no complete exchange, whatever broken
\* groups surround it (pair_tool_messages).
PairingExact ==
    pc = "project" =>
        Spoken(prompt) = Pick(got.history, Showable(got.history))

\* No call reaches the model without its results and no result without its call, however the
\* view was summarized, trimmed or reused.
ViewWellPaired ==
    pc \in {"trim", "store", "check", "ready"} => Showable(view) = DOMAIN view

Dropped(m) == m \notin Range(view)

\* What a compressed view lacks is the oldest: no group or plain turn is dropped while an older
\* one of its kind stays; trimming takes plain turns only when no group is left; and the
\* contributions of the step's own application state are all there, also in a reused view.
OldestDroppedFirst ==
    pc \in {"store", "check", "ready"} =>
        /\ \A i, j \in DOMAIN prompt :
              /\ i < j /\ ~IsTool(prompt[i]) /\ ~IsTool(prompt[j])
              /\ prompt[i].role # "system" /\ Opens(prompt[i]) = Opens(prompt[j])
              /\ Dropped(prompt[j])
              => Dropped(prompt[i])
        /\ strategy = "trim" /\ (\E i \in DOMAIN prompt : ~IsTool(prompt[i]) /\ ~Opens(prompt[i]) /\ Dropped(prompt[i]))
              => \A k \in DOMAIN view : ~Opens(view[k])
        /\ \A i \in DOMAIN prompt : prompt[i].role = "system" => ~Dropped(prompt[i])

\* The step's budget holds without the last check of prepare ever raising: also a reused
\* projection was made for the tokens this step has.
ProjectionFits == pc # "overflow"

\* A step is refused only when nothing more may be dropped: what is left is the system
\* messages and the newest plain message, and they do not fit (ToolGroupCompressor.compress).
RefusedOnlyWhenRequired ==
    pc = "refused" =>
        /\ ~Fits(view)
        /\ Len(Spoken(view)) <= 1
        /\ \A i, j \in DOMAIN prompt :
              /\ i < j /\ ~IsTool(prompt[i]) /\ ~IsTool(prompt[j])
              /\ ~Opens(prompt[i]) /\ ~Opens(prompt[j]) /\ prompt[i].role # "system"
              => Dropped(prompt[i])
        /\ strategy = "trim" /\ Spoken(view) = <<>> =>
              \A i \in DOMAIN prompt : Opens(prompt[i]) \/ prompt[i].role \in {"tool", "system"}

\* The documentation of ToolGroupCompressor: "the final message carries the current turn, so
\* [it is never] dropped".
FinalMessageKept ==
    pc = "ready" /\ prompt # <<>> => ~Dropped(Last(prompt))

=============================================================================
