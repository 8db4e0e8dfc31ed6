----------------------------- MODULE ModelStream -----------------------------
(***************************************************************************)
(* The streams of OpenAIChatCompletionsModel (adapters/openai.py).  A      *)
(* stream is a generator, pulled by a task of the model pipeline, and a    *)
(* producer task that opens the SDK's stream, normalizes its chunks and    *)
(* queues the events.  All streams of one adapter share _active_streams,   *)
(* which the adapter's aclose releases and empties while generators may    *)
(* still be running.                                                       *)
(*                                                                         *)
(* An action is the code between two suspensions.  The producer's queue is *)
(* unbounded, so putting an event never suspends.  The SDK (external)      *)
(* answers, fails, hangs, closes slowly, and may go on for a while after   *)
(* its caller was cancelled.                                               *)
(*                                                                         *)
(* Data: what the SDK would send is a script of chunks.  A text event is   *)
(* the place of its chunk; a chunk has a text or one tool delta (several   *)
(* in one chunk are handled like several chunks); the arguments of a call  *)
(* are the sequence of their parts.  A call's name follows its id, and     *)
(* usage and finish reason, of which the last counts, are left out.        *)
(***************************************************************************)
EXTENDS Positions

CONSTANTS
    Streams,      \* the streams of the adapter
    Scripts,      \* for each of them, the scripts its SDK stream may follow
    Hanging,      \* the streams whose close never returns
    OwnsClient    \* owns_client

Word  == [kind |-> "word"]    \* a text with more than white space
Blank == [kind |-> "blank"]
Skip  == [kind |-> "skip"]    \* no choice in it, or nothing in its delta
NoId  == 0
ToolDelta == [kind : {"tool"}, index : Nat, id : Nat, part : {"none", "open", "shut", "bare"}]
Chunk == {Word, Blank, Skip} \cup ToolDelta

ASSUME Setup ==
    /\ Scripts \in [Streams -> SUBSET Seq(Chunk)]
    /\ Hanging \subseteq Streams /\ OwnsClient \in BOOLEAN

VARIABLES
    \* the generator (_stream)
    cons,       \* "new", "waiting" in get, "held" at a yield, "joining" the producer, "releasing", "end"
    why,        \* how it ends: "none", "ended", "failed" (AdapterError), "closed", "cancelled"
    late,       \* its deadline has passed
    slow,       \* `released` is False: a part of the cleanup took too long
    cut,        \* a cancellation broke the cleanup
    yielded,    \* the events handed out
    \* the producer (produce)
    prod,       \* "none", "new", "creating", "reading", "done"
    asked,      \* it was cancelled
    queue,
    script, read,    \* what the SDK sends, and how much of it was read
    texts,      \* text_parts
    tools,      \* the fragments by index
    \* the adapter
    opened,     \* streams the SDK opened
    active,     \* _active_streams
    tried,      \* streams whose release was begun
    dropped,    \* streams aclose cleared without a release
    closer,     \* aclose: "idle", "releasing", "client", "closed"
    todo        \* the streams it has still to release

generator == <<cons, why, late, slow, cut, yielded>>
normalizer == <<script, read, texts, tools>>
producer  == <<prod, asked, queue, normalizer>>
adapter   == <<opened, active, tried, dropped, closer, todo>>
vars      == <<generator, producer, adapter>>

-----------------------------------------------------------------------------
(* normalize_chat_completion_stream *)

NoFragment == [id |-> NoId, args |-> <<>>]
Fragment(fs, i) == IF i \in DOMAIN fs THEN fs[i] ELSE NoFragment

\* Mutant: a delta without an id erases the one that was sent.
CollectErasing(fs, c) ==
    [i \in DOMAIN fs \cup {c.index} |->
        IF i # c.index THEN fs[i]
        ELSE [id   |-> c.id,
              args |-> IF c.part # "none" THEN Append(Fragment(fs, i).args, c.part)
                       ELSE Fragment(fs, i).args]]

\* A tool delta extends the fragment of its index; an id, once sent, stays.
Collect(fs, c) ==
    [i \in DOMAIN fs \cup {c.index} |->
        IF i # c.index THEN fs[i]
        ELSE [id   |-> IF c.id # NoId THEN c.id ELSE Fragment(fs, i).id,
              args |-> IF c.part # "none" THEN Append(Fragment(fs, i).args, c.part)
                       ELSE Fragment(fs, i).args]]

\* json.loads gives an object; no arguments at all count as an empty one.
IsObject(args) == args \in {<<>>, <<"open", "shut">>}

\* The id of a call that came without one.
DefaultId(i) == -(i + 1)

\* assemble_tool_calls: in the order of the indices.
Assembled(fs) ==
    LET Call(i) == [id |-> IF fs[i].id = NoId THEN DefaultId(i) ELSE fs[i].id, args |-> fs[i].args]
    IN  [k \in 1 .. Cardinality(DOMAIN fs) |-> Call(Nth(DOMAIN fs, k))]

End   == [event |-> "end"]
Error == [event |-> "error"]
Delta(k) == [event |-> "delta", at |-> k]

\* The events that follow the last chunk: an ineffective result is not put out, and
\* arguments that are no object are an AdapterError.
LastEvents(s) ==
    LET effective == DOMAIN tools[s] # {} \/ \E k \in DOMAIN texts[s] : script[s][texts[s][k]] = Word
    IN  IF \E i \in DOMAIN tools[s] : ~IsObject(tools[s][i].args) THEN <<Error>>
        ELSE IF effective
             THEN <<[event |-> "completed", texts |-> texts[s], calls |-> Assembled(tools[s])], End>>
             ELSE <<End>>

-----------------------------------------------------------------------------
(* produce *)

Put(s, items) == queue' = [queue EXCEPT ![s] = @ \o items]
GoTo(s, l) == prod' = [prod EXCEPT ![s] = l]

ProducerBegins(s) ==
    /\ prod[s] = "new" /\ ~asked[s]
    /\ GoTo(s, "creating")
    /\ UNCHANGED <<generator, asked, queue, normalizer, adapter>>

\* The SDK may open a stream although the producer was cancelled meanwhile.
Opens(s) ==
    /\ prod[s] = "creating"
    /\ opened' = opened \cup {s} /\ active' = active \cup {s}
    /\ GoTo(s, "reading")
    /\ UNCHANGED <<generator, asked, queue, normalizer, tried, dropped, closer, todo>>

ReadsChunk(s) ==
    /\ prod[s] = "reading" /\ ~asked[s] /\ read[s] < Len(script[s])
    /\ LET k == read[s] + 1
           c == script[s][k]
       IN  /\ read' = [read EXCEPT ![s] = k]
           /\ texts' = IF c \in {Word, Blank} THEN [texts EXCEPT ![s] = Append(@, k)] ELSE texts
           /\ tools' = IF c.kind = "tool" THEN [tools EXCEPT ![s] = Collect(@, c)] ELSE tools
           /\ IF c \in {Word, Blank} THEN Put(s, <<Delta(k)>>) ELSE UNCHANGED queue
    /\ UNCHANGED <<generator, prod, asked, script, adapter>>

ReadsEnd(s) ==
    /\ prod[s] = "reading" /\ ~asked[s] /\ read[s] = Len(script[s])
    /\ Put(s, LastEvents(s))
    /\ GoTo(s, "done")
    /\ UNCHANGED <<generator, asked, normalizer, adapter>>

\* The SDK fails, or the producer's own timeout comes, which was started after the
\* generator's.
ProducerFails(s) ==
    /\ prod[s] \in {"creating", "reading"} /\ ~asked[s]
    /\ Put(s, <<Error>>)
    /\ GoTo(s, "done")
    /\ UNCHANGED <<generator, asked, normalizer, adapter>>

\* A cancelled producer exits; whatever it still puts in the queue, nobody gets it.
ProducerExits(s) ==
    /\ asked[s] /\ prod[s] \in {"new", "creating", "reading"}
    /\ GoTo(s, "done")
    /\ UNCHANGED <<generator, asked, queue, normalizer, adapter>>

-----------------------------------------------------------------------------
(* _stream *)

\* The try block is left for its finally clause, _release_producer up to its first await.
\* Nobody gets what is left in the queue.
Finally(s, cause) ==
    /\ cons' = [cons EXCEPT ![s] = "joining"] /\ why' = [why EXCEPT ![s] = cause]
    /\ late' = [late EXCEPT ![s] = FALSE]
    /\ asked' = [asked EXCEPT ![s] = prod[s] # "done"]
    /\ queue' = [queue EXCEPT ![s] = <<>>] /\ read' = [read EXCEPT ![s] = 0]
    /\ texts' = [texts EXCEPT ![s] = <<>>] /\ tools' = [tools EXCEPT ![s] = <<>>]

\* What get returned: the end, an error, or an event to hand out.
Deliver(s) ==
    /\ queue[s] # <<>>
    /\ LET item == Head(queue[s]) IN
          \/ item = End /\ Finally(s, "ended") /\ UNCHANGED yielded
          \/ item = Error /\ Finally(s, "failed") /\ UNCHANGED yielded
          \/ /\ item \notin {End, Error}
             /\ yielded' = [yielded EXCEPT ![s] = Append(@, item)]
             /\ queue' = [queue EXCEPT ![s] = Tail(@)]
             /\ cons' = [cons EXCEPT ![s] = "held"]
             /\ UNCHANGED <<why, late, asked, read, texts, tools>>

StartStream(s) ==
    /\ cons[s] = "new"
    /\ cons' = [cons EXCEPT ![s] = "waiting"]
    /\ GoTo(s, "new")
    /\ UNCHANGED <<why, late, slow, cut, yielded, asked, queue, normalizer, adapter>>

\* The next pull: _await_deadline looks at the clock first, then at the queue.
Pull(s) ==
    /\ cons[s] = "held"
    /\ \/ late[s] /\ Finally(s, "failed") /\ UNCHANGED yielded
       \/ ~late[s] /\ Deliver(s)
       \/ /\ ~late[s] /\ queue[s] = <<>>
          /\ cons' = [cons EXCEPT ![s] = "waiting"]
          /\ UNCHANGED <<why, late, yielded, asked, queue, read, texts, tools>>
    /\ UNCHANGED <<slow, cut, prod, script, adapter>>

Wakes(s) ==
    /\ cons[s] = "waiting"
    /\ Deliver(s)
    /\ UNCHANGED <<slow, cut, prod, script, adapter>>

\* The deadline may beat an event that is already queued.
WaitTimesOut(s) ==
    /\ cons[s] = "waiting" /\ late[s]
    /\ Finally(s, "failed")
    /\ UNCHANGED <<slow, cut, yielded, prod, script, adapter>>

PullCancelled(s) ==
    /\ cons[s] = "waiting"
    /\ Finally(s, "cancelled")
    /\ UNCHANGED <<slow, cut, yielded, prod, script, adapter>>

\* aclose at a yield; before the first pull there is nothing to undo.
StreamCloses(s) ==
    /\ cons[s] = "held"
    /\ Finally(s, "closed")
    /\ UNCHANGED <<slow, cut, yielded, prod, script, adapter>>

NeverPulled(s) ==
    /\ cons[s] = "new"
    /\ cons' = [cons EXCEPT ![s] = "end"] /\ why' = [why EXCEPT ![s] = "closed"]
    /\ UNCHANGED <<late, slow, cut, yielded, producer, adapter>>

-----------------------------------------------------------------------------
(* _release_producer, protected by await_despite_cancellation *)

\* A stream that was delivered whole but not released in time is an error after all.
Ends(s, tooLate) ==
    /\ cons' = [cons EXCEPT ![s] = "end"]
    /\ why' = [why EXCEPT ![s] = IF @ = "ended" /\ tooLate THEN "failed" ELSE @]

\* Mutant: the stream is looked for before the producer has ended.
JoinedEarly(s) ==
    /\ cons[s] = "joining" /\ ~cut[s]
    /\ IF s \in opened
       THEN cons' = [cons EXCEPT ![s] = "releasing"] /\ tried' = tried \cup {s} /\ UNCHANGED why
       ELSE Ends(s, slow[s]) /\ UNCHANGED tried
    /\ UNCHANGED <<late, slow, cut, yielded, producer, opened, active, dropped, closer, todo>>

\* gather returns only when the producer has ended, also when its time is up.
Joined(s) ==
    /\ cons[s] = "joining" /\ prod[s] = "done" /\ ~cut[s]
    /\ IF s \in opened
       THEN cons' = [cons EXCEPT ![s] = "releasing"] /\ tried' = tried \cup {s} /\ UNCHANGED why
       ELSE Ends(s, slow[s]) /\ UNCHANGED tried
    /\ UNCHANGED <<late, slow, cut, yielded, producer, opened, active, dropped, closer, todo>>

JoinTimesOut(s) ==
    /\ cons[s] = "joining" /\ prod[s] # "done" /\ ~slow[s]
    /\ slow' = [slow EXCEPT ![s] = TRUE]
    /\ UNCHANGED <<cons, why, late, cut, yielded, producer, adapter>>

\* One more cancellation: while the producer is awaited it leaves once that has ended,
\* and the stream stays with the adapter.
JoinCut(s) ==
    /\ cons[s] = "joining" /\ prod[s] = "done" /\ cut[s]
    /\ cons' = [cons EXCEPT ![s] = "end"] /\ why' = [why EXCEPT ![s] = "cancelled"]
    /\ UNCHANGED <<late, slow, cut, yielded, producer, adapter>>

\* Mutant: the close of a stream is awaited without a bound.
ReleaseEndsUnbounded(s) ==
    /\ cons[s] = "releasing" /\ s \notin Hanging
    /\ active' = active \ {s}
    /\ Ends(s, slow[s])
    /\ UNCHANGED <<late, slow, cut, yielded, producer, opened, tried, dropped, closer, todo>>

\* _release_within: the close returns or fails, which is as good, or its time is up.
ReleaseEnds(s) ==
    /\ cons[s] = "releasing"
    /\ active' = active \ {s}
    /\ \E tooLate \in IF s \in Hanging THEN {TRUE} ELSE BOOLEAN :
          Ends(s, slow[s] \/ tooLate) /\ slow' = [slow EXCEPT ![s] = @ \/ tooLate]
    /\ UNCHANGED <<late, cut, yielded, producer, opened, tried, dropped, closer, todo>>

CleanupCancelled(s) ==
    /\ cons[s] \in {"joining", "releasing"} /\ ~cut[s]
    /\ cut' = [cut EXCEPT ![s] = TRUE]
    /\ IF cons[s] = "joining" THEN UNCHANGED <<cons, why, active>>
       ELSE /\ cons' = [cons EXCEPT ![s] = "end"] /\ why' = [why EXCEPT ![s] = "cancelled"]
            /\ active' = active \ {s}
    /\ UNCHANGED <<late, slow, yielded, producer, opened, tried, dropped, closer, todo>>

-----------------------------------------------------------------------------
(* OpenAIChatCompletionsModel.aclose *)

\* _active_streams.clear(), streams opened since the loop began included.
Clears ==
    /\ active' = {} /\ todo' = {}
    /\ dropped' = dropped \cup (active \ tried')
    /\ closer' = IF OwnsClient THEN "client" ELSE "closed"

CloseAdapter ==
    /\ closer = "idle"
    /\ UNCHANGED tried
    /\ IF active = {} THEN Clears
       ELSE closer' = "releasing" /\ todo' = active /\ UNCHANGED <<active, dropped>>
    /\ UNCHANGED <<generator, producer, opened>>

\* The release of s ends, in time or not; its generator may be releasing it as well.
AdapterReleases(s) ==
    /\ closer = "releasing" /\ s \in todo
    /\ tried' = tried \cup {s}
    /\ IF todo = {s} THEN Clears
       ELSE todo' = todo \ {s} /\ UNCHANGED <<active, dropped, closer>>
    /\ UNCHANGED <<generator, producer, opened>>

ClientReleased ==
    /\ closer = "client"
    /\ closer' = "closed"
    /\ UNCHANGED <<generator, producer, opened, active, tried, dropped, todo>>

CloserCancelled ==
    /\ closer \in {"releasing", "client"}
    /\ closer' = "idle" /\ todo' = {}
    /\ UNCHANGED <<generator, producer, opened, active, tried, dropped>>

-----------------------------------------------------------------------------

DeadlinePasses(s) ==
    /\ cons[s] \in {"waiting", "held"} /\ ~late[s]
    /\ late' = [late EXCEPT ![s] = TRUE]
    /\ UNCHANGED <<cons, why, slow, cut, yielded, producer, adapter>>

Init ==
    /\ cons = [s \in Streams |-> "new"] /\ why = [s \in Streams |-> "none"]
    /\ late = [s \in Streams |-> FALSE] /\ slow = late /\ cut = late /\ asked = late
    /\ yielded = [s \in Streams |-> <<>>] /\ queue = yielded /\ texts = yielded /\ tools = yielded
    /\ prod = [s \in Streams |-> "none"] /\ read = [s \in Streams |-> 0]
    /\ script \in {f \in [Streams -> UNION {Scripts[s] : s \in Streams}] : \A s \in Streams : f[s] \in Scripts[s]}
    /\ opened = {} /\ active = {} /\ tried = {} /\ dropped = {}
    /\ closer = "idle" /\ todo = {}

\* What the event loop runs once it is ready, and what a timer ends.
GeneratorStep(s) == Wakes(s) \/ WaitTimesOut(s) \/ Joined(s) \/ JoinCut(s) \/ ReleaseEnds(s)

ProducerStep(s) ==
    ProducerBegins(s) \/ Opens(s) \/ ReadsChunk(s) \/ ReadsEnd(s) \/ ProducerFails(s) \/ ProducerExits(s)

Next ==
    \/ \E s \in Streams :
          \/ StartStream(s) \/ Pull(s) \/ PullCancelled(s) \/ StreamCloses(s) \/ NeverPulled(s)
          \/ GeneratorStep(s) \/ JoinTimesOut(s) \/ CleanupCancelled(s)
          \/ ProducerStep(s) \/ DeadlinePasses(s)
          \/ AdapterReleases(s)
    \/ CloseAdapter \/ ClientReleased \/ CloserCancelled

Spec == Init /\ [][Next]_vars

\* The event loop runs what is ready, timers fire, and the SDK gives in to a
\* cancellation sooner or later.
Fairness ==
    \A s \in Streams :
        /\ WF_vars(GeneratorStep(s)) /\ WF_vars(DeadlinePasses(s)) /\ WF_vars(ProducerExits(s))

FairSpec == Spec /\ Fairness

-----------------------------------------------------------------------------
(* Properties *)

IsText(c) == c \in {Word, Blank}

\* The first n chunks of a script: the indices they name, and of the deltas of one index
\* those with a part and those with an id.
Indices(sc, n)    == {sc[k].index : k \in {j \in 1 .. n : sc[j].kind = "tool"}}
DeltasOf(sc, n, i) == {k \in 1 .. n : sc[k].kind = "tool" /\ sc[k].index = i}
SentTo(sc, n, i)  == {k \in DeltasOf(sc, n, i) : sc[k].part # "none"}
NamedTo(sc, n, i) == {k \in DeltasOf(sc, n, i) : sc[k].id # NoId}

\* The parts of an index in the order they came, and the last id that came with one.
PartsAt(sc, sent) == [k \in 1 .. Cardinality(sent) |-> sc[Nth(sent, k)].part]
LastId(sc, named) == IF named = {} THEN NoId ELSE sc[CHOOSE k \in named : \A j \in named : j <= k].id
ArgsTo(sc, n, i)  == PartsAt(sc, SentTo(sc, n, i))
IdTo(sc, n, i)    == LastId(sc, NamedTo(sc, n, i))

\* The call of index i, read off the whole script.
CallOf(sc, i) ==
    LET id == IdTo(sc, Len(sc), i)
    IN  [id |-> IF id = NoId THEN DefaultId(i) ELSE id, args |-> ArgsTo(sc, Len(sc), i)]

CountTexts(sc, k) == Rank({j \in DOMAIN sc : IsText(sc[j])}, k)

\* What a completed event holds is what the SDK sent, however the parts of several
\* calls were mixed: every text, and one call for each index, in their order.
Faithful(result, sc) ==
    LET is == Indices(sc, Len(sc)) IN
    /\ \A k \in DOMAIN sc : IsText(sc[k]) => result.texts[CountTexts(sc, k)] = k
    /\ Len(result.texts) = CountTexts(sc, Len(sc))
    /\ Len(result.calls) = Cardinality(is)
    /\ \A i \in is : result.calls[Rank(is, i)] = CallOf(sc, i)

\* The consumer sees the SDK's texts in order, none lost or twice, a completed event
\* only after all of them and holding all that was sent, and a stream that ends
\* normally has handed out everything: no deadline, failure, cancellation or close cuts
\* it short unnoticed.
EventsFaithful ==
    \A s \in Streams :
        LET seen == yielded[s]
            sc   == script[s]
            all  == CountTexts(sc, Len(sc))
        IN  /\ \A k \in DOMAIN seen :
                  \/ seen[k].event = "delta" /\ IsText(sc[seen[k].at]) /\ CountTexts(sc, seen[k].at) = k
                  \/ seen[k].event = "completed" /\ k = all + 1 /\ Faithful(seen[k], sc)
            /\ why[s] = "ended" /\ cons[s] = "end" =>
                  Len(seen) = all + (IF Indices(sc, Len(sc)) # {} \/ \E k \in DOMAIN sc : sc[k] = Word THEN 1 ELSE 0)

\* When a generator has ended its producer has too, and the stream it opened, at
\* whatever moment, was released and is no longer the adapter's.  Only a cleanup that is
\* cancelled once more leaves it to the adapter, and then the adapter still has it,
\* unless its own aclose forgot it.  A normal end means that the cleanup was in time.
NothingLeftOpen ==
    \A s \in Streams : cons[s] = "end" =>
        /\ prod[s] \in {"none", "done"}
        /\ s \in opened /\ ~cut[s] => s \in tried /\ s \notin active
        /\ s \in opened \ tried => s \in active \cup dropped
        /\ why[s] = "ended" => ~slow[s] /\ ~cut[s]

\* Every pull comes back, with an event or for good: a silent SDK, a hanging close and
\* cancellations only delay it.
PullReturns ==
    \A s \in Streams : cons[s] \in {"waiting", "joining", "releasing"} ~> cons[s] \in {"held", "end"}

-----------------------------------------------------------------------------
(* The inductive invariant behind the release of what was opened *)

StreamsTyped ==
    /\ cons \in [Streams -> {"new", "waiting", "held", "joining", "releasing", "end"}]
    /\ prod \in [Streams -> {"none", "new", "creating", "reading", "done"}]
    /\ why \in [Streams -> {"none", "ended", "failed", "closed", "cancelled"}]
    /\ slow \in [Streams -> BOOLEAN] /\ cut \in [Streams -> BOOLEAN] /\ asked \in [Streams -> BOOLEAN]
    /\ opened \subseteq Streams

\* A generator that has not begun has no producer, and one that is past its join has
\* none any more.
ProducerInv(s) ==
    /\ prod[s] \in {"none", "new", "creating"} => s \notin opened
    /\ prod[s] = "none" => cons[s] \in {"new", "end"}
    /\ cons[s] = "new" => prod[s] = "none"
    /\ cons[s] \in {"releasing", "end"} => prod[s] \in {"none", "done"}

\* An opened stream has an owner until its release is begun.
OwnerInv(s) ==
    /\ s \in opened => s \in tried \cup active \cup dropped
    /\ cons[s] = "releasing" => s \in opened /\ s \in tried
    /\ cons[s] = "end" /\ s \in opened /\ ~cut[s] => s \in tried /\ s \notin active

\* The verdict of a cleanup that was slow or broken is not a normal end.
VerdictInv(s) ==
    /\ cut[s] => cons[s] \in {"joining", "end"}
    /\ cons[s] = "end" /\ why[s] = "ended" => ~slow[s] /\ ~cut[s]

StreamInv == StreamsTyped /\ \A s \in Streams : ProducerInv(s) /\ OwnerInv(s) /\ VerdictInv(s)

=============================================================================
