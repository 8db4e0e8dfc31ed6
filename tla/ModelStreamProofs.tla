--------------------------- MODULE ModelStreamProofs ---------------------------
(***************************************************************************)
(* What the adapter's streams leave behind, for any number of streams, any *)
(* scripts, and whatever the SDK, the consumers, the clock and the         *)
(* adapter's own aclose do: StreamInv is inductive, action by action, and  *)
(* gives NothingLeftOpen.  What they hand out: EventsInv adds that the     *)
(* accumulators are those of the chunks read, and that handed out and      *)
(* queued events are, place by place, those of the script; it gives        *)
(* EventsFaithful.                                                         *)
(***************************************************************************)
EXTENDS ModelStream, PositionFacts, TLAPS

USE DEF generator, normalizer, producer, adapter, vars

\* No stream has begun.
LEMMA StreamInit == Init => StreamInv
BY DEF Init, StreamInv, StreamsTyped, ProducerInv, OwnerInv, VerdictInv

\* A step of a generator or of its producer keeps StreamInv.
LEMMA StreamStep ==
    ASSUME StreamInv, NEW s \in Streams,
           \/ StartStream(s) \/ Pull(s) \/ PullCancelled(s) \/ StreamCloses(s) \/ NeverPulled(s)
           \/ GeneratorStep(s) \/ JoinTimesOut(s) \/ CleanupCancelled(s)
           \/ ProducerStep(s) \/ DeadlinePasses(s) \/ AdapterReleases(s)
    PROVE  StreamInv'
<1> USE DEF StreamInv, StreamsTyped, ProducerInv, OwnerInv, VerdictInv
<1>1. CASE StartStream(s) BY <1>1 DEF StartStream, GoTo
<1>2. CASE Pull(s) BY <1>2 DEF Pull, Finally, Deliver
<1>3. CASE PullCancelled(s) BY <1>3 DEF PullCancelled, Finally
<1>4. CASE StreamCloses(s) BY <1>4 DEF StreamCloses, Finally
<1>5. CASE NeverPulled(s) BY <1>5 DEF NeverPulled
<1>6. CASE Wakes(s) BY <1>6 DEF Wakes, Finally, Deliver
<1>7. CASE WaitTimesOut(s) BY <1>7 DEF WaitTimesOut, Finally
<1>8. CASE Joined(s) BY <1>8 DEF Joined, Ends
<1>9. CASE JoinCut(s) BY <1>9 DEF JoinCut
<1>10. CASE ReleaseEnds(s) BY <1>10 DEF ReleaseEnds, Ends
<1>11. CASE JoinTimesOut(s) BY <1>11 DEF JoinTimesOut
<1>12. CASE CleanupCancelled(s) BY <1>12 DEF CleanupCancelled
<1>13. CASE ProducerBegins(s) BY <1>13 DEF ProducerBegins, GoTo
<1>14. CASE Opens(s) BY <1>14 DEF Opens, GoTo
<1>15. CASE ReadsChunk(s) BY <1>15 DEF ReadsChunk
<1>16. CASE ReadsEnd(s) BY <1>16 DEF ReadsEnd, GoTo
<1>17. CASE ProducerFails(s) BY <1>17 DEF ProducerFails, GoTo
<1>18. CASE ProducerExits(s) BY <1>18 DEF ProducerExits, GoTo
<1>19. CASE DeadlinePasses(s) BY <1>19 DEF DeadlinePasses
<1>20. CASE AdapterReleases(s) BY <1>20 DEF AdapterReleases, Clears
<1> QED
    BY <1>1, <1>2, <1>3, <1>4, <1>5, <1>6, <1>7, <1>8, <1>9, <1>10, <1>11, <1>12, <1>13, <1>14, <1>15,
      <1>16, <1>17, <1>18, <1>19, <1>20 DEF GeneratorStep, ProducerStep

\* So does a step of the adapter's aclose.
LEMMA AdapterStep ==
    ASSUME StreamInv, CloseAdapter \/ ClientReleased \/ CloserCancelled
    PROVE  StreamInv'
<1> USE DEF StreamInv, StreamsTyped, ProducerInv, OwnerInv, VerdictInv
<1>1. CASE CloseAdapter BY <1>1 DEF CloseAdapter, Clears
<1>2. CASE ClientReleased BY <1>2 DEF ClientReleased
<1>3. CASE CloserCancelled BY <1>3 DEF CloserCancelled
<1> QED BY <1>1, <1>2, <1>3

\* _stream, produce, _release_producer and aclose keep StreamInv, however their steps
\* interleave.
THEOREM StreamInvCorrect == Spec => []StreamInv
<1>1. StreamInv /\ [Next]_vars => StreamInv'
  <2> SUFFICES ASSUME StreamInv, [Next]_vars PROVE StreamInv' OBVIOUS
  <2>1. CASE UNCHANGED vars BY <2>1 DEF StreamInv, StreamsTyped, ProducerInv, OwnerInv, VerdictInv
  <2> QED BY <2>1, StreamStep, AdapterStep DEF Next
<1> QED BY <1>1, StreamInit, PTL DEF Spec

\* Every stream the SDK opened is released, or left to the adapter by a cleanup that was
\* cancelled once more; no producer outlives its generator.
THEOREM NothingOpenCorrect == Spec => []NothingLeftOpen
<1>1. StreamInv => NothingLeftOpen
    BY DEF StreamInv, ProducerInv, OwnerInv, VerdictInv, NothingLeftOpen
<1> QED BY <1>1, StreamInvCorrect, PTL

-----------------------------------------------------------------------------
(* What the fragments and the texts are, chunk by chunk *)

\* An element more at the end.
LEMMA AppendIs ==
    ASSUME NEW X, NEW q \in Seq(X), NEW m \in X
    PROVE  /\ Append(q, m) \in Seq(X) /\ Len(Append(q, m)) = Len(q) + 1
           /\ \A k \in 1 .. Len(q) : Append(q, m)[k] = q[k]
           /\ Append(q, m)[Len(q) + 1] = m
OBVIOUS

\* A new last position.
LEMMA NthGrows ==
    ASSUME NEW n \in Nat, NEW P \in SUBSET (1 .. n)
    PROVE  /\ Cardinality(P \cup {n + 1}) = Cardinality(P) + 1 /\ Cardinality(P) \in Nat
           /\ \A k \in 1 .. Cardinality(P) : Nth(P \cup {n + 1}, k) = Nth(P, k)
           /\ Nth(P \cup {n + 1}, Cardinality(P) + 1) = n + 1
<1> DEFINE Q == P \cup {n + 1}
           a == Cardinality(P)
<1>1. P \in SUBSET Int /\ IsFiniteSet(P) /\ a \in Nat BY PositionsFinite
<1>2. n + 1 \notin P /\ Q \in SUBSET Int /\ n + 1 \in Q OBVIOUS
<1>3. IsFiniteSet(Q) /\ Cardinality(Q) = a + 1 BY <1>1, <1>2, FS_AddElement
<1>4. Rank(Q, n + 1) = a + 1
  <2>1. \A j \in Q : j <= n + 1 OBVIOUS
  <2> HIDE DEF Q, a
  <2>2. {j \in Q : j <= n + 1} = Q BY <2>1
  <2> QED BY <2>2, <1>3 DEF Rank
<1>5. \A i \in P : Rank(Q, i) = Rank(P, i)
  <2> SUFFICES ASSUME NEW i \in P PROVE Rank(Q, i) = Rank(P, i) OBVIOUS
  <2>1. {j \in Q : j <= i} = {j \in P : j <= i} OBVIOUS
  <2> QED BY <2>1 DEF Rank
<1>6. \A k \in 1 .. a : Nth(P, k) \in P /\ Rank(P, Nth(P, k)) = k BY <1>1, NthIs
<1>7. \A i \in Q : Nth(Q, Rank(Q, i)) = i BY <1>2, <1>3, NthIs
<1>8. \A k \in 1 .. a : Nth(Q, k) = Nth(P, k)
  <2> HIDE DEF Q, a
  <2> SUFFICES ASSUME NEW k \in 1 .. a PROVE Nth(Q, k) = Nth(P, k) OBVIOUS
  <2>1. Nth(P, k) \in P /\ Rank(P, Nth(P, k)) = k BY <1>6
  <2>2. Nth(P, k) \in Q /\ Rank(Q, Nth(P, k)) = k BY <2>1, <1>5 DEF Q
  <2> QED BY <2>2, <1>7
<1>9. Nth(Q, a + 1) = n + 1
  <2> HIDE DEF Q, a
  <2> QED BY <1>2, <1>4, <1>7
<1> QED BY <1>1, <1>3, <1>8, <1>9

Part == {"open", "shut", "bare"}
Call == [id : Int, args : Seq(Part)]

\* A chunk with a text is no delta of a call, and a chunk of kind "tool" is one.
LEMMA ChunkIs ==
    ASSUME NEW c \in Chunk
    PROVE  /\ c.kind = "tool" => c \in ToolDelta /\ c \notin {Word, Blank}
           /\ c.kind = "tool" => c.index \in Nat /\ c.id \in Nat /\ (c.part = "none" \/ c.part \in Part)
BY DEF Chunk, ToolDelta, Word, Blank, Skip, Part

\* The fragments that the first n chunks of a script leave.
FragmentsOf(sc, n, fs) ==
    /\ DOMAIN fs = Indices(sc, n) /\ Indices(sc, n) \in SUBSET Nat /\ IsFiniteSet(Indices(sc, n))
    /\ \A i \in Nat : Fragment(fs, i) = [id |-> IdTo(sc, n, i), args |-> ArgsTo(sc, n, i)]
    /\ \A i \in Nat : IdTo(sc, n, i) \in Nat /\ ArgsTo(sc, n, i) \in Seq(Part)

\* The texts that they leave: the t-th is where the script has its t-th text.
TextsOf(sc, n, t) ==
    /\ t \in Seq(1 .. n) /\ Len(t) = CountTexts(sc, n)
    /\ \A k \in 1 .. n : IsText(sc[k]) => CountTexts(sc, k) \in 1 .. Len(t) /\ t[CountTexts(sc, k)] = k

\* Nothing has been read.
LEMMA NothingRead ==
    ASSUME NEW sc \in Seq(Chunk)
    PROVE  FragmentsOf(sc, 0, <<>>) /\ TextsOf(sc, 0, <<>>)
<1>1. 1 .. 0 = {} OBVIOUS
<1>2. FragmentsOf(sc, 0, <<>>)
  <2>1. Indices(sc, 0) = {} /\ DOMAIN <<>> = {} BY <1>1 DEF Indices
  <2>2. ASSUME NEW i PROVE NamedTo(sc, 0, i) = {} /\ SentTo(sc, 0, i) = {}
    BY <1>1 DEF NamedTo, SentTo, DeltasOf
  <2>3. \A i \in Nat : IdTo(sc, 0, i) = NoId BY <2>2 DEF IdTo, LastId
  <2>4. \A i \in Nat : ArgsTo(sc, 0, i) = <<>>
    <3>1. Cardinality({}) = 0 BY FS_EmptySet
    <3>2. PartsAt(sc, {}) = <<>> BY <3>1 DEF PartsAt
    <3> QED BY <3>2, <2>2 DEF ArgsTo
  <2>5. \A i \in Nat : Fragment(<<>>, i) = NoFragment BY <2>1 DEF Fragment
  <2>6. \A i \in Nat : Fragment(<<>>, i) = [id |-> IdTo(sc, 0, i), args |-> ArgsTo(sc, 0, i)]
    BY <2>3, <2>4, <2>5 DEF NoFragment
  <2>7. NoId \in Nat /\ <<>> \in Seq(Part) BY DEF NoId
  <2>8. IsFiniteSet({}) BY FS_EmptySet
  <2> QED BY <2>1, <2>3, <2>4, <2>6, <2>7, <2>8 DEF FragmentsOf
<1>3. TextsOf(sc, 0, <<>>)
  <2>1. {j \in {k \in DOMAIN sc : IsText(sc[k])} : j <= 0} = {} OBVIOUS
  <2>2. CountTexts(sc, 0) = 0 BY <2>1, FS_EmptySet DEF CountTexts, Rank
  <2> QED BY <1>1, <2>2 DEF TextsOf
<1> QED BY <1>2, <1>3

\* The next chunk is no delta of index i, or one without what P counts.
LEMMA SameCall ==
    ASSUME NEW sc \in Seq(Chunk), NEW n \in Nat, n + 1 \in DOMAIN sc, NEW i,
           sc[n + 1].kind = "tool" => sc[n + 1].index # i
    PROVE  IdTo(sc, n + 1, i) = IdTo(sc, n, i) /\ ArgsTo(sc, n + 1, i) = ArgsTo(sc, n, i)
<1>1. DeltasOf(sc, n + 1, i) = DeltasOf(sc, n, i) BY DEF DeltasOf
<1>2. NamedTo(sc, n + 1, i) = NamedTo(sc, n, i) /\ SentTo(sc, n + 1, i) = SentTo(sc, n, i)
  BY <1>1 DEF NamedTo, SentTo
<1> QED BY <1>2, Zenon DEF IdTo, ArgsTo

\* A delta of index i adds its part, and its id counts from now on if it has one.
LEMMA GrownCall ==
    ASSUME NEW sc \in Seq(Chunk), NEW n \in Nat, n + 1 \in DOMAIN sc, sc[n + 1].kind = "tool",
           NEW i \in Nat, sc[n + 1].index = i, ArgsTo(sc, n, i) \in Seq(Part)
    PROVE  /\ IdTo(sc, n + 1, i) = IF sc[n + 1].id # NoId THEN sc[n + 1].id ELSE IdTo(sc, n, i)
           /\ ArgsTo(sc, n + 1, i) = IF sc[n + 1].part # "none" THEN Append(ArgsTo(sc, n, i), sc[n + 1].part)
                                    ELSE ArgsTo(sc, n, i)
<1> DEFINE N == NamedTo(sc, n, i)
           S == SentTo(sc, n, i)
<1>1. DeltasOf(sc, n + 1, i) = DeltasOf(sc, n, i) \cup {n + 1} BY DEF DeltasOf
<1>2. NamedTo(sc, n + 1, i) = IF sc[n + 1].id # NoId THEN N \cup {n + 1} ELSE N
  BY <1>1 DEF NamedTo
<1>3. SentTo(sc, n + 1, i) = IF sc[n + 1].part # "none" THEN S \cup {n + 1} ELSE S
  BY <1>1 DEF SentTo
<1>4. N \in SUBSET (1 .. n) /\ S \in SUBSET (1 .. n) BY DEF NamedTo, SentTo, DeltasOf
<1> HIDE DEF N, S
<1>5. LastId(sc, N \cup {n + 1}) = sc[n + 1].id
  <2>1. \A j \in N \cup {n + 1} : j <= n + 1 /\ j \in Int
    <3>1. \A j \in N : j \in 1 .. n BY <1>4
    <3>2. \A j \in N : j <= n + 1 /\ j \in Int BY <3>1
    <3>3. n + 1 <= n + 1 /\ n + 1 \in Int OBVIOUS
    <3> QED BY <3>2, <3>3
  <2>2. \A k \in N \cup {n + 1} : (\A j \in N \cup {n + 1} : j <= k) <=> k = n + 1
    <3>1. ASSUME NEW k \in N \cup {n + 1}, \A j \in N \cup {n + 1} : j <= k PROVE k = n + 1
      <4>1. n + 1 <= k /\ k <= n + 1 /\ k \in Int BY <2>1, <3>1
      <4> QED BY <4>1
    <3> QED BY <2>1, <3>1
  <2>3. (CHOOSE k \in N \cup {n + 1} : \A j \in N \cup {n + 1} : j <= k) = n + 1 BY <2>2
  <2>4. N \cup {n + 1} # {} OBVIOUS
  <2> QED BY <2>3, <2>4 DEF LastId
<1>6. sc[n + 1].part # "none" => PartsAt(sc, S \cup {n + 1}) = Append(PartsAt(sc, S), sc[n + 1].part)
  <2> DEFINE a == Cardinality(S)
             p == sc[n + 1].part
             t == PartsAt(sc, S)
             u == PartsAt(sc, S \cup {n + 1})
  <2> SUFFICES ASSUME p # "none" PROVE u = Append(t, p) OBVIOUS
  <2>1. /\ Cardinality(S \cup {n + 1}) = a + 1 /\ a \in Nat
        /\ \A k \in 1 .. a : Nth(S \cup {n + 1}, k) = Nth(S, k)
        /\ Nth(S \cup {n + 1}, a + 1) = n + 1
    BY <1>4, NthGrows
  <2>2. t = [k \in 1 .. a |-> sc[Nth(S, k)].part] BY DEF PartsAt
  <2>3. u = [k \in 1 .. a + 1 |-> sc[Nth(S \cup {n + 1}, k)].part] BY <2>1 DEF PartsAt
  <2>4. t \in Seq(Part) BY DEF ArgsTo, S
  <2>5. p \in Part BY ChunkIs
  <2> HIDE DEF a, t, u, p
  <2>6. Len(t) = a BY <2>1, <2>2, <2>4
  <2>7. ASSUME NEW k \in 1 .. a PROVE u[k] = t[k]
    <3>1. k \in 1 .. a + 1 BY <2>1
    <3>2. Nth(S \cup {n + 1}, k) = Nth(S, k) BY <2>1
    <3>3. u[k] = sc[Nth(S \cup {n + 1}, k)].part BY <2>3, <3>1
    <3>4. t[k] = sc[Nth(S, k)].part BY <2>2
    <3> QED BY <3>2, <3>3, <3>4
  <2>8. u[a + 1] = p BY <2>1, <2>3 DEF p
  <2>9. u = [k \in 1 .. a + 1 |-> u[k]] BY <2>3
  <2>10. Append(t, p) = [k \in 1 .. a + 1 |-> IF k = a + 1 THEN p ELSE t[k]]
    <3> DEFINE w == Append(t, p)
    <3>1. w \in Seq(Part) /\ Len(w) = a + 1 BY <2>1, <2>4, <2>5, <2>6
    <3>2. w[a + 1] = p BY <2>1, <2>4, <2>5, <2>6
    <3>3. \A k \in 1 .. a : w[k] = t[k] BY <2>1, <2>4, <2>5, <2>6
    <3> HIDE DEF w
    <3>4. w = [k \in 1 .. a + 1 |-> w[k]] BY <3>1
    <3>5. \A k \in 1 .. a + 1 : w[k] = IF k = a + 1 THEN p ELSE t[k] BY <2>1, <3>2, <3>3
    <3> QED BY <3>4, <3>5 DEF w
  <2>11. \A k \in 1 .. a + 1 : u[k] = IF k = a + 1 THEN p ELSE t[k] BY <2>1, <2>7, <2>8
  <2> QED BY <2>9, <2>10, <2>11
<1>7. IdTo(sc, n, i) = LastId(sc, N) /\ ArgsTo(sc, n, i) = PartsAt(sc, S) BY DEF IdTo, ArgsTo, N, S
<1>8. IdTo(sc, n + 1, i) = IF sc[n + 1].id # NoId THEN sc[n + 1].id ELSE IdTo(sc, n, i)
  BY <1>2, <1>5, <1>7 DEF IdTo
<1>9. ArgsTo(sc, n + 1, i) = IF sc[n + 1].part # "none" THEN Append(ArgsTo(sc, n, i), sc[n + 1].part)
                             ELSE ArgsTo(sc, n, i)
  BY <1>3, <1>6, <1>7 DEF ArgsTo
<1> QED BY <1>8, <1>9

\* One chunk more, collected or passed over.
LEMMA NextFragments ==
    ASSUME NEW sc \in Seq(Chunk), NEW n \in Nat, n + 1 \in DOMAIN sc, NEW fs, FragmentsOf(sc, n, fs)
    PROVE  FragmentsOf(sc, n + 1, IF sc[n + 1].kind = "tool" THEN Collect(fs, sc[n + 1]) ELSE fs)
<1> DEFINE c == sc[n + 1]
<1>1. c \in Chunk OBVIOUS
<1>2. CASE c.kind # "tool"
  <2>1. Indices(sc, n + 1) = Indices(sc, n)
    <3>1. {j \in 1 .. n + 1 : sc[j].kind = "tool"} = {j \in 1 .. n : sc[j].kind = "tool"} BY <1>2
    <3> QED BY <3>1 DEF Indices
  <2>2. \A i \in Nat : IdTo(sc, n + 1, i) = IdTo(sc, n, i) /\ ArgsTo(sc, n + 1, i) = ArgsTo(sc, n, i)
    BY <1>2, SameCall
  <2>3. FragmentsOf(sc, n + 1, fs) BY <2>1, <2>2 DEF FragmentsOf
  <2> QED BY <1>2, <2>3
<1>3. CASE c.kind = "tool"
  <2> DEFINE gs == Collect(fs, c)
             d == c.index
  <2>1. d \in Nat /\ c.id \in Nat /\ (c.part = "none" \/ c.part \in Part) BY <1>1, <1>3, ChunkIs
  <2>2. Indices(sc, n + 1) = Indices(sc, n) \cup {d}
    <3>1. {j \in 1 .. n + 1 : sc[j].kind = "tool"} = {j \in 1 .. n : sc[j].kind = "tool"} \cup {n + 1} BY <1>3
    <3> QED BY <3>1 DEF Indices
  <2>3. DOMAIN gs = DOMAIN fs \cup {d} BY DEF Collect
  <2>4. ASSUME NEW i \in Nat, i # d
        PROVE  /\ Fragment(gs, i) = Fragment(fs, i)
               /\ IdTo(sc, n + 1, i) = IdTo(sc, n, i) /\ ArgsTo(sc, n + 1, i) = ArgsTo(sc, n, i)
    <3>1. IdTo(sc, n + 1, i) = IdTo(sc, n, i) /\ ArgsTo(sc, n + 1, i) = ArgsTo(sc, n, i) BY <2>4, SameCall
    <3>2. Fragment(gs, i) = Fragment(fs, i) BY <2>4 DEF Collect, Fragment
    <3> QED BY <3>1, <3>2
  <2>5. Fragment(fs, d) = [id |-> IdTo(sc, n, d), args |-> ArgsTo(sc, n, d)]
        /\ IdTo(sc, n, d) \in Nat /\ ArgsTo(sc, n, d) \in Seq(Part)
    BY <2>1 DEF FragmentsOf
  <2>6. Fragment(gs, d) = [id   |-> IF c.id # NoId THEN c.id ELSE Fragment(fs, d).id,
                           args |-> IF c.part # "none" THEN Append(Fragment(fs, d).args, c.part)
                                    ELSE Fragment(fs, d).args]
    <3>1. d \in DOMAIN gs BY <2>3
    <3>2. Fragment(gs, d) = gs[d] BY <3>1 DEF Fragment
    <3> QED BY <3>2 DEF Collect
  <2>7. /\ IdTo(sc, n + 1, d) = IF c.id # NoId THEN c.id ELSE IdTo(sc, n, d)
        /\ ArgsTo(sc, n + 1, d) = IF c.part # "none" THEN Append(ArgsTo(sc, n, d), c.part) ELSE ArgsTo(sc, n, d)
    BY <1>3, <2>1, <2>5, GrownCall
  <2>8. Fragment(gs, d) = [id |-> IdTo(sc, n + 1, d), args |-> ArgsTo(sc, n + 1, d)]
    <3>1. Fragment(fs, d).id = IdTo(sc, n, d) /\ Fragment(fs, d).args = ArgsTo(sc, n, d) BY <2>5
    <3> HIDE DEF c, d, gs
    <3> QED BY <2>6, <2>7, <3>1
  <2>9. IdTo(sc, n + 1, d) \in Nat /\ ArgsTo(sc, n + 1, d) \in Seq(Part)
    <3> HIDE DEF c, d, gs
    <3>1. c.part \in Part => Append(ArgsTo(sc, n, d), c.part) \in Seq(Part) BY <2>5
    <3> QED BY <2>1, <2>5, <2>7, <3>1
  <2> HIDE DEF gs, d
  <2>10. DOMAIN gs = Indices(sc, n + 1) BY <2>2, <2>3 DEF FragmentsOf
  <2>13. Indices(sc, n + 1) \in SUBSET Nat BY <2>1, <2>2 DEF FragmentsOf
  <2>14. IsFiniteSet(Indices(sc, n) \cup {d}) BY FS_AddElement DEF FragmentsOf
  <2>11. ASSUME NEW i \in Nat
         PROVE  /\ Fragment(gs, i) = [id |-> IdTo(sc, n + 1, i), args |-> ArgsTo(sc, n + 1, i)]
                /\ IdTo(sc, n + 1, i) \in Nat /\ ArgsTo(sc, n + 1, i) \in Seq(Part)
    BY <2>4, <2>8, <2>9 DEF FragmentsOf
  <2>12. FragmentsOf(sc, n + 1, gs) BY <2>2, <2>10, <2>11, <2>13, <2>14 DEF FragmentsOf
  <2> QED BY <1>3, <2>12 DEF gs
<1> QED BY <1>2, <1>3

\* One chunk more, with a text or without.
LEMMA NextTexts ==
    ASSUME NEW sc \in Seq(Chunk), NEW n \in Nat, n + 1 \in DOMAIN sc, NEW t, TextsOf(sc, n, t)
    PROVE  /\ CountTexts(sc, n) \in Nat
           /\ CountTexts(sc, n + 1) = CountTexts(sc, n) + (IF IsText(sc[n + 1]) THEN 1 ELSE 0)
           /\ TextsOf(sc, n + 1, IF IsText(sc[n + 1]) THEN Append(t, n + 1) ELSE t)
<1> DEFINE P == {j \in DOMAIN sc : IsText(sc[j])}
           a == CountTexts(sc, n)
           u == IF IsText(sc[n + 1]) THEN Append(t, n + 1) ELSE t
<1>1. P \in SUBSET (1 .. Len(sc)) /\ Len(sc) \in Nat OBVIOUS
<1>2. P \in SUBSET Int /\ IsFiniteSet(P) BY <1>1, PositionsFinite
<1>3. n + 1 \in P <=> IsText(sc[n + 1]) OBVIOUS
<1>4. Rank(P, n) \in Nat /\ Rank(P, n + 1) = Rank(P, n) + (IF n + 1 \in P THEN 1 ELSE 0)
  <2> HIDE DEF P
  <2> QED BY <1>2, RankNext
<1>5. a \in Nat /\ CountTexts(sc, n + 1) = a + (IF IsText(sc[n + 1]) THEN 1 ELSE 0)
  BY <1>3, <1>4 DEF CountTexts
<1>6. t \in Seq(1 .. n) /\ Len(t) = a
      /\ \A k \in 1 .. n : IsText(sc[k]) => CountTexts(sc, k) \in 1 .. a /\ t[CountTexts(sc, k)] = k
  BY DEF TextsOf
<1> HIDE DEF a, P
<1>7. t \in Seq(1 .. n + 1) BY <1>6
<1>8. CASE IsText(sc[n + 1])
  <2>1. u = Append(t, n + 1) BY <1>8
  <2>2. u \in Seq(1 .. n + 1) /\ Len(u) = a + 1
    <3>1. n + 1 \in 1 .. n + 1 OBVIOUS
    <3>2. Append(t, n + 1) \in Seq(1 .. n + 1) /\ Len(Append(t, n + 1)) = Len(t) + 1 BY <1>7, <3>1, AppendIs
    <3> HIDE DEF u
    <3> QED BY <1>6, <2>1, <3>2
  <2>3. u[a + 1] = n + 1 /\ \A k \in 1 .. a : u[k] = t[k] BY <1>5, <1>6, <1>7, <2>1
  <2>4. CountTexts(sc, n + 1) = a + 1 BY <1>5, <1>8
  <2> HIDE DEF u
  <2>5. ASSUME NEW k \in 1 .. n + 1, IsText(sc[k])
        PROVE  CountTexts(sc, k) \in 1 .. Len(u) /\ u[CountTexts(sc, k)] = k
    <3>1. CASE k = n + 1 BY <3>1, <2>2, <2>3, <2>4, <1>5
    <3>2. CASE k # n + 1
      <4>1. k \in 1 .. n BY <3>2
      <4>2. CountTexts(sc, k) \in 1 .. a /\ t[CountTexts(sc, k)] = k BY <4>1, <1>6, <2>5
      <4> QED BY <4>2, <2>2, <2>3, <1>5
    <3> QED BY <3>1, <3>2
  <2>6. TextsOf(sc, n + 1, u) BY <2>2, <2>4, <2>5 DEF TextsOf
  <2> QED BY <1>5, <2>6 DEF a, u
<1>9. CASE ~IsText(sc[n + 1])
  <2>1. u = t /\ CountTexts(sc, n + 1) = a BY <1>9, <1>5
  <2>2. ASSUME NEW k \in 1 .. n + 1, IsText(sc[k])
        PROVE  CountTexts(sc, k) \in 1 .. a /\ t[CountTexts(sc, k)] = k
    <3>1. k \in 1 .. n BY <1>9, <2>2
    <3> QED BY <3>1, <1>6, <2>2
  <2>3. TextsOf(sc, n + 1, t) BY <1>6, <1>7, <2>1, <2>2 DEF TextsOf
  <2> QED BY <1>5, <2>1, <2>3 DEF a
<1> QED BY <1>8, <1>9

-----------------------------------------------------------------------------
(* What is handed out, and what waits in the queue *)

AllTexts(sc)  == CountTexts(sc, Len(sc))
Effective(sc) == Indices(sc, Len(sc)) # {} \/ \E k \in DOMAIN sc : sc[k] = Word
Total(sc)     == AllTexts(sc) + (IF Effective(sc) THEN 1 ELSE 0)

Event ==
    [event : {"delta"}, at : Nat] \cup [event : {"completed"}, texts : Seq(Nat), calls : Seq(Call)]
      \cup {End, Error}

\* Event e may be the p-th that is handed out, or the p-th that get returns.
Shown(sc, e, p) ==
    \/ e.event = "delta" /\ IsText(sc[e.at]) /\ CountTexts(sc, e.at) = p
    \/ e.event = "completed" /\ p = AllTexts(sc) + 1 /\ Faithful(e, sc)
Coming(sc, e, p) == Shown(sc, e, p) \/ e = Error \/ (e = End /\ p = Total(sc) + 1)

\* The data of one stream: script sc, of which n chunks are read.
Gathered(sc, n, fs, ts) ==
    /\ sc \in Seq(Chunk) /\ n \in 0 .. Len(sc)
    /\ FragmentsOf(sc, n, fs) /\ TextsOf(sc, n, ts)
Delivered(sc, y, q) ==
    /\ y \in Seq(Event) /\ q \in Seq(Event)
    /\ \A k \in 1 .. Len(y) : Shown(sc, y[k], k)
    /\ \A k \in 1 .. Len(q) : Coming(sc, q[k], Len(y) + k)

\* Its control: while both tasks go on, every text that was read is handed out or queued.
Flow(sc, n, y, q, p, c, cancelled, w) ==
    /\ p # "done" /\ c \in {"new", "waiting", "held"} => Len(y) + Len(q) = CountTexts(sc, n)
    /\ p \in {"new", "creating", "reading"} /\ ~cancelled => c \in {"waiting", "held"}
    /\ w = "ended" => Len(y) = Total(sc) /\ c \in {"joining", "releasing", "end"}

EventsTyped ==
    /\ DOMAIN script = Streams /\ DOMAIN read = Streams /\ DOMAIN texts = Streams
    /\ DOMAIN tools = Streams /\ DOMAIN yielded = Streams /\ DOMAIN queue = Streams

EventInv(s) ==
    /\ Gathered(script[s], read[s], tools[s], texts[s])
    /\ Delivered(script[s], yielded[s], queue[s])
    /\ Flow(script[s], read[s], yielded[s], queue[s], prod[s], cons[s], asked[s], why[s])

EventsInv == EventsTyped /\ \A s \in Streams : EventInv(s)

\* No stream has read or handed out anything.
LEMMA EventsInit == Init => EventsInv
<1> SUFFICES ASSUME Init PROVE EventsInv OBVIOUS
<1>1. EventsTyped BY DEF Init, EventsTyped
<1>2. ASSUME NEW s \in Streams PROVE EventInv(s)
  <2>1. script[s] \in Seq(Chunk)
    <3>1. script[s] \in Scripts[s] BY DEF Init
    <3> QED BY <3>1, Setup
  <2>2. /\ read[s] = 0 /\ tools[s] = <<>> /\ texts[s] = <<>> /\ yielded[s] = <<>> /\ queue[s] = <<>>
        /\ prod[s] = "none" /\ cons[s] = "new" /\ why[s] = "none"
    BY DEF Init
  <2>3. FragmentsOf(script[s], 0, <<>>) /\ TextsOf(script[s], 0, <<>>) BY <2>1, NothingRead
  <2>4. Gathered(script[s], 0, <<>>, <<>>) BY <2>1, <2>3 DEF Gathered
  <2>5. Delivered(script[s], <<>>, <<>>) BY DEF Delivered
  <2>6. Flow(script[s], 0, <<>>, <<>>, "none", "new", asked[s], "none")
    <3>1. CountTexts(script[s], 0) = 0 BY <2>3 DEF TextsOf
    <3> QED BY <3>1 DEF Flow
  <2> QED BY <2>2, <2>4, <2>5, <2>6 DEF EventInv
<1> QED BY <1>1, <1>2 DEF EventsInv

\* get returned an event to hand out.
LEMMA DeliverOne ==
    ASSUME NEW sc, NEW y, NEW q, Delivered(sc, y, q), q # <<>>, Head(q) # End, Head(q) # Error
    PROVE  /\ Delivered(sc, Append(y, Head(q)), Tail(q))
           /\ Len(Append(y, Head(q))) + Len(Tail(q)) = Len(y) + Len(q)
<1> DEFINE e == Head(q)
           t == Tail(q)
           u == Append(y, e)
<1>1. y \in Seq(Event) /\ q \in Seq(Event) BY DEF Delivered
<1>2. e \in Event /\ e = q[1] /\ Len(q) \in Nat /\ Len(q) >= 1 BY <1>1
<1>3. t \in Seq(Event) /\ Len(t) = Len(q) - 1 BY <1>1
<1>4. \A k \in 1 .. Len(t) : t[k] = q[k + 1] BY <1>1
<1>5. u \in Seq(Event) /\ Len(u) = Len(y) + 1 /\ (\A k \in 1 .. Len(y) : u[k] = y[k]) /\ u[Len(y) + 1] = e
  BY <1>1, <1>2, AppendIs
<1>6. Len(y) \in Nat BY <1>1
<1>7. Shown(sc, e, Len(y) + 1)
  <2>1. Coming(sc, q[1], Len(y) + 1) BY <1>2 DEF Delivered
  <2> QED BY <2>1, <1>2 DEF Coming
<1> HIDE DEF e, t, u
<1>8. ASSUME NEW k \in 1 .. Len(u) PROVE Shown(sc, u[k], k)
  <2>1. CASE k = Len(y) + 1 BY <2>1, <1>5, <1>7
  <2>2. CASE k # Len(y) + 1
    <3>1. k \in 1 .. Len(y) BY <2>2, <1>5, <1>6
    <3> QED BY <3>1, <1>5 DEF Delivered
  <2> QED BY <2>1, <2>2
<1>9. ASSUME NEW k \in 1 .. Len(t) PROVE Coming(sc, t[k], Len(u) + k)
  <2>1. k + 1 \in 1 .. Len(q) /\ k \in Nat BY <1>2, <1>3
  <2>2. Coming(sc, q[k + 1], Len(y) + (k + 1)) BY <2>1 DEF Delivered
  <2>3. Len(y) + (k + 1) = Len(u) + k BY <1>5, <1>6, <2>1
  <2> QED BY <2>2, <2>3, <1>4
<1>10. Delivered(sc, u, t) BY <1>3, <1>5, <1>8, <1>9 DEF Delivered
<1> QED BY <1>2, <1>3, <1>5, <1>6, <1>10 DEF e, t, u

\* What the producer puts is what may come next.
LEMMA PutOne ==
    ASSUME NEW sc, NEW y, NEW q, Delivered(sc, y, q), NEW e \in Event,
           NEW p, p = Len(y) + Len(q) + 1, Coming(sc, e, p)
    PROVE  Delivered(sc, y, q \o <<e>>) /\ Len(q \o <<e>>) = Len(q) + 1
<1> DEFINE r == q \o <<e>>
<1>1. y \in Seq(Event) /\ q \in Seq(Event) /\ Len(y) \in Nat /\ Len(q) \in Nat BY DEF Delivered
<1>2. r \in Seq(Event) /\ Len(r) = Len(q) + 1 /\ (\A k \in 1 .. Len(q) : r[k] = q[k]) /\ r[Len(q) + 1] = e
  BY <1>1, ConcatOne
<1> HIDE DEF r
<1>3. ASSUME NEW k \in 1 .. Len(r) PROVE Coming(sc, r[k], Len(y) + k)
  <2>1. CASE k = Len(q) + 1
    <3>1. Len(y) + k = Len(y) + Len(q) + 1 BY <2>1, <1>1
    <3> QED BY <3>1, <2>1, <1>2
  <2>2. CASE k # Len(q) + 1
    <3>1. k \in 1 .. Len(q) BY <2>2, <1>1, <1>2
    <3> QED BY <3>1, <1>2 DEF Delivered
  <2> QED BY <2>1, <2>2
<1>4. Delivered(sc, y, r) BY <1>1, <1>2, <1>3 DEF Delivered
<1> QED BY <1>2, <1>4 DEF r

\* The calls in the order of their indices (assemble_tool_calls).
LEMMA AssembledIs ==
    ASSUME NEW sc \in Seq(Chunk), NEW fs, FragmentsOf(sc, Len(sc), fs)
    PROVE  /\ Assembled(fs) \in Seq(Call)
           /\ Len(Assembled(fs)) = Cardinality(Indices(sc, Len(sc)))
           /\ \A i \in Indices(sc, Len(sc)) : Assembled(fs)[Rank(Indices(sc, Len(sc)), i)] = CallOf(sc, i)
<1> DEFINE D == Indices(sc, Len(sc))
           One(i) == [id |-> IF fs[i].id = NoId THEN DefaultId(i) ELSE fs[i].id, args |-> fs[i].args]
           A == Assembled(fs)
<1>0. DOMAIN fs = D /\ D \in SUBSET Nat /\ IsFiniteSet(D) BY DEF FragmentsOf
<1>1. DOMAIN fs = D /\ D \in SUBSET Int /\ IsFiniteSet(D) /\ \A i \in D : i \in Nat
  <2> HIDE DEF D
  <2> QED BY <1>0
<1>2. ASSUME NEW i \in D
      PROVE  /\ fs[i].id = IdTo(sc, Len(sc), i) /\ fs[i].args = ArgsTo(sc, Len(sc), i)
             /\ IdTo(sc, Len(sc), i) \in Nat /\ ArgsTo(sc, Len(sc), i) \in Seq(Part)
  <2> HIDE DEF D
  <2>1. i \in Nat BY <1>1
  <2>2. Fragment(fs, i) = fs[i] BY <1>1 DEF Fragment
  <2>3. /\ Fragment(fs, i) = [id |-> IdTo(sc, Len(sc), i), args |-> ArgsTo(sc, Len(sc), i)]
        /\ IdTo(sc, Len(sc), i) \in Nat /\ ArgsTo(sc, Len(sc), i) \in Seq(Part)
    BY <2>1 DEF FragmentsOf
  <2> QED BY <2>2, <2>3
<1>3. \A i \in D : One(i) = CallOf(sc, i) /\ One(i) \in Call
  <2> SUFFICES ASSUME NEW i \in D PROVE One(i) = CallOf(sc, i) /\ One(i) \in Call OBVIOUS
  <2>1. fs[i].id = IdTo(sc, Len(sc), i) /\ fs[i].args = ArgsTo(sc, Len(sc), i) BY <1>2
  <2>2. One(i) = CallOf(sc, i)
    <3> HIDE DEF D
    <3> QED BY <2>1 DEF CallOf
  <2>3. DefaultId(i) \in Int BY <1>1 DEF DefaultId
  <2>4. One(i) \in Call
    <3> HIDE DEF D
    <3>1. fs[i].id \in Int /\ fs[i].args \in Seq(Part)
      <4>1. IdTo(sc, Len(sc), i) \in Int BY <1>2
      <4> QED BY <1>2, <4>1
    <3> QED BY <2>3, <3>1 DEF Call
  <2> QED BY <2>2, <2>4
<1>4. A = [k \in 1 .. Cardinality(D) |-> One(Nth(D, k))] BY <1>1 DEF Assembled
<1> HIDE DEF D, One, A
<1>5. /\ Cardinality(D) \in Nat
      /\ \A k \in 1 .. Cardinality(D) : Nth(D, k) \in D
      /\ \A i \in D : Rank(D, i) \in 1 .. Cardinality(D) /\ Nth(D, Rank(D, i)) = i
  BY <1>1, NthIs
<1>6. \A k \in 1 .. Cardinality(D) : One(Nth(D, k)) \in Call BY <1>3, <1>5
<1>7. A \in Seq(Call) /\ Len(A) = Cardinality(D) BY <1>4, <1>5, <1>6
<1>8. \A i \in D : A[Rank(D, i)] = CallOf(sc, i) BY <1>3, <1>4, <1>5
<1> QED BY <1>7, <1>8 DEF A, D

\* All of the script is read: the completed event is faithful, and it is put out when
\* there is anything in it.
LEMMA AllRead ==
    ASSUME NEW sc \in Seq(Chunk), NEW fs, NEW ts, Gathered(sc, Len(sc), fs, ts)
    PROVE  /\ LET e == [event |-> "completed", texts |-> ts, calls |-> Assembled(fs)]
              IN  e \in Event /\ Shown(sc, e, AllTexts(sc) + 1)
           /\ Effective(sc) <=> (DOMAIN fs # {} \/ \E k \in DOMAIN ts : sc[ts[k]] = Word)
           /\ AllTexts(sc) \in Nat
<1> DEFINE e == [event |-> "completed", texts |-> ts, calls |-> Assembled(fs)]
           n == Len(sc)
<1>1. n \in Nat /\ DOMAIN sc = 1 .. n OBVIOUS
<1>2. /\ ts \in Seq(1 .. n) /\ Len(ts) = AllTexts(sc)
      /\ \A k \in 1 .. n : IsText(sc[k]) => CountTexts(sc, k) \in 1 .. Len(ts) /\ ts[CountTexts(sc, k)] = k
  BY DEF Gathered, TextsOf, AllTexts
<1>3. Assembled(fs) \in Seq(Call) /\ Len(Assembled(fs)) = Cardinality(Indices(sc, n))
      /\ \A i \in Indices(sc, n) : Assembled(fs)[Rank(Indices(sc, n), i)] = CallOf(sc, i)
  BY AssembledIs DEF Gathered
<1>4. ts \in Seq(Nat) BY <1>1, <1>2
<1>5. e \in Event BY <1>3, <1>4 DEF Event
<1>6. Faithful(e, sc)
  <2>1. e.texts = ts /\ e.calls = Assembled(fs) OBVIOUS
  <2>2. Len(e.texts) = CountTexts(sc, Len(sc)) BY <1>2, <2>1 DEF AllTexts
  <2>3. \A k \in DOMAIN sc : IsText(sc[k]) => e.texts[CountTexts(sc, k)] = k BY <1>1, <1>2, <2>1
  <2> HIDE DEF e
  <2> QED BY <1>3, <2>1, <2>2, <2>3 DEF Faithful
<1>7. Shown(sc, e, AllTexts(sc) + 1) BY <1>6 DEF Shown
<1>8. Effective(sc) <=> (DOMAIN fs # {} \/ \E k \in DOMAIN ts : sc[ts[k]] = Word)
  <2>1. DOMAIN fs = Indices(sc, n) BY DEF Gathered, FragmentsOf
  <2>2. ASSUME NEW k \in DOMAIN sc, sc[k] = Word PROVE \E l \in DOMAIN ts : sc[ts[l]] = Word
    <3>1. IsText(sc[k]) BY <2>2 DEF IsText
    <3>2. CountTexts(sc, k) \in 1 .. Len(ts) /\ ts[CountTexts(sc, k)] = k BY <3>1, <1>1, <1>2
    <3>3. CountTexts(sc, k) \in DOMAIN ts BY <3>2, <1>2
    <3> QED BY <2>2, <3>2, <3>3
  <2>3. ASSUME NEW l \in DOMAIN ts, sc[ts[l]] = Word PROVE \E k \in DOMAIN sc : sc[k] = Word
    <3>1. ts[l] \in DOMAIN sc BY <1>1, <1>2
    <3> QED BY <2>3, <3>1
  <2> HIDE DEF n
  <2>4. DOMAIN fs # {} <=> Indices(sc, Len(sc)) # {} BY <2>1 DEF n
  <2> QED BY <2>2, <2>3, <2>4 DEF Effective
<1>9. AllTexts(sc) \in Nat BY <1>2
<1> QED BY <1>5, <1>7, <1>8, <1>9

-----------------------------------------------------------------------------
(* The steps *)

Same(t) ==
    /\ script'[t] = script[t] /\ read'[t] = read[t] /\ texts'[t] = texts[t] /\ tools'[t] = tools[t]
    /\ yielded'[t] = yielded[t] /\ queue'[t] = queue[t]
    /\ prod'[t] = prod[t] /\ cons'[t] = cons[t] /\ asked'[t] = asked[t] /\ why'[t] = why[t]

\* A step of stream s leaves the others as they are.
LEMMA OthersSame ==
    ASSUME EventsInv, NEW s \in Streams, EventsTyped', EventInv(s)', \A t \in Streams \ {s} : Same(t)
    PROVE  EventsInv'
<1>1. ASSUME NEW t \in Streams, t # s PROVE EventInv(t)'
  <2>1. Same(t) /\ EventInv(t) BY <1>1 DEF EventsInv
  <2> QED BY <2>1 DEF Same, EventInv
<1> QED BY <1>1 DEF EventsInv

\* A step that moves no event and reads no chunk.
Quiet(s) ==
    /\ UNCHANGED <<script, read, texts, tools, yielded, queue>>
    /\ \A t \in Streams \ {s} :
          prod'[t] = prod[t] /\ cons'[t] = cons[t] /\ asked'[t] = asked[t] /\ why'[t] = why[t]

\* Such a step keeps EventsInv if the stream's control allows it.
LEMMA QuietStep ==
    ASSUME EventsInv, NEW s \in Streams, Quiet(s),
           Flow(script[s], read[s], yielded[s], queue[s], prod'[s], cons'[s], asked'[s], why'[s])
    PROVE  EventsInv'
<1>1. EventsTyped' BY DEF EventsInv, EventsTyped, Quiet
<1>2. EventInv(s)' BY DEF EventsInv, EventInv, Quiet
<1>3. \A t \in Streams \ {s} : Same(t) BY DEF Quiet, Same
<1> QED BY <1>1, <1>2, <1>3, OthersSame

\* The try block is left: a normal end is one after which nothing more can come.
LEMMA FinallyStep ==
    ASSUME StreamInv, EventsInv, NEW s \in Streams, NEW cause, Finally(s, cause),
           UNCHANGED <<yielded, prod, script>>, cause = "ended" => Len(yielded[s]) = Total(script[s])
    PROVE  EventsInv'
<1>1. EventsTyped' BY DEF EventsInv, EventsTyped, Finally
<1>2. \A t \in Streams \ {s} : Same(t)
  BY DEF Finally, Same, StreamInv, StreamsTyped, EventsInv, EventsTyped
<1>3. EventInv(s)'
  <2>1. /\ read'[s] = 0 /\ texts'[s] = <<>> /\ tools'[s] = <<>> /\ queue'[s] = <<>>
        /\ cons'[s] = "joining" /\ why'[s] = cause /\ asked'[s] = (prod[s] # "done")
        /\ yielded' = yielded /\ script' = script /\ prod' = prod
    BY DEF Finally, StreamInv, StreamsTyped, EventsInv, EventsTyped
  <2>2. script[s] \in Seq(Chunk) BY DEF EventsInv, EventInv, Gathered
  <2>3. Gathered(script[s], 0, <<>>, <<>>) BY <2>2, NothingRead DEF Gathered
  <2>4. Delivered(script[s], yielded[s], <<>>) BY DEF EventsInv, EventInv, Delivered
  <2>5. Flow(script[s], 0, yielded[s], <<>>, prod[s], "joining", prod[s] # "done", cause)
    BY DEF Flow
  <2> QED BY <2>1, <2>3, <2>4, <2>5 DEF EventInv
<1> QED BY <1>1, <1>2, <1>3, OthersSame

\* get returned.
LEMMA DeliverStep ==
    ASSUME StreamInv, EventsInv, NEW s \in Streams, Deliver(s), cons[s] \in {"waiting", "held"},
           UNCHANGED <<prod, script>>
    PROVE  EventsInv'
<1> DEFINE item == Head(queue[s])
           sc == script[s]
<1>1. Gathered(sc, read[s], tools[s], texts[s]) /\ Delivered(sc, yielded[s], queue[s])
      /\ Flow(sc, read[s], yielded[s], queue[s], prod[s], cons[s], asked[s], why[s])
  BY DEF EventsInv, EventInv
<1>2. queue[s] # <<>> BY DEF Deliver
<1>3. CASE item = End /\ Finally(s, "ended") /\ UNCHANGED yielded
  <2>1. queue[s] \in Seq(Event) BY <1>1 DEF Delivered
  <2>2. item = queue[s][1] /\ 1 \in 1 .. Len(queue[s]) BY <1>2, <2>1
  <2>3. Coming(sc, End, Len(yielded[s]) + 1) BY <1>1, <1>3, <2>2 DEF Delivered
  <2>4. End.event = "end" /\ Error.event = "error" BY DEF End, Error
  <2>5. Len(yielded[s]) + 1 = Total(sc) + 1 BY <2>3, <2>4 DEF Coming, Shown
  <2>6. AllTexts(sc) \in Int
    <3>1. AllTexts(sc) = Rank({j \in DOMAIN sc : IsText(sc[j])}, Len(sc)) BY DEF AllTexts, CountTexts
    <3>2. sc \in Seq(Chunk) BY <1>1 DEF Gathered
    <3>3. {j \in DOMAIN sc : IsText(sc[j])} \in SUBSET (1 .. Len(sc)) /\ Len(sc) \in Nat BY <3>2
    <3>4. {j \in DOMAIN sc : IsText(sc[j])} \in SUBSET Int /\ IsFiniteSet({j \in DOMAIN sc : IsText(sc[j])})
      BY <3>3, PositionsFinite
    <3> QED BY <3>1, <3>3, <3>4, RankNext
  <2>7. Total(sc) \in Int BY <2>6 DEF Total
  <2>8. Len(yielded[s]) \in Nat BY <1>1 DEF Delivered
  <2>9. Len(yielded[s]) = Total(sc) BY <2>5, <2>7, <2>8
  <2> QED BY <1>3, <2>9, FinallyStep
<1>4. CASE item = Error /\ Finally(s, "failed") /\ UNCHANGED yielded
  BY <1>4, FinallyStep
<1>5. CASE /\ item \notin {End, Error}
           /\ yielded' = [yielded EXCEPT ![s] = Append(@, item)]
           /\ queue' = [queue EXCEPT ![s] = Tail(@)]
           /\ cons' = [cons EXCEPT ![s] = "held"]
           /\ UNCHANGED <<why, late, asked, read, texts, tools>>
  <2>1. EventsTyped' BY <1>5 DEF EventsInv, EventsTyped
  <2>2. \A t \in Streams \ {s} : Same(t)
    BY <1>5 DEF Same, StreamInv, StreamsTyped, EventsInv, EventsTyped
  <2>3. yielded'[s] = Append(yielded[s], item) /\ queue'[s] = Tail(queue[s]) /\ cons'[s] = "held"
    BY <1>5 DEF StreamInv, StreamsTyped, EventsInv, EventsTyped
  <2>4. Delivered(sc, Append(yielded[s], item), Tail(queue[s]))
        /\ Len(Append(yielded[s], item)) + Len(Tail(queue[s])) = Len(yielded[s]) + Len(queue[s])
    <3>1. Delivered(sc, yielded[s], queue[s]) BY <1>1
    <3>2. queue[s] # <<>> /\ Head(queue[s]) \notin {End, Error} BY <1>2, <1>5
    <3> DEFINE y == yielded[s]
               q == queue[s]
    <3>3. Delivered(sc, y, q) /\ q # <<>> BY <3>1, <3>2
    <3>4. Head(q) # End /\ Head(q) # Error BY <3>2
    <3> HIDE DEF sc, y, q
    <3>5. /\ Delivered(sc, Append(y, Head(q)), Tail(q))
          /\ Len(Append(y, Head(q))) + Len(Tail(q)) = Len(y) + Len(q)
      BY <3>3, <3>4, DeliverOne
    <3> QED BY <3>5 DEF y, q
  <2> HIDE DEF item
  <2>5. Flow(sc, read[s], Append(yielded[s], item), Tail(queue[s]), prod[s], "held", asked[s], why[s])
    BY <1>1, <2>4 DEF Flow
  <2>6. EventInv(s)' BY <1>1, <1>5, <2>3, <2>4, <2>5 DEF EventInv
  <2> QED BY <2>1, <2>2, <2>6, OthersSame
<1> QED BY <1>3, <1>4, <1>5 DEF Deliver

\* A chunk is read: its text is queued, its delta collected.
LEMMA ReadStep ==
    ASSUME StreamInv, EventsInv, NEW s \in Streams, ReadsChunk(s)
    PROVE  EventsInv'
<1> DEFINE sc == script[s]
           n == read[s]
           c == sc[n + 1]
<1>1. Gathered(sc, n, tools[s], texts[s]) /\ Delivered(sc, yielded[s], queue[s])
      /\ Flow(sc, n, yielded[s], queue[s], prod[s], cons[s], asked[s], why[s])
  BY DEF EventsInv, EventInv
<1>2. prod[s] = "reading" /\ ~asked[s] /\ n < Len(sc) BY DEF ReadsChunk
<1>3. sc \in Seq(Chunk) /\ n \in Nat /\ n + 1 \in DOMAIN sc /\ n + 1 \in 0 .. Len(sc) BY <1>1, <1>2 DEF Gathered
<1>4. c \in Chunk BY <1>3
<1>5. /\ read'[s] = n + 1 /\ script' = script /\ yielded' = yielded
      /\ prod' = prod /\ cons' = cons /\ asked' = asked /\ why' = why
      /\ texts'[s] = IF IsText(c) THEN Append(texts[s], n + 1) ELSE texts[s]
      /\ tools'[s] = IF c.kind = "tool" THEN Collect(tools[s], c) ELSE tools[s]
      /\ queue'[s] = IF IsText(c) THEN queue[s] \o <<Delta(n + 1)>> ELSE queue[s]
  BY DEF ReadsChunk, Put, IsText, EventsInv, EventsTyped
<1>6. EventsTyped' BY DEF ReadsChunk, Put, EventsInv, EventsTyped
<1>7. \A t \in Streams \ {s} : Same(t)
  BY DEF ReadsChunk, Put, Same, EventsInv, EventsTyped
<1> HIDE DEF sc, n, c
<1>8. FragmentsOf(sc, n + 1, tools'[s]) BY <1>1, <1>3, <1>5, NextFragments DEF Gathered, c
<1>9. /\ TextsOf(sc, n + 1, texts'[s]) /\ CountTexts(sc, n) \in Nat
      /\ CountTexts(sc, n + 1) = CountTexts(sc, n) + (IF IsText(c) THEN 1 ELSE 0)
  BY <1>1, <1>3, <1>5, NextTexts DEF Gathered, c
<1>10. Gathered(sc, n + 1, tools'[s], texts'[s]) BY <1>3, <1>8, <1>9 DEF Gathered
<1>11. cons[s] \in {"waiting", "held"} /\ Len(yielded[s]) + Len(queue[s]) = CountTexts(sc, n)
  BY <1>1, <1>2 DEF Flow
<1>12. Delivered(sc, yielded[s], queue'[s]) /\ Len(yielded[s]) + Len(queue'[s]) = CountTexts(sc, n + 1)
  <2>1. CASE IsText(c)
    <3> DEFINE e == Delta(n + 1)
    <3>1. e \in Event /\ e.event = "delta" /\ e.at = n + 1 BY <1>3 DEF Delta, Event
    <3>2. CountTexts(sc, n + 1) = Len(yielded[s]) + Len(queue[s]) + 1 BY <1>9, <1>11, <2>1
    <3> HIDE DEF e
    <3>3. Coming(sc, e, CountTexts(sc, n + 1)) BY <2>1, <3>1 DEF Coming, Shown, c
    <3>7. Delivered(sc, yielded[s], queue[s]) BY <1>1
    <3>4. Delivered(sc, yielded[s], queue[s] \o <<e>>) /\ Len(queue[s] \o <<e>>) = Len(queue[s]) + 1
      BY <3>1, <3>2, <3>3, <3>7, PutOne
    <3>5. Len(yielded[s]) \in Nat /\ Len(queue[s]) \in Nat BY <1>1 DEF Delivered
    <3>6. queue'[s] = queue[s] \o <<e>> BY <1>5, <2>1 DEF e
    <3>8. Len(queue'[s]) = Len(queue[s]) + 1 /\ Delivered(sc, yielded[s], queue'[s]) BY <3>4, <3>6
    <3>9. Len(queue'[s]) = Len(queue[s]) + 1 BY <3>8
    <3>10. \A a, b \in Nat : a + (b + 1) = a + b + 1 OBVIOUS
    <3>11. Len(yielded[s]) + Len(queue'[s]) = Len(yielded[s]) + Len(queue[s]) + 1 BY <3>5, <3>9, <3>10
    <3> QED BY <3>2, <3>8, <3>11
  <2>2. CASE ~IsText(c)
    <3>1. queue'[s] = queue[s] BY <2>2, <1>5
    <3>2. CountTexts(sc, n + 1) = CountTexts(sc, n) BY <2>2, <1>9
    <3> QED BY <3>1, <3>2, <1>1, <1>11
  <2> QED BY <2>1, <2>2
<1>13. Flow(sc, n + 1, yielded[s], queue'[s], prod[s], cons[s], asked[s], why[s])
  BY <1>1, <1>12 DEF Flow
<1>14. EventInv(s)' BY <1>5, <1>10, <1>12, <1>13 DEF EventInv, sc, n
<1> QED BY <1>6, <1>7, <1>14, OthersSame

\* What the producer puts last: an error, the end, or a completed event and the end.
LEMMA LastStep ==
    ASSUME StreamInv, EventsInv, NEW s \in Streams, ReadsEnd(s) \/ ProducerFails(s)
    PROVE  EventsInv'
<1> DEFINE sc == script[s]
           y == yielded[s]
           q == queue[s]
<1>1. Gathered(sc, read[s], tools[s], texts[s]) /\ Delivered(sc, y, q)
      /\ Flow(sc, read[s], y, q, prod[s], cons[s], asked[s], why[s])
  BY DEF EventsInv, EventInv
<1>2. ~asked[s] /\ prod[s] \in {"creating", "reading"} BY DEF ReadsEnd, ProducerFails
<1>3. prod'[s] = "done" /\ UNCHANGED <<cons, why, asked, yielded, script, read, texts, tools>>
  BY DEF ReadsEnd, ProducerFails, GoTo, StreamInv, StreamsTyped
<1>4. EventsTyped' BY DEF ReadsEnd, ProducerFails, Put, EventsInv, EventsTyped
<1>5. \A t \in Streams \ {s} : Same(t)
  BY DEF ReadsEnd, ProducerFails, Put, GoTo, Same, StreamInv, StreamsTyped, EventsInv, EventsTyped
<1>6. Delivered(sc, y, q \o <<Error>>)
  <2>1. Coming(sc, Error, Len(y) + Len(q) + 1) /\ Error \in Event BY DEF Coming, Event
  <2> HIDE DEF sc, y, q
  <2> QED BY <1>1, <2>1, PutOne
<1>7. Delivered(sc, y, queue'[s])
  <2>1. CASE ProducerFails(s)
    <3>1. queue'[s] = q \o <<Error>> BY <2>1 DEF ProducerFails, Put, EventsInv, EventsTyped
    <3> QED BY <3>1, <1>6
  <2>2. CASE ReadsEnd(s)
    <3> DEFINE e == [event |-> "completed", texts |-> texts[s], calls |-> Assembled(tools[s])]
    <3>1. read[s] = Len(sc) /\ prod[s] = "reading" /\ queue'[s] = q \o LastEvents(s)
      BY <2>2 DEF ReadsEnd, Put, EventsInv, EventsTyped
    <3>2. \/ LastEvents(s) = <<Error>>
          \/ Effective(sc) /\ LastEvents(s) = <<e, End>>
          \/ ~Effective(sc) /\ LastEvents(s) = <<End>>
      <4>1. sc \in Seq(Chunk) BY <1>1 DEF Gathered
      <4>2. Effective(sc) <=> (DOMAIN tools[s] # {} \/ \E k \in DOMAIN texts[s] : sc[texts[s][k]] = Word)
        <5> HIDE DEF sc
        <5> QED BY <1>1, <3>1, <4>1, AllRead
      <4> QED BY <4>2 DEF LastEvents
    <3>3. e \in Event /\ Shown(sc, e, AllTexts(sc) + 1) /\ AllTexts(sc) \in Nat
      <4>1. sc \in Seq(Chunk) BY <1>1 DEF Gathered
      <4> HIDE DEF sc
      <4> QED BY <1>1, <3>1, <4>1, AllRead
    <3>4. Len(y) + Len(q) = AllTexts(sc)
      <4>1. cons[s] \in {"waiting", "held"} BY <1>1, <1>2 DEF Flow
      <4> QED BY <1>1, <1>2, <3>1, <4>1 DEF Flow, AllTexts
    <3>5. Len(y) \in Nat /\ Len(q) \in Nat /\ q \in Seq(Event) BY <1>1 DEF Delivered
    <3>6. End \in Event BY DEF Event
    <3> HIDE DEF sc, y, q, e
    <3>7. CASE LastEvents(s) = <<Error>> BY <3>1, <3>7, <1>6
    <3>8. CASE ~Effective(sc) /\ LastEvents(s) = <<End>>
      <4>1. Coming(sc, End, Len(y) + Len(q) + 1) BY <3>3, <3>4, <3>8 DEF Coming, Total
      <4>2. Delivered(sc, y, q \o <<End>>) BY <4>1, <1>1, <3>6, PutOne
      <4> QED BY <4>2, <3>1, <3>8
    <3>9. CASE Effective(sc) /\ LastEvents(s) = <<e, End>>
      <4> DEFINE r == q \o <<e>>
      <4>1. Coming(sc, e, Len(y) + Len(q) + 1) BY <3>3, <3>4 DEF Coming
      <4>2. Delivered(sc, y, r) /\ Len(r) = Len(q) + 1 BY <4>1, <1>1, <3>3, PutOne
      <4>3. Total(sc) + 1 = Len(y) + Len(r) + 1 BY <3>3, <3>4, <3>5, <3>9, <4>2 DEF Total
      <4>4. q \o <<e, End>> = r \o <<End>> BY <3>3, <3>5, <3>6
      <4> HIDE DEF r
      <4>5. Coming(sc, End, Len(y) + Len(r) + 1) BY <4>3 DEF Coming
      <4>6. Delivered(sc, y, r \o <<End>>) BY <4>2, <4>5, <3>6, PutOne
      <4> QED BY <4>4, <4>6, <3>1, <3>9
    <3> QED BY <3>2, <3>7, <3>8, <3>9
  <2> QED BY <2>1, <2>2
<1>8. Flow(sc, read[s], y, queue'[s], "done", cons[s], asked[s], why[s])
  BY <1>1 DEF Flow
<1>9. EventInv(s)' BY <1>1, <1>3, <1>7, <1>8 DEF EventInv
<1> QED BY <1>4, <1>5, <1>9, OthersSame

\* A step of one stream, its generator's or its producer's.
LEMMA EventStep ==
    ASSUME StreamInv, EventsInv, NEW s \in Streams,
           \/ StartStream(s) \/ Pull(s) \/ PullCancelled(s) \/ StreamCloses(s) \/ NeverPulled(s)
           \/ GeneratorStep(s) \/ JoinTimesOut(s) \/ CleanupCancelled(s)
           \/ ProducerStep(s) \/ DeadlinePasses(s) \/ AdapterReleases(s)
    PROVE  EventsInv'
<1> DEFINE QuietFlow ==
        Flow(script[s], read[s], yielded[s], queue[s], prod'[s], cons'[s], asked'[s], why'[s])
<1>0. Flow(script[s], read[s], yielded[s], queue[s], prod[s], cons[s], asked[s], why[s]) /\ ProducerInv(s)
  BY DEF EventsInv, EventInv, StreamInv
<1>1. CASE StartStream(s)
  <2>1. Quiet(s) /\ prod'[s] = "new" /\ cons'[s] = "waiting" /\ why'[s] = why[s] /\ asked'[s] = asked[s]
    BY <1>1 DEF StartStream, GoTo, Quiet, StreamInv, StreamsTyped
  <2>2. cons[s] = "new" /\ prod[s] = "none" BY <1>0, <1>1 DEF StartStream, ProducerInv
  <2>3. QuietFlow BY <1>0, <2>1, <2>2 DEF Flow
  <2> QED BY <2>1, <2>3, QuietStep
<1>2. CASE Pull(s)
  <2>1. CASE Finally(s, "failed") /\ UNCHANGED yielded
    BY <1>2, <2>1, FinallyStep DEF Pull
  <2>2. CASE Deliver(s) BY <1>2, <2>2, DeliverStep DEF Pull
  <2>3. CASE /\ cons' = [cons EXCEPT ![s] = "waiting"]
             /\ UNCHANGED <<why, late, yielded, asked, queue, read, texts, tools>>
    <3>1. Quiet(s) /\ prod'[s] = prod[s] /\ cons'[s] = "waiting" /\ why'[s] = why[s] /\ asked'[s] = asked[s]
      BY <1>2, <2>3 DEF Pull, Quiet, StreamInv, StreamsTyped
    <3>2. cons[s] = "held" BY <1>2 DEF Pull
    <3>3. QuietFlow BY <1>0, <3>1, <3>2 DEF Flow
    <3> QED BY <3>1, <3>3, QuietStep
  <2> QED BY <1>2, <2>1, <2>2, <2>3 DEF Pull
<1>3. CASE PullCancelled(s) BY <1>3, FinallyStep DEF PullCancelled
<1>4. CASE StreamCloses(s) BY <1>4, FinallyStep DEF StreamCloses
<1>5. CASE NeverPulled(s)
  <2>1. Quiet(s) /\ prod'[s] = prod[s] /\ cons'[s] = "end" /\ why'[s] = "closed" /\ asked'[s] = asked[s]
    BY <1>5 DEF NeverPulled, Quiet, StreamInv, StreamsTyped
  <2>2. prod[s] = "none" BY <1>0, <1>5 DEF NeverPulled, ProducerInv
  <2>3. QuietFlow BY <1>0, <2>1, <2>2 DEF Flow
  <2> QED BY <2>1, <2>3, QuietStep
<1>6. CASE Wakes(s) BY <1>6, DeliverStep DEF Wakes
<1>7. CASE WaitTimesOut(s) BY <1>7, FinallyStep DEF WaitTimesOut
<1>8. CASE Joined(s) \/ JoinCut(s) \/ ReleaseEnds(s) \/ JoinTimesOut(s) \/ CleanupCancelled(s)
  <2>1. /\ Quiet(s) /\ prod'[s] = prod[s] /\ asked'[s] = asked[s]
        /\ cons[s] \in {"joining", "releasing"} /\ cons'[s] \in {"joining", "releasing", "end"}
        /\ why'[s] \in {why[s], "failed", "cancelled"}
    BY <1>8 DEF Joined, JoinCut, ReleaseEnds, JoinTimesOut, CleanupCancelled, Ends, Quiet, StreamInv, StreamsTyped
  <2>2. QuietFlow BY <1>0, <2>1 DEF Flow
  <2> QED BY <2>1, <2>2, QuietStep
<1>9. CASE ProducerBegins(s) \/ Opens(s) \/ ProducerExits(s)
  <2>1. /\ Quiet(s) /\ cons'[s] = cons[s] /\ asked'[s] = asked[s] /\ why'[s] = why[s]
        /\ prod[s] \in {"new", "creating", "reading"} /\ prod'[s] \in {"creating", "reading", "done"}
    BY <1>9 DEF ProducerBegins, Opens, ProducerExits, GoTo, Quiet, StreamInv, StreamsTyped
  <2>2. QuietFlow BY <1>0, <2>1 DEF Flow
  <2> QED BY <2>1, <2>2, QuietStep
<1>10. CASE ReadsChunk(s) BY <1>10, ReadStep
<1>11. CASE ReadsEnd(s) \/ ProducerFails(s) BY <1>11, LastStep
<1>12. CASE DeadlinePasses(s) \/ AdapterReleases(s)
  <2>1. Quiet(s) /\ UNCHANGED <<prod, cons, asked, why>> BY <1>12 DEF DeadlinePasses, AdapterReleases, Quiet
  <2>2. QuietFlow BY <1>0, <2>1
  <2> QED BY <2>1, <2>2, QuietStep
<1> QED
  BY <1>1, <1>2, <1>3, <1>4, <1>5, <1>6, <1>7, <1>8, <1>9, <1>10, <1>11, <1>12 DEF GeneratorStep, ProducerStep

\* The events the invariant speaks of are untouched by the adapter's aclose.
LEMMA EventsUnchanged ==
    ASSUME EventsInv,
           UNCHANGED <<script, read, texts, tools, yielded, queue, prod, cons, asked, why>>
    PROVE  EventsInv'
BY DEF EventsInv, EventsTyped, EventInv

\* produce, normalize_chat_completion_stream and _stream keep what was said of the events.
LEMMA EventsInvariant == Spec => [](StreamInv /\ EventsInv)
<1>1. StreamInv /\ EventsInv /\ [Next]_vars => EventsInv'
  <2> SUFFICES ASSUME StreamInv, EventsInv, [Next]_vars PROVE EventsInv' OBVIOUS
  <2>1. CASE UNCHANGED vars BY <2>1, EventsUnchanged
  <2>2. CASE CloseAdapter \/ ClientReleased \/ CloserCancelled
    BY <2>2, EventsUnchanged DEF CloseAdapter, ClientReleased, CloserCancelled
  <2> QED BY <2>1, <2>2, EventStep DEF Next
<1> QED BY <1>1, EventsInit, StreamInvCorrect, PTL DEF Spec

\* The consumer gets the SDK's texts in order, none lost or twice; a completed event comes
\* after all of them and holds every text and every call of the script, however the deltas of
\* several calls were mixed; and a stream that ends normally has handed out everything
\* (_stream, produce, normalize_chat_completion_stream, assemble_tool_calls).
THEOREM EventsCorrect == Spec => []EventsFaithful
<1>1. EventsInv => EventsFaithful
  <2> SUFFICES ASSUME EventsInv, NEW s \in Streams
               PROVE  /\ \A k \in DOMAIN yielded[s] : Shown(script[s], yielded[s][k], k)
                      /\ why[s] = "ended" /\ cons[s] = "end" => Len(yielded[s]) = Total(script[s])
    BY DEF EventsFaithful, Shown, Total, AllTexts, Effective
  <2>1. Delivered(script[s], yielded[s], queue[s])
        /\ Flow(script[s], read[s], yielded[s], queue[s], prod[s], cons[s], asked[s], why[s])
    BY DEF EventsInv, EventInv
  <2>2. DOMAIN yielded[s] = 1 .. Len(yielded[s]) BY <2>1 DEF Delivered
  <2> QED BY <2>1, <2>2 DEF Delivered, Flow
<1> QED BY <1>1, EventsInvariant, PTL

=============================================================================
