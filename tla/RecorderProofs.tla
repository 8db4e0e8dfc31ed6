----------------------------- MODULE RecorderProofs -----------------------------
(***************************************************************************)
(* The invariants of the recorder, for any callers and any number of       *)
(* messages, targets, attempts and operations.                             *)
(*                                                                         *)
(* A method that commits changes two parts of the state.  It writes        *)
(* messages, by appending a run of new identities to one history           *)
(* (GrowthKeeps) or by rewriting an attempt's message (RewriteKeeps), and  *)
(* it stores one operation (CommitKeeps).  What each part owes the         *)
(* invariant is proved once and lifted to the methods.                     *)
(***************************************************************************)
EXTENDS TranscriptProofs

USE DEF vars, facts

Histories == HistoryCommitted /\ HistoryOrdered /\ HistoryDisjoint /\ HistoryComplete

\* The messages and who they belong to.
StoreInv == StoreTyped /\ Histories /\ AttemptsIsolated

-----------------------------------------------------------------------------
(* What a step may do to the messages and the histories *)

\* A message that is there stays, with its role and the call it answers, and unless
\* it is an attempt's text it is not touched.
MessagesKept ==
    \A m \in DOMAIN messages :
        /\ m \in DOMAIN messages'
        /\ messages'[m].role = messages[m].role
        /\ messages'[m].callId = messages[m].callId
        /\ messages[m].role # "assistant" => messages'[m] = messages[m]

\* What is in a history stays where it is.
HistoriesKept ==
    \A t \in Targets :
        /\ Len(order[t]) <= Len(order'[t])
        /\ \A i \in DOMAIN order[t] : order'[t][i] = order[t][i]

\* One history changes at most.
OneHistory == \A t, u \in Targets : order'[t] # order[t] /\ order'[u] # order[u] => t = u

Grows == MessagesKept /\ HistoriesKept /\ OneHistory

\* A message that is in a history stays in it.
LEMMA StaysInHistory ==
    ASSUME StoreTyped, StoreTyped', HistoriesKept, NEW t \in Targets, NEW m, InHistory(t, m)
    PROVE  InHistory(t, m)'
<1>1. PICK i \in DOMAIN order[t] : order[t][i] = m BY DEF InHistory
<1>2. order[t] \in Seq(Nat) /\ order'[t] \in Seq(Nat) BY DEF StoreTyped
<1>3. i \in DOMAIN order'[t]
  <2>1. i \in 1 .. Len(order[t]) /\ Len(order[t]) <= Len(order'[t]) BY <1>1, <1>2 DEF HistoriesKept
  <2>2. Len(order[t]) \in Nat /\ Len(order'[t]) \in Nat /\ DOMAIN order'[t] = 1 .. Len(order'[t]) BY <1>2
  <2> QED BY <2>1, <2>2
<1>4. order'[t][i] = m BY <1>1 DEF HistoriesKept
<1> QED BY <1>3, <1>4 DEF InHistory

\* An attempt whose message is kept stays isolated.
LEMMA AttemptsKept ==
    ASSUME StoreTyped, StoreTyped', AttemptsIsolated, Grows, UNCHANGED textIds
    PROVE  AttemptsIsolated'
<1> SUFFICES ASSUME NEW k \in DOMAIN textIds
             PROVE  /\ textIds[k] \in DOMAIN messages'
                    /\ messages'[textIds[k]].role = "assistant"
                    /\ InHistory(k.who.target, textIds[k])'
    BY DEF AttemptsIsolated
<1>1. /\ k.who.target \in Targets /\ textIds[k] \in DOMAIN messages
      /\ messages[textIds[k]].role = "assistant" /\ InHistory(k.who.target, textIds[k])
      BY DEF AttemptsIsolated
<1>2. InHistory(k.who.target, textIds[k])'
  <2> DEFINE m == textIds[k]
  <2>1. InHistory(k.who.target, m)' BY <1>1, StaysInHistory DEF Grows
  <2> QED BY <2>1 DEF InHistory
<1> QED BY <1>1, <1>2 DEF Grows, MessagesKept

-----------------------------------------------------------------------------
(* Appending to a history: _append, once or for every result of a batch *)

\* The identities drawn next, `n` of them.
New(n) == seq + 1 .. seq + n

\* The history of t grows by those identities, which become the messages msg.
GrowsBy(t, n, msg) ==
    /\ seq' = seq + n /\ version' = version + n
    /\ messages' = [m \in DOMAIN messages \cup New(n) |-> IF m \in New(n) THEN msg[m] ELSE messages[m]]
    /\ \E ids \in Seq(Nat) :
          /\ Len(ids) = n /\ \A i \in 1 .. n : ids[i] = seq + i
          /\ order' = [order EXCEPT ![t] = order[t] \o ids]

\* What the history of t looks like then; the other histories are the old ones.
LEMMA GrownOrder ==
    ASSUME StoreTyped, NEW t \in Targets, NEW n \in Nat, NEW msg, GrowsBy(t, n, msg)
    PROVE  /\ order' \in [Targets -> Seq(Nat)]
           /\ \A u \in Targets \ {t} : order'[u] = order[u]
           /\ Len(order'[t]) = Len(order[t]) + n
           /\ \A i \in 1 .. Len(order[t]) : order'[t][i] = order[t][i]
           /\ \A i \in 1 .. n : order'[t][Len(order[t]) + i] = seq + i
<1>1. PICK ids \in Seq(Nat) :
          /\ Len(ids) = n /\ \A i \in 1 .. n : ids[i] = seq + i
          /\ order' = [order EXCEPT ![t] = order[t] \o ids]
      BY DEF GrowsBy
<1>2. order[t] \in Seq(Nat) BY DEF StoreTyped
<1> DEFINE grown == order[t] \o ids
<1>3. grown \in Seq(Nat) /\ Len(grown) = Len(order[t]) + n
  <2>1. Len(ids) = n BY <1>1
  <2> QED BY <2>1, <1>2
<1>4. order' \in [Targets -> Seq(Nat)] /\ order'[t] = grown /\ \A u \in Targets \ {t} : order'[u] = order[u]
      BY <1>1, <1>3 DEF StoreTyped
<1>5. \A i \in 1 .. Len(order[t]) : grown[i] = order[t][i] BY <1>1, <1>2
<1>6. \A i \in 1 .. n : grown[Len(order[t]) + i] = seq + i
  <2>1. \A i \in 1 .. n : grown[Len(order[t]) + i] = ids[i] BY <1>1, <1>2
  <2> QED BY <2>1, <1>1
<1> QED BY <1>3, <1>4, <1>5, <1>6

\* The positions of the grown history: the old ones and the new ones.
LEMMA GrownPositions ==
    ASSUME StoreTyped, NEW t \in Targets, NEW n \in Nat, NEW msg, GrowsBy(t, n, msg),
           NEW i \in DOMAIN order'[t]
    PROVE  \/ i \in DOMAIN order[t] /\ order'[t][i] = order[t][i]
           \/ /\ i - Len(order[t]) \in 1 .. n
              /\ order'[t][i] = seq + (i - Len(order[t]))
              /\ \A j \in DOMAIN order[t] : j < i
<1>1. order[t] \in Seq(Nat) /\ order'[t] \in Seq(Nat) BY GrownOrder DEF StoreTyped
<1>2. /\ Len(order[t]) \in Nat /\ DOMAIN order[t] = 1 .. Len(order[t])
      /\ Len(order'[t]) = Len(order[t]) + n /\ i \in 1 .. Len(order[t]) + n
      BY <1>1, GrownOrder
<1>3. CASE i \in 1 .. Len(order[t]) BY <1>2, <1>3, GrownOrder
<1>4. CASE i \notin 1 .. Len(order[t])
  <2> DEFINE j == i - Len(order[t])
  <2>1. j \in 1 .. n /\ i = Len(order[t]) + j BY <1>2, <1>4
  <2>2. order'[t][Len(order[t]) + j] = seq + j BY <2>1, GrownOrder
  <2> QED BY <2>1, <2>2, <1>2, <1>4
<1> QED BY <1>3, <1>4

\* A run of new messages keeps the store well formed, touches nothing old and is in
\* the history it was appended to.
LEMMA GrowthKeeps ==
    ASSUME StoreTyped, Histories, NEW t \in Targets, NEW n \in Nat, NEW msg,
           \A m \in New(n) : msg[m] \in Message,
           GrowsBy(t, n, msg)
    PROVE  /\ DOMAIN messages' \subseteq 1 .. seq' /\ messages' \in [DOMAIN messages' -> Message]
           /\ order' \in [Targets -> Seq(Nat)] /\ seq' \in Nat /\ version' \in Nat
           /\ Histories' /\ Grows
           /\ DOMAIN messages' = DOMAIN messages \cup New(n)
           /\ \A m \in New(n) : m \notin DOMAIN messages /\ messages'[m] = msg[m] /\ InHistory(t, m)'
           /\ \A m \in DOMAIN messages : messages'[m] = messages[m]
<1>1. seq \in Nat /\ version \in Nat /\ DOMAIN messages \subseteq 1 .. seq BY DEF StoreTyped
<1>2. DOMAIN messages' = DOMAIN messages \cup New(n) BY DEF GrowsBy
<1>3. \A m \in New(n) : m \notin DOMAIN messages BY <1>1 DEF New
<1>4. /\ \A m \in New(n) : messages'[m] = msg[m]
      /\ \A m \in DOMAIN messages : messages'[m] = messages[m]
      BY <1>3 DEF GrowsBy
<1>5. seq' \in Nat /\ version' \in Nat /\ DOMAIN messages' \subseteq 1 .. seq'
      BY <1>1, <1>2 DEF GrowsBy, New
<1>6. messages' \in [DOMAIN messages' -> Message]
  <2>1. messages' = [m \in DOMAIN messages' |-> messages'[m]] BY <1>2 DEF GrowsBy
  <2>2. \A m \in DOMAIN messages' : messages'[m] \in Message BY <1>2, <1>4 DEF StoreTyped
  <2> QED BY <2>1, <2>2
<1>7. order' \in [Targets -> Seq(Nat)] BY GrownOrder
<1>8. \A u \in Targets \ {t} : order'[u] = order[u] BY GrownOrder
<1>9. \A i \in DOMAIN order[t] : i \in DOMAIN order'[t] /\ order'[t][i] = order[t][i]
  <2>1. order[t] \in Seq(Nat) /\ order'[t] \in Seq(Nat) BY <1>7 DEF StoreTyped
  <2>2. Len(order[t]) \in Nat /\ DOMAIN order[t] = 1 .. Len(order[t]) /\ DOMAIN order'[t] = 1 .. Len(order'[t])
        BY <2>1
  <2>3. Len(order'[t]) = Len(order[t]) + n /\ \A i \in 1 .. Len(order[t]) : order'[t][i] = order[t][i]
        BY GrownOrder
  <2> QED BY <2>2, <2>3
<1>10. \A m \in New(n) : InHistory(t, m)'
  <2> SUFFICES ASSUME NEW m \in New(n) PROVE \E i \in DOMAIN order'[t] : order'[t][i] = m BY DEF InHistory
  <2> DEFINE j == m - seq
  <2>1. j \in 1 .. n /\ seq + j = m BY <1>1 DEF New
  <2>2. order[t] \in Seq(Nat) /\ order'[t] \in Seq(Nat) BY <1>7 DEF StoreTyped
  <2>3. order'[t][Len(order[t]) + j] = m BY <2>1, GrownOrder
  <2>4. Len(order[t]) + j \in DOMAIN order'[t] BY <2>1, <2>2, GrownOrder
  <2> QED BY <2>3, <2>4
<1>11. Grows
  <2>1. MessagesKept BY <1>2, <1>4 DEF MessagesKept
  <2>2. HistoriesKept
    <3>1. SUFFICES ASSUME NEW u \in Targets
                  PROVE Len(order[u]) <= Len(order'[u]) /\ \A i \in DOMAIN order[u] : order'[u][i] = order[u][i]
          BY DEF HistoriesKept
    <3>2. Len(order[u]) \in Nat BY DEF StoreTyped
    <3>3. CASE u = t BY <3>2, <3>3, <1>9, GrownOrder
    <3> QED BY <3>2, <3>3, <1>8
  <2>3. OneHistory BY <1>8 DEF OneHistory
  <2> QED BY <2>1, <2>2, <2>3 DEF Grows
<1>12. HistoryCommitted'
  <2> SUFFICES ASSUME NEW u \in Targets, NEW i \in DOMAIN order'[u] PROVE order'[u][i] \in DOMAIN messages'
      BY DEF HistoryCommitted
  <2>1. CASE u # t BY <2>1, <1>2, <1>8 DEF Histories, HistoryCommitted
  <2>2. CASE u = t
    <3>1. CASE i \in DOMAIN order[t] BY <2>2, <3>1, <1>2, <1>9 DEF Histories, HistoryCommitted
    <3>2. CASE i - Len(order[t]) \in 1 .. n /\ order'[t][i] = seq + (i - Len(order[t]))
          BY <2>2, <3>2, <1>1, <1>2 DEF New
    <3> QED BY <2>2, <3>1, <3>2, GrownPositions
  <2> QED BY <2>1, <2>2
<1>13. HistoryOrdered'
  <2> SUFFICES ASSUME NEW u \in Targets, NEW i \in DOMAIN order'[u], NEW j \in DOMAIN order'[u], i < j
               PROVE  order'[u][i] < order'[u][j]
      BY DEF HistoryOrdered
  <2>1. CASE u # t BY <2>1, <1>8 DEF Histories, HistoryOrdered
  <2>2. CASE u = t
    <3> DEFINE k == Len(order[t])
    <3>0. k \in Nat /\ DOMAIN order[t] = 1 .. k
      <4>1. order[t] \in Seq(Nat) BY DEF StoreTyped
      <4> QED BY <4>1
    <3>1. CASE j \in DOMAIN order[t]
      <4>1. order'[t] \in Seq(Nat) BY <1>7
      <4>2. i \in DOMAIN order[t] BY <2>2, <3>0, <3>1, <4>1
      <4> QED BY <2>2, <3>1, <4>2, <1>9 DEF Histories, HistoryOrdered
    <3>2. CASE j \notin DOMAIN order[t]
      <4>1. j - k \in 1 .. n /\ order'[t][j] = seq + (j - k) BY <2>2, <3>2, GrownPositions
      <4>2. CASE i \in DOMAIN order[t]
        <5>1. order'[t][i] \in 1 .. seq BY <4>2, <1>1, <1>9 DEF Histories, HistoryCommitted
        <5> QED BY <2>2, <4>1, <5>1, <1>1
      <4>3. CASE i \notin DOMAIN order[t]
        <5>1. i - k \in 1 .. n /\ order'[t][i] = seq + (i - k) BY <2>2, <4>3, GrownPositions
        <5>2. i \in Nat /\ j \in Nat
          <6>1. order'[t] \in Seq(Nat) BY <1>7
          <6> QED BY <2>2, <6>1
        <5> QED BY <2>2, <3>0, <4>1, <5>1, <5>2, <1>1
      <4> QED BY <4>2, <4>3
    <3> QED BY <3>1, <3>2
  <2> QED BY <2>1, <2>2
<1>14. \A u \in Targets : \A m : InHistory(u, m)' => InHistory(u, m) \/ (u = t /\ m \in New(n))
  <2> SUFFICES ASSUME NEW u \in Targets, NEW m, NEW i \in DOMAIN order'[u], order'[u][i] = m, ~InHistory(u, m)
               PROVE  u = t /\ m \in New(n)
      BY DEF InHistory
  <2>1. u = t BY <1>8 DEF InHistory
  <2>2. i \notin DOMAIN order[t] BY <2>1, <1>9 DEF InHistory
  <2>3. i - Len(order[t]) \in 1 .. n /\ m = seq + (i - Len(order[t])) BY <2>1, <2>2, GrownPositions
  <2> QED BY <2>1, <2>3, <1>1 DEF New
<1>15. \A u \in Targets : \A m : InHistory(u, m) => m \in DOMAIN messages
       BY DEF Histories, HistoryCommitted, InHistory
<1>16. HistoryDisjoint'
  <2>1. \A u, v \in Targets : \A m : InHistory(u, m)' /\ InHistory(v, m)' => u = v
        BY <1>3, <1>14, <1>15 DEF Histories, HistoryDisjoint
  <2> QED BY <2>1 DEF HistoryDisjoint, InHistory
<1>17. HistoryComplete'
  <2> SUFFICES ASSUME NEW m \in DOMAIN messages' PROVE \E u \in Targets : InHistory(u, m)'
      BY DEF HistoryComplete, InHistory
  <2>1. CASE m \in New(n) BY <2>1, <1>10
  <2>2. CASE m \in DOMAIN messages
    <3>1. PICK u \in Targets : InHistory(u, m) BY <2>2 DEF Histories, HistoryComplete
    <3>2. CASE u = t BY <3>1, <3>2, <1>9 DEF InHistory
    <3>3. CASE u # t BY <3>1, <3>3, <1>8 DEF InHistory
    <3> QED BY <3>1, <3>2, <3>3
  <2> QED BY <2>1, <2>2, <1>2
<1> QED BY <1>2, <1>3, <1>4, <1>5, <1>6, <1>7, <1>10, <1>11, <1>12, <1>13, <1>16, <1>17 DEF Histories

\* _append grows the history by one message.
LEMMA AppendGrows ==
    ASSUME StoreTyped, NEW t \in Targets, NEW m, AppendMessage(t, m)
    PROVE  GrowsBy(t, 1, [i \in New(1) |-> m])
<1>1. seq \in Nat /\ order[t] \in Seq(Nat) BY DEF StoreTyped
<1>2. New(1) = {seq + 1} BY <1>1 DEF New
<1>3. messages' = [i \in DOMAIN messages \cup New(1) |->
                     IF i \in New(1) THEN [j \in New(1) |-> m][i] ELSE messages[i]]
      BY <1>2 DEF AppendMessage, Put
<1> DEFINE ids == <<seq + 1>>
<1>4. ids \in Seq(Nat) /\ Len(ids) = 1 /\ \A i \in 1 .. 1 : ids[i] = seq + i BY <1>1
<1>5. Append(order[t], seq + 1) = order[t] \o ids BY <1>1
<1>6. order' = [order EXCEPT ![t] = order[t] \o ids] BY <1>5 DEF AppendMessage
<1> HIDE DEF ids
<1> QED BY <1>3, <1>4, <1>6 DEF GrowsBy, AppendMessage

\* The message of a result.
ToolMessage(r) == [role |-> "tool", content |-> r.output, calls |-> <<>>, callId |-> r.call]

\* A batch of results grows the history by one message each.
LEMMA ResultsGrow ==
    ASSUME StoreTyped, NEW t \in Targets, NEW results \in Seq(Result), AppendResults(t, results),
           seq' = seq + Len(results)
    PROVE  GrowsBy(t, Len(results), [m \in New(Len(results)) |-> ToolMessage(results[m - seq])])
<1> DEFINE ids == [i \in DOMAIN results |-> seq + i]
<1>1. seq \in Nat /\ Len(results) \in Nat /\ DOMAIN results = 1 .. Len(results) BY DEF StoreTyped
<1>2. ids \in Seq(Nat) /\ Len(ids) = Len(results) /\ \A i \in 1 .. Len(results) : ids[i] = seq + i BY <1>1
<1>3. order' = [order EXCEPT ![t] = order[t] \o ids] BY DEF AppendResults
<1> HIDE DEF ids
<1> QED BY <1>2, <1>3 DEF GrowsBy, AppendResults, New, ToolMessage

-----------------------------------------------------------------------------
(* Writing an attempt's text: the first write appends, a later one rewrites *)

\* What a write of an attempt's text leaves behind.
TextWritten(key, id, content) ==
    /\ DOMAIN messages' = DOMAIN messages \cup {id}
    /\ messages'[id].role = "assistant" /\ messages'[id].content = content
    /\ \A m \in DOMAIN messages : m # id => messages'[m] = messages[m]
    /\ id \in DOMAIN messages => messages[id].role = "assistant"
    /\ InHistory(key.who.target, id)'

\* _replace of an attempt's message.
LEMMA RewriteKeeps ==
    ASSUME StoreInv, NEW key \in DOMAIN textIds, NEW content \in Content, NEW calls \in Seq(Calls),
           NEW id, id = textIds[key],
           ReplaceMessage(id, [messages[id] EXCEPT !.content = content, !.calls = calls]),
           UNCHANGED textIds
    PROVE  StoreInv' /\ Grows /\ TextWritten(key, id, content)
<1> DEFINE msg == [messages[id] EXCEPT !.content = content, !.calls = calls]
<1>1. /\ key.who.target \in Targets /\ id \in DOMAIN messages
      /\ messages[id].role = "assistant" /\ InHistory(key.who.target, id)
  <2>1. /\ key.who.target \in Targets /\ textIds[key] \in DOMAIN messages
        /\ messages[textIds[key]].role = "assistant"
        /\ \E i \in DOMAIN order[key.who.target] : order[key.who.target][i] = textIds[key]
        BY DEF StoreInv, AttemptsIsolated, InHistory
  <2> QED BY <2>1 DEF InHistory
<1>2. messages[id] \in Message BY <1>1 DEF StoreInv, StoreTyped
<1>3. msg \in Message /\ msg.role = messages[id].role /\ msg.callId = messages[id].callId /\ msg.content = content
      BY <1>2 DEF Message
<1> HIDE DEF msg
<1>4. UNCHANGED <<order, seq>> /\ version' = version + 1 /\ messages' = [messages EXCEPT ![id] = msg]
      BY DEF ReplaceMessage, msg
<1>5. /\ DOMAIN messages' = DOMAIN messages /\ messages'[id] = msg
      /\ \A m \in DOMAIN messages : m # id => messages'[m] = messages[m]
      BY <1>1, <1>4 DEF StoreInv, StoreTyped
<1>6. messages' \in [DOMAIN messages' -> Message] BY <1>3, <1>4, <1>5 DEF StoreInv, StoreTyped
<1>7. StoreTyped' BY <1>4, <1>5, <1>6 DEF StoreInv, StoreTyped
<1>8. Histories' BY <1>4, <1>5 DEF StoreInv, Histories, HistoryCommitted, HistoryOrdered, HistoryDisjoint,
                                   HistoryComplete, InHistory
<1>9. Grows
  <2>1. MessagesKept BY <1>1, <1>3, <1>5 DEF MessagesKept
  <2>2. \A t \in Targets : order[t] \in Seq(Nat) BY DEF StoreInv, StoreTyped
  <2>3. \A t \in Targets : Len(order[t]) <= Len(order[t]) BY <2>2
  <2> QED BY <1>4, <2>1, <2>3 DEF Grows, HistoriesKept, OneHistory
<1>10. AttemptsIsolated' BY <1>7, <1>9, AttemptsKept DEF StoreInv
<1>11. TextWritten(key, id, content) BY <1>1, <1>3, <1>4, <1>5 DEF TextWritten, InHistory
<1> QED BY <1>7, <1>8, <1>9, <1>10, <1>11 DEF StoreInv

\* The first write of an attempt.
LEMMA FirstTextKeeps ==
    ASSUME StoreInv, NEW key \in Keys, key \notin DOMAIN textIds, key.who.target \in Targets,
           NEW content \in Content, NEW calls \in Seq(Calls), NEW id, id = seq + 1,
           AppendMessage(key.who.target, Assistant(content, calls)), textIds' = Put(textIds, key, id)
    PROVE  StoreInv' /\ Grows /\ TextWritten(key, id, content)
<1> DEFINE t == key.who.target
           msg == Assistant(content, calls)
           new == [i \in New(1) |-> msg]
<1>1. seq \in Nat /\ New(1) = {id} BY DEF StoreInv, StoreTyped, New
<1>2. msg \in Message /\ msg.role = "assistant" /\ msg.content = content BY DEF Message, Assistant
<1>3. new[id] = msg /\ \A m \in New(1) : new[m] \in Message BY <1>1, <1>2
<1>4. GrowsBy(t, 1, new) BY AppendGrows DEF StoreInv
<1> HIDE DEF msg, new
<1>5. /\ DOMAIN messages' \subseteq 1 .. seq' /\ messages' \in [DOMAIN messages' -> Message]
      /\ order' \in [Targets -> Seq(Nat)] /\ seq' \in Nat /\ version' \in Nat
      /\ Histories' /\ Grows
      /\ DOMAIN messages' = DOMAIN messages \cup New(1)
      /\ \A m \in New(1) : m \notin DOMAIN messages /\ messages'[m] = new[m] /\ InHistory(t, m)'
      /\ \A m \in DOMAIN messages : messages'[m] = messages[m]
      BY <1>3, <1>4, GrowthKeeps DEF StoreInv
<1>6. id \notin DOMAIN messages /\ messages'[id] = msg /\ InHistory(t, id)' BY <1>1, <1>3, <1>5
<1>7. StoreTyped' BY <1>1, <1>5 DEF StoreInv, StoreTyped, Put
<1>8. AttemptsIsolated'
  <2>1. DOMAIN textIds' = DOMAIN textIds \cup {key} /\ textIds'[key] = id
        /\ \A k \in DOMAIN textIds : textIds'[k] = textIds[k]
        BY DEF Put
  <2>2. \A k \in DOMAIN textIds : textIds[k] \in DOMAIN messages /\ textIds[k] # id
        BY <1>6 DEF StoreInv, AttemptsIsolated
  <2>3. \A k, l \in DOMAIN textIds' : textIds'[k] = textIds'[l] => k = l
        BY <2>1, <2>2 DEF StoreInv, AttemptsIsolated
  <2>4. ASSUME NEW k \in DOMAIN textIds'
        PROVE  /\ k.who.target \in Targets /\ textIds'[k] \in DOMAIN messages'
               /\ messages'[textIds'[k]].role = "assistant"
               /\ \E i \in DOMAIN order'[k.who.target] : order'[k.who.target][i] = textIds'[k]
    <3>1. CASE k = key BY <3>1, <2>1, <1>1, <1>2, <1>5, <1>6 DEF InHistory
    <3>2. CASE k # key
      <4> DEFINE m == textIds[k]
      <4>1. k \in DOMAIN textIds /\ textIds'[k] = m BY <2>1, <3>2
      <4>2. /\ k.who.target \in Targets /\ m \in DOMAIN messages
            /\ messages[m].role = "assistant" /\ InHistory(k.who.target, m)
            BY <4>1 DEF StoreInv, AttemptsIsolated, InHistory
      <4>3. m \in DOMAIN messages' /\ messages'[m].role = "assistant" BY <4>2, <1>5
      <4> HIDE DEF m
      <4>4. \E i \in DOMAIN order'[k.who.target] : order'[k.who.target][i] = m
        <5>1. PICK n : n = m OBVIOUS
        <5>2. InHistory(k.who.target, n)' BY <4>2, <5>1, <1>5, <1>7, StaysInHistory DEF StoreInv, Grows
        <5> QED BY <5>1, <5>2 DEF InHistory
      <4> QED BY <4>1, <4>2, <4>3, <4>4
    <3> QED BY <3>1, <3>2
  <2> QED BY <2>3, <2>4 DEF AttemptsIsolated, InHistory
<1>9. TextWritten(key, id, content) BY <1>1, <1>2, <1>5, <1>6 DEF TextWritten
<1> QED BY <1>5, <1>7, <1>8, <1>9 DEF StoreInv

\* The text methods write through one of the two, to the message their receipt names.
LEMMA TextKeeps ==
    ASSUME StoreInv, NEW key \in Keys, key.who.target \in Targets,
           NEW content \in Content, NEW calls \in Seq(Calls), NEW id, id = TextId(key),
           WriteText(key, content, calls)
    PROVE  StoreInv' /\ Grows /\ TextWritten(key, id, content)
<1>1. CASE key \in DOMAIN textIds BY <1>1, RewriteKeeps DEF WriteText, TextId
<1>2. CASE key \notin DOMAIN textIds BY <1>2, FirstTextKeeps DEF WriteText, TextId
<1> QED BY <1>1, <1>2

-----------------------------------------------------------------------------
(* Storing an operation *)

\* The invariant of the recorder.  TypeOK, HistoryWellFormed, AttemptsIsolated and
\* ReceiptsResolve are inductive only together: that an input's receipt is not rewritten
\* needs the role its receipt points at, and that a text's receipt is needs the attempt's
\* message.  ResultsFollowCalls, TextIsCommitted and WritesAreWhole rest on all of them.
RecorderInv ==
    /\ TypeOK /\ HistoryWellFormed /\ AttemptsIsolated /\ ReceiptsResolve
    /\ ResultsFollowCalls /\ TextIsCommitted /\ WritesAreWhole

Textual == {"text_delta", "text_final"}

\* A chunk of an attempt's message that is not of a new operation was there before.
ChunksFrom(rec) ==
    \A m \in DOMAIN messages' : messages'[m].role = "assistant" /\ messages'[m].content # None =>
        \A c \in Values(messages'[m].content) :
            \/ /\ m \in DOMAIN messages /\ messages[m].role = "assistant" /\ messages[m].content # None
               /\ c \in Values(messages[m].content)
            \/ /\ rec.payload.text # None /\ c \in Values(rec.payload.text)
               /\ \/ m \in {rec.receipts[i].id : i \in DOMAIN rec.receipts}
                  \/ rec.batch # None /\ rec.batch.message = m

\* A message that is new is one the new operation names.
NewNamed(rec) ==
    \A m \in DOMAIN messages' \ DOMAIN messages :
        \/ \E i \in DOMAIN rec.receipts : rec.receipts[i].id = m
        \/ rec.batch # None /\ rec.batch.required /\ rec.batch.message = m

\* What an operation stored under a fresh id owes the invariant.
GoodCommit(op, rec) ==
    /\ op \in OpIds \cup FinalOps /\ op \notin DOMAIN ops
    /\ rec \in Committed /\ ops' = Put(ops, op, rec)
    /\ Resolves(op)'
    /\ rec.kind = "tool_results" => Answers(op)' /\ WholeBatch(op)'
    /\ \A i \in DOMAIN rec.receipts : rec.receipts[i].id \in DOMAIN messages => rec.kind \in Textual
    /\ \A i, j \in DOMAIN rec.receipts : rec.receipts[i].id = rec.receipts[j].id => i = j
    /\ ChunksFrom(rec) /\ NewNamed(rec)

\* The operations after a commit are the old ones and the new one.
LEMMA PutOps ==
    ASSUME NEW op, op \notin DOMAIN ops, NEW rec, ops' = Put(ops, op, rec)
    PROVE  /\ DOMAIN ops' = DOMAIN ops \cup {op} /\ ops'[op] = rec
           /\ \A o \in DOMAIN ops : o # op /\ ops'[o] = ops[o]
BY DEF Put

\* The receipts of the old operations still resolve.
LEMMA OldResolve ==
    ASSUME StoreInv, StoreInv', Grows, KeepsOps, NEW o \in DOMAIN ops, Resolves(o)
    PROVE  Resolves(o)'
<1>1. o \in DOMAIN ops' /\ ops'[o] = ops[o] BY DEF KeepsOps
<1>2. \A t \in Targets : \A m : InHistory(t, m) => InHistory(t, m)' BY StaysInHistory DEF StoreInv, Grows
<1>3. \A m \in DOMAIN messages : m \in DOMAIN messages' /\ messages'[m].role = messages[m].role
      BY DEF Grows, MessagesKept
<1> DEFINE rec == ops[o]
<1>4. ASSUME NEW i \in DOMAIN rec.receipts
      PROVE  /\ rec.receipts[i].op = o /\ rec.receipts[i].who = rec.who
             /\ rec.who.target \in Targets
             /\ rec.receipts[i].id \in DOMAIN messages'
             /\ <<rec.kind, messages'[rec.receipts[i].id].role>> \in Writes
             /\ \E j \in DOMAIN order'[rec.who.target] : order'[rec.who.target][j] = rec.receipts[i].id
  <2>1. PICK m, t : m = rec.receipts[i].id /\ t = rec.who.target OBVIOUS
  <2>2. InHistory(t, m) /\ t \in Targets /\ m \in DOMAIN messages /\ <<rec.kind, messages[m].role>> \in Writes
        BY <1>4, <2>1 DEF Resolves, InHistory
  <2>3. \E j \in DOMAIN order'[t] : order'[t][j] = m BY <2>2, <1>2 DEF InHistory
  <2>4. rec.receipts[i].op = o /\ rec.receipts[i].who = rec.who BY <1>4 DEF Resolves
  <2> QED BY <2>1, <2>2, <2>3, <2>4, <1>3
<1>5. ASSUME rec.batch # None, rec.batch.required
      PROVE  /\ rec.who.target \in Targets
             /\ rec.batch.message \in DOMAIN messages'
             /\ messages'[rec.batch.message].role = "assistant"
             /\ \E j \in DOMAIN order'[rec.who.target] : order'[rec.who.target][j] = rec.batch.message
             /\ \A r \in Values(rec.batch.calls) : r.id = rec.batch.message
  <2>1. PICK m, t : m = rec.batch.message /\ t = rec.who.target OBVIOUS
  <2>2. InHistory(t, m) /\ t \in Targets /\ m \in DOMAIN messages /\ messages[m].role = "assistant"
        BY <1>5, <2>1 DEF Resolves, InHistory
  <2>3. \E j \in DOMAIN order'[t] : order'[t][j] = m BY <2>2, <1>2 DEF InHistory
  <2>4. \A r \in Values(rec.batch.calls) : r.id = rec.batch.message BY <1>5 DEF Resolves
  <2> QED BY <2>1, <2>2, <2>3, <2>4, <1>3
<1>6. rec.batch # None => rec.batch.op = o /\ rec.batch.who = rec.who BY DEF Resolves
<1> QED BY <1>1, <1>4, <1>5, <1>6 DEF Resolves, InHistory

\* Old results still answer their batch.
LEMMA OldAnswer ==
    ASSUME StoreInv, Grows, KeepsOps, NEW o \in DOMAIN ops, Resolves(o), Answers(o)
    PROVE  Answers(o)'
<1>1. ops'[o] = ops[o] /\ o \in DOMAIN ops' BY DEF KeepsOps
<1>2. ops[o].prev.op \in DOMAIN ops' /\ ops'[ops[o].prev.op].batch = ops[o].prev BY DEF Answers, KeepsOps
<1>3. \A i \in DOMAIN ops[o].receipts :
         /\ ops[o].receipts[i].id \in DOMAIN messages
         /\ messages'[ops[o].receipts[i].id].role = messages[ops[o].receipts[i].id].role
         /\ messages'[ops[o].receipts[i].id].callId = messages[ops[o].receipts[i].id].callId
      BY DEF Resolves, Grows, MessagesKept
<1> QED BY <1>1, <1>2, <1>3 DEF Answers

\* A batch that was whole stays whole: results are never rewritten.
LEMMA OldWhole ==
    ASSUME Grows, KeepsOps, NEW o \in DOMAIN ops, ops[o].kind = "tool_results", Resolves(o), WholeBatch(o)
    PROVE  WholeBatch(o)'
<1>1. ops'[o] = ops[o] BY DEF KeepsOps
<1>2. \A i \in DOMAIN ops[o].receipts :
         /\ ops[o].receipts[i].id \in DOMAIN messages
         /\ <<ops[o].kind, messages[ops[o].receipts[i].id].role>> \in Writes
      BY DEF Resolves
<1>3. \A i \in DOMAIN ops[o].receipts : messages[ops[o].receipts[i].id].role # "assistant"
      BY <1>2 DEF Writes
<1>4. \A i \in DOMAIN ops[o].receipts : messages'[ops[o].receipts[i].id] = messages[ops[o].receipts[i].id]
      BY <1>2, <1>3 DEF Grows, MessagesKept
<1> QED BY <1>1, <1>4 DEF WholeBatch

\* A good commit on top of a grown history keeps the invariant.
LEMMA CommitKeeps ==
    ASSUME RecorderInv, StoreInv', Grows, NEW op, NEW rec, GoodCommit(op, rec),
           failOps' \subseteq OpIds \cup FinalOps, runStatus' \in [Runs -> Status \cup {None}]
    PROVE  RecorderInv'
<1>0. StoreInv BY DEF RecorderInv, TypeOK, HistoryWellFormed, StoreInv, Histories
<1>1. /\ DOMAIN ops' = DOMAIN ops \cup {op} /\ ops'[op] = rec
      /\ \A o \in DOMAIN ops : o # op /\ ops'[o] = ops[o]
      BY PutOps DEF GoodCommit
<1>2. KeepsOps BY <1>1 DEF KeepsOps
<1>3. OpsTyped'
  <2>1. ops' = [o \in DOMAIN ops' |-> ops'[o]] BY <1>1 DEF GoodCommit, Put
  <2>2. \A o \in DOMAIN ops : ops[o] \in Committed BY DEF RecorderInv, TypeOK, OpsTyped
  <2>3. \A o \in DOMAIN ops' : ops'[o] \in Committed BY <1>1, <2>2 DEF GoodCommit
  <2>4. DOMAIN ops' \subseteq OpIds \cup FinalOps BY <1>1 DEF RecorderInv, TypeOK, OpsTyped, GoodCommit
  <2> QED BY <2>1, <2>3, <2>4 DEF OpsTyped
<1>4. TypeOK' BY <1>3 DEF TypeOK, StoreInv
<1>5. ReceiptsResolve'
  <2>1. \A o \in DOMAIN ops : Resolves(o)' BY <1>0, <1>2, OldResolve DEF RecorderInv, ReceiptsResolve
  <2>2. \A o \in DOMAIN ops' : Resolves(o)' BY <2>1, <1>1 DEF GoodCommit
  <2> QED BY <2>2 DEF ReceiptsResolve, Resolves, InHistory
<1>6. ResultsFollowCalls'
  <2>1. \A o \in DOMAIN ops : ops[o].kind = "tool_results" => Answers(o)'
        BY <1>0, <1>2, OldAnswer DEF RecorderInv, ReceiptsResolve, ResultsFollowCalls
  <2>2. \A o \in DOMAIN ops' : ops'[o].kind = "tool_results" => Answers(o)' BY <2>1, <1>1 DEF GoodCommit
  <2> QED BY <2>2 DEF ResultsFollowCalls, Answers
<1>7. OneAuthor'
  <2>1. ASSUME NEW o \in DOMAIN ops, NEW i \in DOMAIN ops[o].receipts, NEW j \in DOMAIN rec.receipts,
               ops[o].receipts[i].id = rec.receipts[j].id
        PROVE  ops[o].kind \in Textual /\ rec.kind \in Textual
    <3>1. /\ ops[o].receipts[i].id \in DOMAIN messages
          /\ <<ops[o].kind, messages[ops[o].receipts[i].id].role>> \in Writes
          BY DEF RecorderInv, ReceiptsResolve, Resolves
    <3>2. rec.kind \in Textual BY <2>1, <3>1 DEF GoodCommit
    <3>3. <<rec.kind, messages'[rec.receipts[j].id].role>> \in Writes BY <1>1 DEF GoodCommit, Resolves
    <3>4. messages[ops[o].receipts[i].id].role = "assistant"
          BY <2>1, <3>1, <3>2, <3>3 DEF Writes, Textual, Grows, MessagesKept
    <3> QED BY <3>1, <3>2, <3>4 DEF Writes, Textual
  <2>2. ASSUME NEW o \in DOMAIN ops', NEW p \in DOMAIN ops',
               NEW i \in DOMAIN ops'[o].receipts, NEW j \in DOMAIN ops'[p].receipts,
               ops'[o].receipts[i].id = ops'[p].receipts[j].id
        PROVE  (o = p /\ i = j) \/ {ops'[o].kind, ops'[p].kind} \subseteq Textual
    <3>1. CASE o \in DOMAIN ops /\ p \in DOMAIN ops
          BY <2>2, <3>1, <1>1 DEF RecorderInv, HistoryWellFormed, OneAuthor, Textual
    <3>2. CASE o \in DOMAIN ops /\ p = op BY <2>2, <3>2, <1>1, <2>1
    <3>3. CASE o = op /\ p \in DOMAIN ops BY <2>2, <3>3, <1>1, <2>1
    <3>4. CASE o = op /\ p = op BY <2>2, <3>4, <1>1 DEF GoodCommit
    <3> QED BY <3>1, <3>2, <3>3, <3>4, <1>1
  <2> QED BY <2>2 DEF OneAuthor, Textual
<1>8. TextIsCommitted'
  <2> SUFFICES ASSUME NEW m \in DOMAIN messages', messages'[m].role = "assistant", messages'[m].content # None,
                      NEW c \in Values(messages'[m].content)
               PROVE  \E o \in DOMAIN ops' : CommittedTo(o, m, c)'
      BY DEF TextIsCommitted, CommittedTo
  <2>1. CASE /\ m \in DOMAIN messages /\ messages[m].role = "assistant" /\ messages[m].content # None
             /\ c \in Values(messages[m].content)
    <3>1. PICK o \in DOMAIN ops : CommittedTo(o, m, c) BY <2>1 DEF RecorderInv, TextIsCommitted
    <3>2. o \in DOMAIN ops' /\ ops'[o] = ops[o] BY <1>1
    <3> QED BY <3>1, <3>2 DEF CommittedTo
  <2>2. CASE /\ rec.payload.text # None /\ c \in Values(rec.payload.text)
             /\ \/ m \in {rec.receipts[i].id : i \in DOMAIN rec.receipts}
                \/ rec.batch # None /\ rec.batch.message = m
    <3>1. CommittedTo(op, m, c)' BY <2>2, <1>1 DEF CommittedTo
    <3> QED BY <3>1, <1>1
  <2> QED BY <2>1, <2>2 DEF GoodCommit, ChunksFrom
<1>9. WritesAreWhole'
  <2>1. ASSUME NEW m \in DOMAIN messages' PROVE \E o \in DOMAIN ops' : Names(o, m)'
    <3>1. CASE m \in DOMAIN messages
      <4>1. PICK o \in DOMAIN ops : Names(o, m) BY <3>1 DEF RecorderInv, WritesAreWhole
      <4>2. o \in DOMAIN ops' /\ ops'[o] = ops[o] BY <1>1
      <4> QED BY <4>1, <4>2 DEF Names
    <3>2. CASE m \notin DOMAIN messages
      <4>1. Names(op, m)' BY <3>2, <1>1 DEF GoodCommit, NewNamed, Names
      <4> QED BY <4>1, <1>1
    <3> QED BY <3>1, <3>2
  <2>2. \A o \in DOMAIN ops : ops[o].kind = "tool_results" => WholeBatch(o)'
        BY <1>2, OldWhole DEF RecorderInv, ReceiptsResolve, WritesAreWhole
  <2>3. \A o \in DOMAIN ops' : ops'[o].kind = "tool_results" => WholeBatch(o)' BY <2>2, <1>1 DEF GoodCommit
  <2> QED BY <2>1, <2>3 DEF WritesAreWhole, Names, WholeBatch
<1> QED BY <1>4, <1>5, <1>6, <1>7, <1>8, <1>9 DEF RecorderInv, HistoryWellFormed, StoreInv, Histories

-----------------------------------------------------------------------------
(* The methods *)

\* The step keeps the invariant and only grows the history.
Keeps == RecorderInv' /\ Grows

\* The record _store_op keeps.
Record(kind, payload, who, prev, receipts, bat) ==
    [kind |-> kind, payload |-> payload, who |-> who, prev |-> prev, receipts |-> receipts, batch |-> bat]

\* A step that commits nothing keeps the invariant, whatever it draws.
LEMMA UnchangedKeeps ==
    ASSUME RecorderInv, UNCHANGED facts, failOps' \subseteq OpIds \cup FinalOps, seq' \in Nat, seq <= seq'
    PROVE  Keeps
<1>1. 1 .. seq \subseteq 1 .. seq' BY DEF RecorderInv, TypeOK, StoreTyped
<1>2. TypeOK'
  <2>1. StoreTyped' BY <1>1 DEF RecorderInv, TypeOK, StoreTyped
  <2>2. OpsTyped' BY DEF RecorderInv, TypeOK, OpsTyped
  <2> QED BY <2>1, <2>2 DEF RecorderInv, TypeOK
<1>3. HistoryWellFormed'
      BY DEF RecorderInv, HistoryWellFormed, HistoryCommitted, HistoryOrdered, HistoryDisjoint,
             HistoryComplete, OneAuthor, InHistory
<1>4. AttemptsIsolated' /\ ReceiptsResolve'
      BY DEF RecorderInv, AttemptsIsolated, ReceiptsResolve, Resolves, InHistory
<1>5. ResultsFollowCalls' /\ TextIsCommitted' /\ WritesAreWhole'
      BY DEF RecorderInv, ResultsFollowCalls, Answers, TextIsCommitted, CommittedTo,
             WritesAreWhole, Names, WholeBatch
<1>6. Grows
  <2>1. \A t \in Targets : order[t] \in Seq(Nat) BY DEF RecorderInv, TypeOK, StoreTyped
  <2>2. \A t \in Targets : Len(order[t]) <= Len(order[t]) BY <2>1
  <2> QED BY <2>2 DEF Grows, MessagesKept, HistoriesKept, OneHistory
<1> QED BY <1>2, <1>3, <1>4, <1>5, <1>6 DEF Keeps, RecorderInv

\* A failed write, a replay and a refusal commit nothing.
LEMMA RefusedKeeps ==
    ASSUME RecorderInv, NEW op, \/ WriteFails(op)
                                \/ \E kind, payload, who, prev : Replay(op, kind, payload, who, prev)
                                \/ Reject(op)
    PROVE  Keeps
<1>1. UNCHANGED facts BY DEF WriteFails, Replay, Reject
<1>2. failOps' \subseteq OpIds \cup FinalOps BY DEF WriteFails, Replay, Reject, RecorderInv, TypeOK
<1>3. seq' \in Nat /\ seq <= seq' BY DEF WriteFails, Replay, Reject, RecorderInv, TypeOK, StoreTyped
<1> QED BY <1>1, <1>2, <1>3, UnchangedKeeps

\* An operation that writes no message and hands out no message receipt, outside the
\* transcript or at the end of a run.
LEMMA SilentKeeps ==
    ASSUME RecorderInv, NEW op \in OpIds \cup FinalOps, Fresh(op),
           NEW kind \in {"tool_calls", "run_final"}, NEW payload \in Payload, NEW who \in Who,
           NEW prev \in BatchReceipt \cup {None}, NEW bat \in BatchReceipt \cup {None},
           bat # None => bat.op = op /\ bat.who = who /\ ~bat.required,
           StoreOp(op, kind, payload, who, prev, <<>>, bat),
           UNCHANGED <<messages, order, textIds, version, seq>>, runStatus' \in [Runs -> Status \cup {None}]
    PROVE  Keeps
<1> DEFINE rec == Record(kind, payload, who, prev, <<>>, bat)
<1>1. op \notin DOMAIN ops /\ ops' = Put(ops, op, rec) BY DEF Fresh, StoreOp, Record
<1>2. rec \in Committed
  <2>1. <<>> \in Seq(MessageReceipt) OBVIOUS
  <2> QED BY <2>1 DEF Committed, Record, Kinds
<1>3. rec.kind = kind /\ rec.receipts = <<>> /\ rec.batch = bat /\ rec.who = who BY DEF Record
<1>4. DOMAIN rec.receipts = {} BY <1>3
<1> HIDE DEF rec
<1>5. StoreInv' /\ Grows
  <2>1. StoreInv'
        BY DEF RecorderInv, TypeOK, StoreTyped, HistoryWellFormed, Histories, HistoryCommitted, HistoryOrdered,
               HistoryDisjoint, HistoryComplete, AttemptsIsolated, InHistory, StoreInv
  <2>2. \A t \in Targets : order[t] \in Seq(Nat) BY DEF RecorderInv, TypeOK, StoreTyped
  <2>3. \A t \in Targets : Len(order[t]) <= Len(order[t]) BY <2>2
  <2> QED BY <2>1, <2>3 DEF Grows, MessagesKept, HistoriesKept, OneHistory
<1>6. GoodCommit(op, rec)
  <2>1. ops'[op] = rec BY <1>1 DEF Put
  <2>2. Resolves(op)' BY <1>3, <1>4, <2>1 DEF Resolves
  <2>3. ChunksFrom(rec) /\ NewNamed(rec) BY DEF ChunksFrom, NewNamed
  <2> QED BY <1>1, <1>2, <1>3, <1>4, <2>2, <2>3 DEF GoodCommit
<1>7. failOps' \subseteq OpIds \cup FinalOps BY DEF StoreOp, RecorderInv, TypeOK
<1> QED BY <1>5, <1>6, <1>7, CommitKeeps DEF Keeps

\* record_input
LEMMA InputKeeps ==
    ASSUME RecorderInv, NEW r \in Runs, NEW t \in Targets, NEW text \in Texts, NEW op \in OpIds,
           RecordInput(r, t, text, op)
    PROVE  Keeps
<1> DEFINE who == InputWho(r, t)
           payload == PayloadOf(text, <<>>, <<>>, 0)
           msg == [role |-> "user", content |-> text, calls |-> <<>>, callId |-> None]
           new == [i \in New(1) |-> msg]
<1>1. SUFFICES ASSUME Fresh(op), AppendMessage(t, msg), UNCHANGED <<textIds, runStatus>>,
                      StoreOp(op, "input", payload, who, None, <<Receipt(seq + 1, who, op)>>, None)
               PROVE  Keeps
      BY RefusedKeeps DEF RecordInput
<1>2. seq \in Nat /\ New(1) = {seq + 1} BY DEF RecorderInv, TypeOK, StoreTyped, New
<1>3. PICK id : id = seq + 1 OBVIOUS
<1> DEFINE receipt == Receipt(id, who, op)
           rec == Record("input", payload, who, None, <<receipt>>, None)
<1>4. text \in Seq(Chunks) BY Inputs
<1>5. msg \in Message /\ msg.role = "user" BY <1>4 DEF Message, Content
<1>6. who \in Who /\ who.target = t BY DEF Who, InputWho
<1>7. rec \in Committed
  <2>1. payload \in Payload BY <1>4 DEF Payload, PayloadOf, Content
  <2>2. receipt \in MessageReceipt BY <1>2, <1>3, <1>6 DEF MessageReceipt, Receipt
  <2>3. <<receipt>> \in Seq(MessageReceipt) BY <2>2
  <2> QED BY <1>6, <2>1, <2>3 DEF Committed, Record, Kinds
<1>8. /\ rec.kind = "input" /\ rec.who = who /\ rec.batch = None /\ rec.receipts = <<receipt>>
      BY DEF Record
<1>9. DOMAIN rec.receipts = {1} /\ rec.receipts[1] = receipt BY <1>8
<1>10. receipt.id = id /\ receipt.op = op /\ receipt.who = who BY DEF Receipt
<1>11. GrowsBy(t, 1, new) BY <1>1, AppendGrows DEF RecorderInv, TypeOK
<1>12. op \notin DOMAIN ops /\ ops' = Put(ops, op, rec) BY <1>1, <1>3 DEF Fresh, StoreOp, Record
<1>13. new[id] = msg /\ \A m \in New(1) : new[m] \in Message BY <1>2, <1>3, <1>5
<1> HIDE DEF msg, new, rec, receipt, who
<1>14. /\ DOMAIN messages' \subseteq 1 .. seq' /\ messages' \in [DOMAIN messages' -> Message]
       /\ order' \in [Targets -> Seq(Nat)] /\ seq' \in Nat /\ version' \in Nat
       /\ Histories' /\ Grows
       /\ DOMAIN messages' = DOMAIN messages \cup New(1)
       /\ \A m \in New(1) : m \notin DOMAIN messages /\ messages'[m] = new[m] /\ InHistory(t, m)'
       /\ \A m \in DOMAIN messages : messages'[m] = messages[m]
       BY <1>11, <1>13, GrowthKeeps DEF RecorderInv, TypeOK, HistoryWellFormed, Histories
<1>15. StoreTyped' BY <1>1, <1>14 DEF RecorderInv, TypeOK, StoreTyped
<1>16. StoreInv' BY <1>1, <1>14, <1>15, AttemptsKept DEF StoreInv, RecorderInv, TypeOK
<1>17. id \notin DOMAIN messages /\ id \in DOMAIN messages' /\ messages'[id] = msg /\ InHistory(t, id)'
       BY <1>2, <1>3, <1>13, <1>14
<1>18. GoodCommit(op, rec)
  <2>1. ops'[op] = rec BY <1>12 DEF Put
  <2>2. <<rec.kind, messages'[id].role>> \in Writes BY <1>5, <1>8, <1>17 DEF Writes
  <2>3. Resolves(op)' BY <1>6, <1>8, <1>9, <1>10, <1>17, <2>1, <2>2 DEF Resolves, InHistory
  <2>4. ChunksFrom(rec)
    <3>1. \A m \in DOMAIN messages' : messages'[m].role = "assistant" =>
             m \in DOMAIN messages /\ messages'[m] = messages[m]
          BY <1>2, <1>3, <1>5, <1>14, <1>17
    <3> QED BY <3>1 DEF ChunksFrom
  <2>5. NewNamed(rec)
    <3>1. \A m \in DOMAIN messages' \ DOMAIN messages : m = id BY <1>2, <1>3, <1>14
    <3> QED BY <3>1, <1>8, <1>9, <1>10 DEF NewNamed
  <2> QED BY <1>7, <1>8, <1>9, <1>10, <1>12, <1>17, <2>3, <2>4, <2>5 DEF GoodCommit
<1>19. failOps' \subseteq OpIds \cup FinalOps /\ runStatus' \in [Runs -> Status \cup {None}]
       BY <1>1 DEF StoreOp, RecorderInv, TypeOK
<1> QED BY <1>14, <1>16, <1>18, <1>19, CommitKeeps DEF Keeps

\* What an attempt's message says after a write: chunks of the text that was passed, or
\* chunks it said already.
Provenance(key, content, text) ==
    content # None => \A c \in Values(content) :
        \/ text # None /\ c \in Values(text)
        \/ /\ key \in DOMAIN textIds /\ messages[textIds[key]].content # None
           /\ c \in Values(messages[textIds[key]].content)

\* The two text methods and record_tool_calls: a write of the attempt's message, and an
\* operation whose message receipt or batch names it.
LEMMA TextCommitKeeps ==
    ASSUME RecorderInv, NEW op \in OpIds, Fresh(op), NEW who \in StepWho, NEW attempt \in Attempts,
           NEW kind \in Textual \cup {"tool_calls"}, NEW payload \in Payload,
           NEW prev \in MessageReceipt \cup BatchReceipt \cup {None},
           NEW key, key = [who |-> who, attempt |-> attempt], NEW id, id = TextId(key),
           NEW content \in Content, NEW calls \in Seq(Calls),
           NEW receipts \in Seq(MessageReceipt), NEW bat \in BatchReceipt \cup {None},
           \/ kind \in Textual /\ receipts = <<Receipt(id, who, op)>> /\ bat = None
           \/ /\ receipts = <<>> /\ bat # None /\ bat.required
              /\ bat.op = op /\ bat.who = who /\ bat.message = id
              /\ \A r \in Values(bat.calls) : r.id = id
              /\ kind = "tool_calls",
           WriteText(key, content, calls), Provenance(key, content, payload.text),
           StoreOp(op, kind, payload, who, prev, receipts, bat), UNCHANGED runStatus
    PROVE  Keeps
<1> DEFINE rec == Record(kind, payload, who, prev, receipts, bat)
<1>1. /\ rec.kind = kind /\ rec.who = who /\ rec.batch = bat /\ rec.receipts = receipts
      /\ rec.payload = payload
      BY DEF Record
<1>2. who \in Who /\ who.target \in Targets BY DEF StepWho, Who
<1>3. rec \in Committed BY <1>2 DEF Committed, Record, Kinds, Textual
<1>4. op \notin DOMAIN ops /\ ops' = Put(ops, op, rec) BY DEF Fresh, StoreOp, Record
<1> HIDE DEF rec
<1>5. StoreInv BY DEF RecorderInv, TypeOK, HistoryWellFormed, StoreInv, Histories
<1>6. key \in Keys /\ key.who = who BY <1>2 DEF Keys
<1>7. StoreInv' /\ Grows /\ TextWritten(key, id, content) BY <1>2, <1>5, <1>6, TextKeeps
<1>8. /\ id \in DOMAIN messages' /\ messages'[id].role = "assistant" /\ messages'[id].content = content
      /\ InHistory(who.target, id)'
      BY <1>6, <1>7 DEF TextWritten, InHistory
<1>9. GoodCommit(op, rec)
  <2>1. ops'[op] = rec BY <1>4 DEF Put
  <2>2. CASE kind \in Textual /\ receipts = <<Receipt(id, who, op)>> /\ bat = None
    <3> DEFINE receipt == Receipt(id, who, op)
    <3>1. DOMAIN receipts = {1} /\ receipts[1] = receipt BY <2>2
    <3>2. receipt.id = id /\ receipt.op = op /\ receipt.who = who BY DEF Receipt
    <3> HIDE DEF receipt
    <3>3. <<kind, messages'[id].role>> \in Writes BY <2>2, <1>8 DEF Writes, Textual
    <3>4. Resolves(op)' BY <1>1, <1>2, <1>8, <2>1, <2>2, <3>1, <3>2, <3>3 DEF Resolves, InHistory
    <3>5. id \in {rec.receipts[i].id : i \in DOMAIN rec.receipts} BY <1>1, <3>1, <3>2
    <3>6. ChunksFrom(rec)
      <4> SUFFICES ASSUME NEW m \in DOMAIN messages', messages'[m].role = "assistant",
                          messages'[m].content # None, NEW c \in Values(messages'[m].content)
                   PROVE  \/ /\ m \in DOMAIN messages /\ messages[m].role = "assistant"
                             /\ messages[m].content # None /\ c \in Values(messages[m].content)
                          \/ /\ rec.payload.text # None /\ c \in Values(rec.payload.text)
                             /\ m \in {rec.receipts[i].id : i \in DOMAIN rec.receipts}
          BY DEF ChunksFrom
      <4>1. CASE m # id BY <4>1, <1>7 DEF TextWritten
      <4>2. CASE m = id
        <5>1. \/ payload.text # None /\ c \in Values(payload.text)
              \/ /\ key \in DOMAIN textIds /\ messages[textIds[key]].content # None
                 /\ c \in Values(messages[textIds[key]].content)
              BY <4>2, <1>8 DEF Provenance
        <5>2. key \in DOMAIN textIds => id = textIds[key] /\ id \in DOMAIN messages /\ messages[id].role = "assistant"
              BY <1>5 DEF TextId, StoreInv, AttemptsIsolated
        <5> QED BY <4>2, <5>1, <5>2, <1>1, <3>5
      <4> QED BY <4>1, <4>2
    <3>7. rec.kind \in Textual /\ rec.kind # "tool_results" BY <1>1, <2>2 DEF Textual
    <3>8. \A i, j \in DOMAIN rec.receipts : i = j BY <1>1, <3>1
    <3>9. NewNamed(rec) BY <1>1, <1>7, <3>1, <3>2 DEF NewNamed, TextWritten
    <3> QED BY <1>3, <1>4, <3>4, <3>6, <3>7, <3>8, <3>9 DEF GoodCommit
  <2>3. CASE /\ receipts = <<>> /\ bat # None /\ bat.required
             /\ bat.op = op /\ bat.who = who /\ bat.message = id
             /\ \A r \in Values(bat.calls) : r.id = id
             /\ kind = "tool_calls"
    <3>1. DOMAIN receipts = {} BY <2>3
    <3>2. Resolves(op)' BY <1>1, <1>2, <1>8, <2>1, <2>3, <3>1 DEF Resolves, InHistory
    <3>3. ChunksFrom(rec)
      <4> SUFFICES ASSUME NEW m \in DOMAIN messages', messages'[m].role = "assistant",
                          messages'[m].content # None, NEW c \in Values(messages'[m].content)
                   PROVE  \/ /\ m \in DOMAIN messages /\ messages[m].role = "assistant"
                             /\ messages[m].content # None /\ c \in Values(messages[m].content)
                          \/ /\ rec.payload.text # None /\ c \in Values(rec.payload.text)
                             /\ rec.batch # None /\ rec.batch.message = m
          BY DEF ChunksFrom
      <4>1. CASE m # id BY <4>1, <1>7 DEF TextWritten
      <4>2. CASE m = id
        <5>1. \/ payload.text # None /\ c \in Values(payload.text)
              \/ /\ key \in DOMAIN textIds /\ messages[textIds[key]].content # None
                 /\ c \in Values(messages[textIds[key]].content)
              BY <4>2, <1>8 DEF Provenance
        <5>2. key \in DOMAIN textIds => id = textIds[key] /\ id \in DOMAIN messages /\ messages[id].role = "assistant"
              BY <1>5 DEF TextId, StoreInv, AttemptsIsolated
        <5> QED BY <4>2, <5>1, <5>2, <1>1, <2>3
      <4> QED BY <4>1, <4>2
    <3>4. NewNamed(rec) BY <1>1, <1>7, <2>3 DEF NewNamed, TextWritten
    <3> QED BY <1>1, <1>3, <1>4, <2>3, <3>1, <3>2, <3>3, <3>4 DEF GoodCommit
  <2> QED BY <2>2, <2>3
<1>10. failOps' \subseteq OpIds \cup FinalOps /\ runStatus' \in [Runs -> Status \cup {None}]
       BY DEF StoreOp, RecorderInv, TypeOK
<1> QED BY <1>7, <1>9, <1>10, CommitKeeps DEF Keeps

\* What an attempt's message holds, when there is one.
LEMMA TextTyped ==
    ASSUME RecorderInv, NEW key
    PROVE  /\ KeyCalls(key) \in Seq(Calls)
           /\ key \in DOMAIN textIds => messages[textIds[key]].content \in Content
           /\ TextId(key) \in Nat
<1>1. key \in DOMAIN textIds => messages[textIds[key]] \in Message
      BY DEF RecorderInv, TypeOK, StoreTyped, AttemptsIsolated
<1>2. key \in DOMAIN textIds => messages[textIds[key]].calls \in Seq(Calls) /\ messages[textIds[key]].content \in Content
      BY <1>1 DEF Message
<1>3. <<>> \in Seq(Calls) OBVIOUS
<1>4. TextId(key) \in Nat BY DEF TextId, RecorderInv, TypeOK, StoreTyped
<1> QED BY <1>2, <1>3, <1>4 DEF KeyCalls

\* The receipts a caller can hold have their type.
LEMMA ReceiptsTyped ==
    ASSUME RecorderInv
    PROVE  /\ Issued \cup ForeignReceipts \subseteq MessageReceipt
           /\ IssuedBatches \cup ForeignBatches \subseteq BatchReceipt
<1>1. \A o \in DOMAIN ops : ops[o].receipts \in Seq(MessageReceipt) /\ ops[o].batch \in BatchReceipt \cup {None}
  <2>1. \A o \in DOMAIN ops : ops[o] \in Committed BY DEF RecorderInv, TypeOK, OpsTyped
  <2> QED BY <2>1 DEF Committed
<1>2. ASSUME NEW r \in Issued PROVE r \in MessageReceipt
  <2>1. PICK o \in DOMAIN ops : r \in Values(ops[o].receipts) BY DEF Issued
  <2>2. PICK i \in DOMAIN ops[o].receipts : r = ops[o].receipts[i] BY <2>1 DEF Values
  <2>3. ops[o].receipts \in Seq(MessageReceipt) BY <1>1
  <2> QED BY <2>2, <2>3
<1>3. IssuedBatches \subseteq BatchReceipt BY <1>1 DEF IssuedBatches
<1> QED BY <1>2, <1>3, Inputs

\* record_text_delta
LEMMA DeltaKeeps ==
    ASSUME RecorderInv, NEW who \in StepWho, NEW a \in Attempts, NEW text \in Texts, NEW op \in OpIds,
           NEW prev \in {None} \cup Issued \cup ForeignReceipts, RecordTextDelta(who, a, text, op, prev)
    PROVE  Keeps
<1> DEFINE payload == PayloadOf(text, <<>>, <<>>, a)
<1>1. PICK key : key = [who |-> who, attempt |-> a] OBVIOUS
<1>2. PICK id : id = TextId(key) OBVIOUS
<1> DEFINE content == DeltaContent(key, text)
<1>3. SUFFICES ASSUME Fresh(op), WriteText(key, content, KeyCalls(key)), UNCHANGED runStatus,
                      StoreOp(op, "text_delta", payload, who, prev, <<Receipt(id, who, op)>>, None)
               PROVE  Keeps
      BY <1>1, <1>2, RefusedKeeps DEF RecordTextDelta
<1>4. text \in Seq(Chunks) /\ text # None BY Inputs
<1>5. payload \in Payload /\ payload.text = text BY <1>4 DEF Payload, PayloadOf, Content
<1>6. KeyCalls(key) \in Seq(Calls) /\ id \in Nat BY <1>2, TextTyped
<1>7. content \in Content /\ Provenance(key, content, text)
  <2>1. CASE key \notin DOMAIN textIds \/ messages[textIds[key]].content = None
        BY <1>4, <2>1 DEF DeltaContent, Content, Provenance
  <2>2. CASE key \in DOMAIN textIds /\ messages[textIds[key]].content # None
    <3>1. PICK old : old = messages[textIds[key]].content OBVIOUS
    <3>2. old \in Seq(Chunks) BY <2>2, <3>1, TextTyped DEF Content
    <3>3. content = old \o text BY <2>2, <3>1 DEF DeltaContent
    <3>4. old \o text \in Seq(Chunks) BY <1>4, <3>2
    <3>5. ASSUME NEW c \in Values(old \o text) PROVE c \in Values(old) \/ c \in Values(text)
      <4>1. PICK i \in DOMAIN (old \o text) : c = (old \o text)[i] BY <3>5 DEF Values
      <4>2. i \in 1 .. Len(old) + Len(text) /\ Len(old) \in Nat /\ Len(text) \in Nat
            /\ DOMAIN old = 1 .. Len(old) /\ DOMAIN text = 1 .. Len(text)
            BY <4>1, <1>4, <3>2
      <4>3. CASE i <= Len(old)
        <5>1. c = old[i] /\ i \in DOMAIN old BY <4>1, <4>2, <4>3, <1>4, <3>2
        <5> QED BY <5>1 DEF Values
      <4>4. CASE i > Len(old)
        <5>1. c = text[i - Len(old)] /\ i - Len(old) \in DOMAIN text BY <4>1, <4>2, <4>4, <1>4, <3>2
        <5> QED BY <5>1 DEF Values
      <4> QED BY <4>2, <4>3, <4>4
    <3> HIDE DEF content
    <3> QED BY <2>2, <3>1, <3>3, <3>4, <3>5, <1>4 DEF Provenance, Content
  <2> QED BY <2>1, <2>2
<1>8. <<Receipt(id, who, op)>> \in Seq(MessageReceipt)
  <2>1. Receipt(id, who, op) \in MessageReceipt BY <1>6 DEF Receipt, MessageReceipt, StepWho, Who
  <2> QED BY <2>1
<1>9. prev \in MessageReceipt \cup {None} BY ReceiptsTyped
<1> HIDE DEF content, payload
<1> QED BY <1>1, <1>2, <1>3, <1>5, <1>6, <1>7, <1>8, <1>9, TextCommitKeeps DEF Textual

\* A text that is given replaces the message's, None keeps it.
LEMMA KeptTyped ==
    ASSUME RecorderInv, NEW key, NEW text \in Texts \cup {None}
    PROVE  KeptText(key, text) \in Content /\ Provenance(key, KeptText(key, text), text)
<1>1. text \in Content BY Inputs DEF Content
<1>2. KeptText(key, text) \in Content BY <1>1, TextTyped DEF KeptText
<1>3. Provenance(key, KeptText(key, text), text) BY DEF KeptText, Provenance
<1> QED BY <1>2, <1>3

\* record_text_final
LEMMA FinalKeeps ==
    ASSUME RecorderInv, NEW who \in StepWho, NEW a \in Attempts, NEW text \in Texts \cup {None},
           NEW calls \in Batches \cup {<<>>}, NEW op \in OpIds,
           NEW prev \in {None} \cup Issued \cup ForeignReceipts, RecordTextFinal(who, a, text, calls, op, prev)
    PROVE  Keeps
<1> DEFINE payload == PayloadOf(text, calls, <<>>, a)
<1>1. PICK key : key = [who |-> who, attempt |-> a] OBVIOUS
<1>2. PICK id : id = TextId(key) OBVIOUS
<1> DEFINE content == KeptText(key, text)
           kept == IF calls = <<>> THEN KeyCalls(key) ELSE calls
<1>3. SUFFICES ASSUME Fresh(op), WriteText(key, content, kept), UNCHANGED runStatus,
                      StoreOp(op, "text_final", payload, who, prev, <<Receipt(id, who, op)>>, None)
               PROVE  Keeps
      BY <1>1, <1>2, RefusedKeeps DEF RecordTextFinal
<1>4. calls \in Seq(Calls) /\ text \in Content
  <2>1. <<>> \in Seq(Calls) OBVIOUS
  <2> QED BY <2>1, Inputs DEF Content
<1>5. payload \in Payload /\ payload.text = text BY <1>4 DEF Payload, PayloadOf
<1>6. kept \in Seq(Calls) /\ id \in Nat BY <1>2, <1>4, TextTyped
<1>7. content \in Content /\ Provenance(key, content, text) BY KeptTyped
<1>8. <<Receipt(id, who, op)>> \in Seq(MessageReceipt)
  <2>1. Receipt(id, who, op) \in MessageReceipt BY <1>6 DEF Receipt, MessageReceipt, StepWho, Who
  <2> QED BY <2>1
<1>9. prev \in MessageReceipt \cup {None} BY ReceiptsTyped
<1> HIDE DEF content, payload, kept
<1> QED BY <1>1, <1>2, <1>3, <1>5, <1>6, <1>7, <1>8, <1>9, TextCommitKeeps DEF Textual

\* record_tool_calls
LEMMA CallsKeeps ==
    ASSUME RecorderInv, NEW who \in StepWho, NEW a \in Attempts, NEW text \in Texts \cup {None},
           NEW calls \in Batches, NEW op \in OpIds,
           NEW prev \in {None} \cup IssuedBatches \cup ForeignBatches, RecordToolCalls(who, a, text, calls, op, prev)
    PROVE  Keeps
<1> DEFINE payload == PayloadOf(text, calls, <<>>, 0)
<1>1. PICK key : key = [who |-> who, attempt |-> a] OBVIOUS
<1>2. PICK id : id = TextId(key) OBVIOUS
<1>3. calls \in Seq(Calls) /\ text \in Content BY Inputs DEF Content
<1>4. payload \in Payload /\ payload.text = text BY <1>3 DEF Payload, PayloadOf
<1>5. who \in Who BY DEF StepWho, Who
<1>6. prev \in BatchReceipt \cup {None} BY ReceiptsTyped
<1>7. ASSUME Fresh(op), UNCHANGED <<messages, order, textIds, version, runStatus, seq>>,
             StoreOp(op, "tool_calls", payload, who, prev, <<>>, UnrecordedBatch(who, op))
      PROVE  Keeps
  <2> DEFINE bat == UnrecordedBatch(who, op)
  <2>1. <<>> \in Seq(CallRecord) OBVIOUS
  <2>2. bat \in BatchReceipt BY <1>5, <2>1 DEF BatchReceipt, UnrecordedBatch
  <2>3. bat.op = op /\ bat.who = who /\ ~bat.required BY DEF UnrecordedBatch
  <2>4. runStatus' \in [Runs -> Status \cup {None}] BY <1>7 DEF RecorderInv, TypeOK
  <2> HIDE DEF bat, payload
  <2> QED BY <1>4, <1>5, <1>6, <1>7, <2>2, <2>3, <2>4, SilentKeeps DEF bat
<1>8. ASSUME Fresh(op), WriteText(key, KeptText(key, text), calls), UNCHANGED runStatus,
             StoreOp(op, "tool_calls", payload, who, prev, <<>>, BatchOf(who, op, calls, id))
      PROVE  Keeps
  <2> DEFINE bat == BatchOf(who, op, calls, id)
             records == [i \in DOMAIN calls |-> [call |-> calls[i], id |-> id]]
  <2>1. id \in Nat BY <1>2, TextTyped
  <2>2. records \in Seq(CallRecord)
    <3>1. Len(calls) \in Nat /\ DOMAIN calls = 1 .. Len(calls) /\ \A i \in DOMAIN calls : calls[i] \in Calls BY <1>3
    <3>2. \A i \in DOMAIN calls : [call |-> calls[i], id |-> id] \in CallRecord BY <2>1, <3>1 DEF CallRecord
    <3> QED BY <3>1, <3>2
  <2>3. bat \in BatchReceipt BY <1>5, <2>1, <2>2 DEF BatchReceipt, BatchOf
  <2>4. bat.op = op /\ bat.who = who /\ bat.message = id /\ bat.calls = records /\ bat.required
        BY DEF BatchOf
  <2>5. \A r \in Values(records) : r.id = id BY DEF Values
  <2>6. bat # None BY <2>3, Inputs
  <2>7. <<>> \in Seq(MessageReceipt) OBVIOUS
  <2>8. KeptText(key, text) \in Content /\ Provenance(key, KeptText(key, text), text) BY KeptTyped
  <2>9. StoreOp(op, "tool_calls", payload, who, prev, <<>>, bat) BY <1>8
  <2> HIDE DEF bat, records, payload
  <2> QED BY <1>1, <1>2, <1>3, <1>4, <1>6, <1>8, <2>3, <2>4, <2>5, <2>6, <2>7, <2>8, <2>9, TextCommitKeeps
<1> HIDE DEF payload
<1> QED BY <1>1, <1>2, <1>7, <1>8, RefusedKeeps DEF RecordToolCalls, payload

\* finalize_run
LEMMA FinalizeKeeps ==
    ASSUME RecorderInv, NEW r \in Runs, NEW s \in Finals, FinalizeRun(r, s)
    PROVE  Keeps
<1> DEFINE op == <<r, s>>
           payload == PayloadOf(None, <<>>, <<>>, 0)
<1>1. SUFFICES ASSUME Fresh(op), runStatus' = [runStatus EXCEPT ![r] = s],
                      UNCHANGED <<messages, order, textIds, version, seq>>,
                      StoreOp(op, "run_final", payload, FinalWho(r), None, <<>>, None)
               PROVE  Keeps
      BY RefusedKeeps DEF FinalizeRun
<1>2. s \in Status BY Inputs
<1>3. op \in FinalOps BY <1>2 DEF FinalOps
<1>4. FinalWho(r) \in Who BY DEF FinalWho, Who
<1>5. payload \in Payload
  <2>1. <<>> \in Seq(Calls) /\ <<>> \in Seq(Result) OBVIOUS
  <2> QED BY <2>1 DEF Payload, PayloadOf, Content
<1>6. runStatus' \in [Runs -> Status \cup {None}] BY <1>1, <1>2 DEF RecorderInv, TypeOK
<1> HIDE DEF op, payload
<1> QED BY <1>1, <1>3, <1>4, <1>5, <1>6, SilentKeeps

\* The failure injection.
LEMMA InjectKeeps == ASSUME RecorderInv, Inject PROVE Keeps
<1>1. PICK op \in OpIds \cup (Runs \X Finals) : InjectWriteFailure(op) BY DEF Inject
<1>2. op \in OpIds \cup FinalOps BY Inputs DEF FinalOps
<1>3. failOps' \subseteq OpIds \cup FinalOps BY <1>1, <1>2 DEF InjectWriteFailure, RecorderInv, TypeOK
<1>4. UNCHANGED facts /\ seq' \in Nat /\ seq <= seq' BY <1>1 DEF InjectWriteFailure, RecorderInv, TypeOK, StoreTyped
<1> QED BY <1>3, <1>4, UnchangedKeeps

\* record_tool_results
LEMMA ResultsKeeps ==
    ASSUME RecorderInv, NEW who \in StepWho, NEW results \in ResultLists, NEW op \in OpIds,
           NEW prev \in IssuedBatches \cup ForeignBatches, RecordToolResults(who, results, op, prev)
    PROVE  Keeps
<1> DEFINE payload == PayloadOf(None, <<>>, results, 0)
           t == who.target
           n == Len(results)
           receipts == [i \in DOMAIN results |-> Receipt(seq + i, who, op)]
           new == [m \in New(n) |-> ToolMessage(results[m - seq])]
<1>1. results \in Seq(Result) /\ n \in Nat /\ DOMAIN results = 1 .. n /\ t \in Targets /\ who \in Who
  <2>1. results \in Seq(Result) BY Inputs
  <2> QED BY <2>1 DEF StepWho, Who
<1>2. seq \in Nat BY DEF RecorderInv, TypeOK, StoreTyped
<1>3. CASE UNCHANGED facts /\ UNCHANGED <<failOps, seq>>
      BY <1>3, UnchangedKeeps, <1>2 DEF RecorderInv, TypeOK
<1>4. ASSUME NEW d \in 0 .. n, d < n, seq' = seq + d, AppendResults(t, Written(results, d)),
             UNCHANGED <<ops, failOps>>, UNCHANGED <<textIds, runStatus>>
      PROVE  Keeps
  <2>0. d # Len(results)
    <3>1. d < n /\ d \in Nat /\ n \in Nat BY <1>1, <1>4
    <3>2. d # n BY <3>1
    <3> QED BY <3>2
  <2>1. Written(results, d) = <<>> BY <2>0 DEF Written
  <2>2. ShapeInv BY DEF RecorderInv, TypeOK, StoreTyped, ShapeInv, IsMap
  <2>3. UNCHANGED <<messages, order, version>> BY <1>1, <1>4, <2>1, <2>2, NothingAppended
  <2>4. seq' \in Nat /\ seq <= seq' BY <1>1, <1>2, <1>4
  <2>5. failOps' \subseteq OpIds \cup FinalOps BY <1>4 DEF RecorderInv, TypeOK
  <2> QED BY <1>4, <2>3, <2>4, <2>5, UnchangedKeeps
<1>5. ASSUME Fresh(op), ResultsAccepted(who, prev), prev.required, Prepares(results, prev, n),
             seq' = seq + n, AppendResults(t, Written(results, n)), StoreOp(op, "tool_results", payload, who, prev, receipts, None),
             UNCHANGED <<textIds, runStatus>>
      PROVE  Keeps
  <2> DEFINE rec == Record("tool_results", payload, who, prev, receipts, None)
  <2>0. Unpaired(results, prev) = {} /\ AppendResults(t, results)
        BY <1>1, <1>5, AllPaired DEF Written
  <2>1. payload \in Payload
    <3>1. <<>> \in Seq(Calls) OBVIOUS
    <3> QED BY <1>1, <3>1 DEF Payload, PayloadOf, Content
  <2>2. receipts \in Seq(MessageReceipt)
    <3>1. \A i \in 1 .. n : Receipt(seq + i, who, op) \in MessageReceipt
          BY <1>1, <1>2 DEF Receipt, MessageReceipt
    <3> QED BY <1>1, <3>1
  <2>3. /\ DOMAIN receipts = 1 .. n
        /\ \A i \in 1 .. n : receipts[i].id = seq + i /\ receipts[i].op = op /\ receipts[i].who = who
        BY <1>1 DEF Receipt
  <2>4. prev \in BatchReceipt /\ prev # None BY ReceiptsTyped, Inputs
  <2>5. rec \in Committed BY <1>1, <2>1, <2>2, <2>4 DEF Committed, Record, Kinds
  <2>6. /\ rec.kind = "tool_results" /\ rec.who = who /\ rec.batch = None /\ rec.receipts = receipts
        /\ rec.prev = prev /\ rec.payload.results = results
        BY DEF Record, PayloadOf
  <2>7. GrowsBy(t, n, new) BY <1>1, <1>5, <2>0, ResultsGrow DEF RecorderInv, TypeOK
  <2>8. op \notin DOMAIN ops /\ ops' = Put(ops, op, rec) BY <1>5 DEF Fresh, StoreOp, Record
  <2>9. \A m \in New(n) : m - seq \in 1 .. n /\ seq + (m - seq) = m BY <1>1, <1>2 DEF New
  <2>10. \A i \in 1 .. n : seq + i \in New(n) /\ (seq + i) - seq = i BY <1>1, <1>2 DEF New
  <2>11. \A i \in 1 .. n : results[i] \in Result BY <1>1
  <2>12. \A m \in New(n) : new[m] \in Message
    <3>1. <<>> \in Seq(Calls) OBVIOUS
    <3>2. \A r \in Result : ToolMessage(r) \in Message BY <3>1 DEF Result, Message, ToolMessage, Content
    <3> QED BY <2>9, <2>11, <3>2
  <2>13. \A i \in 1 .. n : new[seq + i] = ToolMessage(results[i]) BY <2>10
  <2>14. \A m \in New(n) : new[m].role = "tool" BY DEF ToolMessage
  <2>15. \A i \in 1 .. n : /\ ToolMessage(results[i]).role = "tool"
                           /\ ToolMessage(results[i]).callId = results[i].call
                           /\ ToolMessage(results[i]).content = results[i].output
         BY DEF ToolMessage
  <2> HIDE DEF rec, receipts, new, payload
  <2>16. /\ DOMAIN messages' \subseteq 1 .. seq' /\ messages' \in [DOMAIN messages' -> Message]
         /\ order' \in [Targets -> Seq(Nat)] /\ seq' \in Nat /\ version' \in Nat
         /\ Histories' /\ Grows
         /\ DOMAIN messages' = DOMAIN messages \cup New(n)
         /\ \A m \in New(n) : m \notin DOMAIN messages /\ messages'[m] = new[m] /\ InHistory(t, m)'
         /\ \A m \in DOMAIN messages : messages'[m] = messages[m]
         BY <1>1, <2>7, <2>12, GrowthKeeps DEF RecorderInv, TypeOK, HistoryWellFormed, Histories
  <2>17. StoreTyped' BY <1>5, <2>16 DEF RecorderInv, TypeOK, StoreTyped
  <2>18. StoreInv' BY <1>5, <2>16, <2>17, AttemptsKept DEF StoreInv, RecorderInv, TypeOK
  <2>19. ops'[op] = rec /\ \A o \in DOMAIN ops : o \in DOMAIN ops' /\ ops'[o] = ops[o] BY <2>8 DEF Put
  <2>20. \A i \in 1 .. n : /\ receipts[i].id \in DOMAIN messages' /\ receipts[i].id \notin DOMAIN messages
                           /\ messages'[receipts[i].id].role = "tool"
                           /\ messages'[receipts[i].id].callId = results[i].call
                           /\ messages'[receipts[i].id].content = results[i].output
         BY <2>3, <2>10, <2>13, <2>15, <2>16
  <2>21. Resolves(op)'
    <3>1. \A i \in 1 .. n : \E j \in DOMAIN order'[t] : order'[t][j] = receipts[i].id
          BY <2>3, <2>10, <2>16 DEF InHistory
    <3>2. <<"tool_results", "tool">> \in Writes BY DEF Writes
    <3> QED BY <1>1, <2>3, <2>6, <2>19, <2>20, <3>1, <3>2 DEF Resolves, InHistory
  <2>22. Answers(op)'
    <3>1. prev.op \in DOMAIN ops /\ ops[prev.op].batch = prev /\ prev.who = who
          BY <1>5 DEF ResultsAccepted, BatchCommitted
    <3>2. prev.message \in DOMAIN messages
          BY <1>5, <2>4, <3>1 DEF RecorderInv, ReceiptsResolve, Resolves
    <3>3. prev.message \in 1 .. seq BY <3>2 DEF RecorderInv, TypeOK, StoreTyped
    <3>4. \A i \in 1 .. n : prev.message < receipts[i].id BY <1>1, <1>2, <2>3, <3>3
    <3>5. \A i \in 1 .. n : \E r \in Values(prev.calls) : r.call = results[i].call BY <1>1, <2>0 DEF Unpaired
    <3>6. prev.op \in DOMAIN ops' /\ ops'[prev.op].batch = prev BY <2>19, <3>1
    <3> QED BY <2>3, <2>4, <2>6, <2>19, <2>20, <3>1, <3>4, <3>5, <3>6 DEF Answers
  <2>23. ChunksFrom(rec)
    <3>1. \A m \in DOMAIN messages' : messages'[m].role = "assistant" =>
             m \in DOMAIN messages /\ messages'[m] = messages[m]
          BY <2>14, <2>16
    <3> QED BY <3>1 DEF ChunksFrom
  <2>24. \A i, j \in 1 .. n : receipts[i].id = receipts[j].id => i = j BY <1>1, <1>2, <2>3
  <2>25. GoodCommit(op, rec)
    <3>1. WholeBatch(op)' BY <1>1, <2>3, <2>6, <2>19, <2>20 DEF WholeBatch
    <3>2. NewNamed(rec)
      <4>1. \A m \in New(n) : \E i \in 1 .. n : receipts[i].id = m BY <2>3, <2>9
      <4> QED BY <4>1, <2>3, <2>6, <2>16 DEF NewNamed
    <3> QED BY <2>3, <2>5, <2>6, <2>8, <2>20, <2>21, <2>22, <2>23, <2>24, <3>1, <3>2 DEF GoodCommit
  <2>26. failOps' \subseteq OpIds \cup FinalOps /\ runStatus' \in [Runs -> Status \cup {None}]
         BY <1>5 DEF StoreOp, RecorderInv, TypeOK
  <2> QED BY <2>16, <2>18, <2>25, <2>26, CommitKeeps DEF Keeps
<1>6. SUFFICES ASSUME NEW d \in 0 .. n, Prepares(results, prev, d), seq' = seq + d,
                      AppendResults(t, Written(results, d)), Fresh(op), ResultsAccepted(who, prev), prev.required,
                      \/ d < n /\ UNCHANGED <<ops, failOps>>
                      \/ d = n /\ StoreOp(op, "tool_results", payload, who, prev, receipts, None),
                      UNCHANGED <<textIds, runStatus>>
               PROVE  Keeps
      BY <1>3, RefusedKeeps DEF RecordToolResults
<1> HIDE DEF payload, receipts, new, t, n
<1> QED BY <1>4, <1>5, <1>6

-----------------------------------------------------------------------------
(* The specification *)

\* Every step keeps the invariant and only grows the history.
LEMMA NextKeeps == RecorderInv /\ [Next]_vars => Keeps
<1> SUFFICES ASSUME RecorderInv, [Next]_vars PROVE Keeps OBVIOUS
<1>0. CASE UNCHANGED vars BY <1>0, UnchangedKeeps DEF RecorderInv, TypeOK, StoreTyped
<1>1. CASE Input BY <1>1, InputKeeps DEF Input
<1>2. CASE TextDelta BY <1>2, DeltaKeeps DEF TextDelta
<1>3. CASE TextFinal BY <1>3, FinalKeeps DEF TextFinal
<1>4. CASE ToolCalls BY <1>4, CallsKeeps DEF ToolCalls
<1>5. CASE ToolResults BY <1>5, ResultsKeeps DEF ToolResults
<1>6. CASE Finalize BY <1>6, FinalizeKeeps DEF Finalize
<1>7. CASE Inject BY <1>7, InjectKeeps
<1> QED BY <1>0, <1>1, <1>2, <1>3, <1>4, <1>5, <1>6, <1>7 DEF Next

\* An empty recorder satisfies the invariant.
LEMMA InitKeeps == Init => RecorderInv
<1> SUFFICES ASSUME Init PROVE RecorderInv OBVIOUS
<1>1. DOMAIN messages = {} /\ DOMAIN ops = {} /\ DOMAIN textIds = {} BY DEF Init
<1>2. messages \in [{} -> Message] /\ ops \in [{} -> Committed] /\ textIds \in [{} -> Nat] BY DEF Init
<1>3. \A t \in Targets : order[t] = <<>> /\ DOMAIN order[t] = {} BY DEF Init
<1>4. order \in [Targets -> Seq(Nat)] BY DEF Init
<1>5. TypeOK BY <1>1, <1>2, <1>4 DEF Init, TypeOK, StoreTyped, OpsTyped
<1>6. HistoryWellFormed
      BY <1>1, <1>3 DEF HistoryWellFormed, HistoryCommitted, HistoryOrdered, HistoryDisjoint, HistoryComplete, OneAuthor
<1> QED BY <1>1, <1>5, <1>6 DEF RecorderInv, AttemptsIsolated, ReceiptsResolve, ResultsFollowCalls,
                                TextIsCommitted, WritesAreWhole

\* The recorder's invariant holds in every reachable state.
THEOREM RecorderCorrect == Spec => []RecorderInv
<1>1. RecorderInv /\ [Next]_vars => RecorderInv' BY NextKeeps DEF Keeps
<1> QED BY <1>1, InitKeeps, PTL DEF Spec

\* The state of MemoryTranscript has its type.
THEOREM TypeCorrect == Spec => []TypeOK
<1>1. RecorderInv => TypeOK BY DEF RecorderInv
<1> QED BY <1>1, RecorderCorrect, PTL

\* snapshot(): the histories partition the committed messages, each in the order its
\* identities were drawn, and no input or result has two authors.
THEOREM HistoryCorrect == Spec => []HistoryWellFormed
<1>1. RecorderInv => HistoryWellFormed BY DEF RecorderInv
<1> QED BY <1>1, RecorderCorrect, PTL

\* _text_ids: no two attempts share a message, and each message is where it was written.
THEOREM AttemptsCorrect == Spec => []AttemptsIsolated
<1>1. RecorderInv => AttemptsIsolated BY DEF RecorderInv
<1> QED BY <1>1, RecorderCorrect, PTL

\* A receipt the recorder issued resolves for ever.
THEOREM ReceiptsCorrect == Spec => []ReceiptsResolve
<1>1. RecorderInv => ReceiptsResolve BY DEF RecorderInv
<1> QED BY <1>1, RecorderCorrect, PTL

\* record_tool_results: results answer a committed batch and stand after its message.
THEOREM ResultsCorrect == Spec => []ResultsFollowCalls
<1>1. RecorderInv => ResultsFollowCalls BY DEF RecorderInv
<1> QED BY <1>1, RecorderCorrect, PTL

\* The text methods: an assistant message says only what was committed to it.
THEOREM TextCorrect == Spec => []TextIsCommitted
<1>1. RecorderInv => TextIsCommitted BY DEF RecorderInv
<1> QED BY <1>1, RecorderCorrect, PTL

\* record_tool_results: every message belongs to an operation that was committed, and the
\* results of a committed batch are all there, whichever result of whichever batch was refused.
THEOREM WholeCorrect == Spec => []WritesAreWhole
<1>1. RecorderInv => WritesAreWhole BY DEF RecorderInv
<1> QED BY <1>1, RecorderCorrect, PTL

\* History is append-only, and only an attempt's own text is rewritten in place.
THEOREM AppendOnlyCorrect == Spec => HistoryAppendOnly
<1> DEFINE Step ==
        /\ \A t \in Targets :
              /\ Len(order[t]) <= Len(order'[t])
              /\ \A i \in DOMAIN order[t] : order'[t][i] = order[t][i]
        /\ \A t, u \in Targets : order'[t] # order[t] /\ order'[u] # order[u] => t = u
        /\ \A m \in DOMAIN messages :
              /\ m \in DOMAIN messages'
              /\ messages'[m].role = messages[m].role
              /\ messages[m].role # "assistant" => messages'[m] = messages[m]
<1>1. RecorderInv /\ [Next]_vars => [Step]_vars
      BY NextKeeps DEF Keeps, Grows, MessagesKept, HistoriesKept, OneHistory
<1> QED BY <1>1, RecorderCorrect, PTL DEF Spec, HistoryAppendOnly

=============================================================================
