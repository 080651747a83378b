-------------------------- MODULE ConversationProofs --------------------------
(***************************************************************************)
(* Proofs that a conversation pairs every tool call with its result.       *)
(* Paired and Sendable are not inductive: nothing in them says that the    *)
(* calls still outstanding are those of the last assistant message.  The   *)
(* invariant Placed says where the results stand in every state.           *)
(***************************************************************************)
EXTENDS Conversation, TLAPS

\* How far the results of the assistant message i have got: all of them are
\* there, or it is the last message asked and the first `answered` are.
Reach(i) ==
  \/ i + Len(entries[i].calls) <= Len(entries)
  \/ entries[i].calls = asked /\ i + answered = Len(entries)

Placed == Paired /\ \A i \in DOMAIN entries : IsAsk(i) => Reach(i)

\* Nothing but entries, sequences of calls and the index of a result ever
\* stands in the state of a conversation.
THEOREM ConversationTyped == ConversationSpec => []ConversationTypeOK
<1>1. ConversationInit => ConversationTypeOK
  BY DEF ConversationInit, ConversationTypeOK, Entry, Kinds, System, User
<1>2. ConversationTypeOK /\ [ConversationNext]_conversationVars => ConversationTypeOK'
  <2> SUFFICES ASSUME ConversationTypeOK, [ConversationNext]_conversationVars
               PROVE  ConversationTypeOK'
    OBVIOUS
  <2> USE DEF ConversationTypeOK
  <2>1. CASE Interject(User)
    BY <2>1 DEF Interject, User, Entry, Kinds
  <2>2. CASE Interject(Summary)
    BY <2>2 DEF Interject, Summary, Entry, Kinds
  <2>3. CASE Answer
    <3>1. asked' \in Seq(Calls) /\ answered' = 0
      BY <2>3 DEF Answer
    <3>2. Assistant(asked') \in Entry
      BY <3>1 DEF Assistant, Entry, Kinds
    <3>3. entries' = Append(entries, Assistant(asked')) \/ entries' = entries
      BY <2>3 DEF Answer
    <3>4. entries' \in Seq(Entry)
      BY <3>2, <3>3
    <3>5. QED
      BY <3>1, <3>4
  <2>4. CASE Report
    BY <2>4 DEF Report, Result, Entry, Kinds
  <2>5. CASE UNCHANGED conversationVars
    BY <2>5 DEF conversationVars
  <2>6. QED
    BY <2>1, <2>2, <2>3, <2>4, <2>5 DEF ConversationNext
<1>3. QED
  BY <1>1, <1>2, PTL DEF ConversationSpec

\* An entry appended when all calls are answered leaves every call where it
\* was and its result in place; a new assistant message awaits its first one.
LEMMA AppendKeepsPlaced ==
  ASSUME ConversationTypeOK, ConversationTypeOK', Placed, AllAnswered,
         NEW e \in Entry, entries' = Append(entries, e),
         e.kind = "assistant" => e.calls = asked' /\ answered' = 0
  PROVE  Placed'
<1>1. /\ Len(entries') = Len(entries) + 1
      /\ \A i \in DOMAIN entries : i \in DOMAIN entries' /\ entries'[i] = entries[i]
      /\ entries'[Len(entries) + 1] = e
      /\ DOMAIN entries = 1 .. Len(entries)
      /\ DOMAIN entries' = 1 .. Len(entries) + 1
      /\ Len(entries) \in Nat
  BY DEF ConversationTypeOK
<1>2. ASSUME NEW i \in DOMAIN entries, IsAsk(i)
      PROVE  i + Len(entries[i].calls) <= Len(entries)
  BY <1>1, <1>2 DEF Placed, Reach, AllAnswered, ConversationTypeOK
<1>3. ASSUME NEW i \in DOMAIN entries', IsAsk(i)'
      PROVE  Reach(i)' /\ \A k \in DOMAIN entries'[i].calls :
                             i + k \in DOMAIN entries' => AnsweredInPlace(i, k)'
  <2>1. entries'[i].calls \in Seq(Calls)
    <3>1. entries' \in Seq(Entry)
      BY DEF ConversationTypeOK
    <3>2. entries'[i] \in Entry
      BY <3>1
    <3>3. QED
      BY <3>2 DEF Entry
  <2>2. CASE i \in DOMAIN entries
    <3>1. IsAsk(i) /\ entries'[i].calls = entries[i].calls
      BY <1>1, <1>3, <2>2 DEF IsAsk
    <3>2. Reach(i)'
      BY <1>1, <1>2, <2>2, <3>1 DEF Reach
    <3>3. ASSUME NEW k \in DOMAIN entries'[i].calls
          PROVE  AnsweredInPlace(i, k)'
      <4>1. k \in 1 .. Len(entries[i].calls) /\ k \in DOMAIN entries[i].calls
        BY <2>1, <3>1
      <4>2. i + k \in DOMAIN entries
        BY <1>1, <1>2, <2>1, <2>2, <3>1, <4>1
      <4>3. AnsweredInPlace(i, k)
        BY <2>2, <3>1, <4>1, <4>2 DEF Placed, Paired
      <4>4. QED
        BY <1>1, <2>2, <3>1, <4>2, <4>3 DEF AnsweredInPlace
    <3>4. QED
      BY <3>2, <3>3
  <2>3. CASE i = Len(entries) + 1
    <3>1. entries'[i].calls = asked' /\ answered' = 0
      BY <1>1, <1>3, <2>3 DEF IsAsk
    <3>2. i + answered' = Len(entries')
      BY <1>1, <2>3, <3>1
    <3>3. Reach(i)'
      BY <3>1, <3>2 DEF Reach
    <3>4. ASSUME NEW k \in DOMAIN entries'[i].calls
          PROVE  i + k \notin DOMAIN entries'
      BY <1>1, <2>1, <2>3
    <3>5. QED
      BY <3>3, <3>4
  <2>4. QED
    BY <1>1, <1>3, <2>2, <2>3
<1>4. QED
  BY <1>3 DEF Placed, Paired, IsAsk

\* The next result goes right behind those of the same message.
LEMMA ReportKeepsPlaced ==
  ASSUME ConversationTypeOK, ConversationTypeOK', Placed, Report
  PROVE  Placed'
<1> DEFINE r == Result(asked[answered + 1])
<1>1. /\ Len(entries') = Len(entries) + 1
      /\ \A i \in DOMAIN entries : i \in DOMAIN entries' /\ entries'[i] = entries[i]
      /\ entries'[Len(entries) + 1] = r
      /\ DOMAIN entries = 1 .. Len(entries)
      /\ DOMAIN entries' = 1 .. Len(entries) + 1
      /\ Len(entries) \in Nat
  BY DEF ConversationTypeOK, Report
<1>2. /\ asked' = asked
      /\ answered' = answered + 1
      /\ answered \in Nat
      /\ answered < Len(asked)
  BY DEF ConversationTypeOK, Report
<1>3. ASSUME NEW i \in DOMAIN entries', IsAsk(i)'
      PROVE  i \in DOMAIN entries /\ IsAsk(i) /\ entries'[i] = entries[i]
  BY <1>1, <1>3 DEF IsAsk, Result
<1>4. ASSUME NEW i \in DOMAIN entries', IsAsk(i)'
      PROVE  Reach(i)' /\ \A k \in DOMAIN entries'[i].calls :
                             i + k \in DOMAIN entries' => AnsweredInPlace(i, k)'
  <2>1. entries[i].calls \in Seq(Calls) /\ i \in Nat
    <3>1. entries \in Seq(Entry) /\ i \in 1 .. Len(entries)
      BY <1>1, <1>3, <1>4 DEF ConversationTypeOK
    <3>2. entries[i] \in Entry
      BY <3>1
    <3>3. QED
      BY <3>1, <3>2 DEF Entry
  <2>2. Reach(i)
    BY <1>3, <1>4 DEF Placed
  <2>3. Reach(i)'
    <3>1. CASE i + Len(entries[i].calls) <= Len(entries)
      BY <1>1, <1>3, <1>4, <2>1, <3>1 DEF Reach
    <3>2. CASE entries[i].calls = asked /\ i + answered = Len(entries)
      <4>1. entries'[i].calls = asked'
        BY <1>2, <1>3, <1>4, <3>2
      <4>2. answered' = answered + 1 /\ Len(entries') = Len(entries) + 1
        BY <1>1, <1>2
      <4>3. i \in Nat /\ answered \in Nat /\ i + answered = Len(entries)
        BY <1>2, <2>1, <3>2
      <4>4. i + answered' = Len(entries')
        BY <4>2, <4>3
      <4>5. QED
        BY <4>1, <4>4 DEF Reach
    <3>3. QED
      BY <2>2, <3>1, <3>2 DEF Reach
  <2>4. ASSUME NEW k \in DOMAIN entries'[i].calls, i + k \in DOMAIN entries'
        PROVE  AnsweredInPlace(i, k)'
    <3>1. k \in 1 .. Len(entries[i].calls) /\ k \in DOMAIN entries[i].calls
      BY <1>3, <1>4, <2>1
    <3>2. CASE i + k \in DOMAIN entries
      <4>1. AnsweredInPlace(i, k)
        BY <1>3, <1>4, <3>1, <3>2 DEF Placed, Paired
      <4>2. QED
        BY <1>1, <1>3, <1>4, <2>4, <3>2, <4>1 DEF AnsweredInPlace
    <3>3. CASE i + k \notin DOMAIN entries
      <4>1. i + k = Len(entries) + 1
        BY <1>1, <2>1, <2>4, <3>1, <3>3
      <4>2. entries[i].calls = asked /\ i + answered = Len(entries)
        BY <1>1, <2>1, <2>2, <3>1, <4>1 DEF Reach
      <4>3. k = answered + 1
        BY <1>1, <1>2, <2>1, <3>1, <4>1, <4>2
      <4>4. entries'[i + k] = Result(entries'[i].calls[k])
        BY <1>1, <1>3, <1>4, <4>1, <4>2, <4>3
      <4>5. QED
        BY <2>4, <4>4 DEF AnsweredInPlace
    <3>4. QED
      BY <3>2, <3>3
  <2>5. QED
    BY <2>3, <2>4
<1>5. QED
  BY <1>4 DEF Placed, Paired, IsAsk

\* Every tool result of a conversation stands where it was asked for.
THEOREM ConversationPlaced == ConversationSpec => []Placed
<1>1. ConversationInit => Placed
  BY DEF ConversationInit, Placed, Paired, IsAsk, System, User
<1>2. ASSUME ConversationTypeOK, ConversationTypeOK', Placed,
             [ConversationNext]_conversationVars
      PROVE  Placed'
  <2>1. User \in Entry /\ Summary \in Entry
    BY DEF User, Summary, Entry, Kinds
  <2>2. CASE Interject(User)
    BY <1>2, <2>1, <2>2, AppendKeepsPlaced DEF Interject, User
  <2>3. CASE Interject(Summary)
    BY <1>2, <2>1, <2>3, AppendKeepsPlaced DEF Interject, Summary
  <2>4. CASE Answer
    <3>1. AllAnswered /\ asked' \in Seq(Calls) /\ answered' = 0
      BY <2>4 DEF Answer
    <3>2. CASE entries' = Append(entries, Assistant(asked'))
      <4>1. Assistant(asked') \in Entry /\ Assistant(asked').calls = asked'
        BY <3>1 DEF Assistant, Entry, Kinds
      <4>2. QED
        BY <1>2, <3>1, <3>2, <4>1, AppendKeepsPlaced
    <3>3. CASE asked' = <<>> /\ UNCHANGED entries
      <4>1. ASSUME NEW i \in DOMAIN entries, IsAsk(i)
            PROVE  i + Len(entries[i].calls) <= Len(entries)
        BY <1>2, <3>1, <4>1 DEF Placed, Reach, AllAnswered, ConversationTypeOK
      <4>2. QED
        BY <1>2, <3>3, <4>1 DEF Placed, Paired, Reach, IsAsk, AnsweredInPlace
    <3>4. QED
      BY <2>4, <3>2, <3>3 DEF Answer
  <2>5. CASE Report
    BY <1>2, <2>5, ReportKeepsPlaced
  <2>6. CASE UNCHANGED conversationVars
    BY <1>2, <2>6 DEF conversationVars, Placed, Paired, Reach, IsAsk, AnsweredInPlace
  <2>7. QED
    BY <1>2, <2>2, <2>3, <2>4, <2>5, <2>6 DEF ConversationNext
<1>3. QED
  BY <1>1, <1>2, ConversationTyped, PTL DEF ConversationSpec

\* With nothing outstanding, every call asked for is answered in its place.
LEMMA PlacedIsSendable ==
  ASSUME ConversationTypeOK, Placed
  PROVE  Sendable
<1> SUFFICES ASSUME AllAnswered, NEW i \in DOMAIN entries, IsAsk(i),
                    NEW k \in DOMAIN entries[i].calls
             PROVE  AnsweredInPlace(i, k)
  BY DEF Sendable
<1>1. /\ DOMAIN entries = 1 .. Len(entries)
      /\ Len(entries) \in Nat
      /\ entries[i].calls \in Seq(Calls)
  <2>1. entries \in Seq(Entry)
    BY DEF ConversationTypeOK
  <2>2. entries[i] \in Entry
    BY <2>1
  <2>3. QED
    BY <2>1, <2>2 DEF Entry
<1>2. i + Len(entries[i].calls) <= Len(entries)
  BY <1>1 DEF Placed, Reach, AllAnswered, ConversationTypeOK
<1>3. i + k \in DOMAIN entries
  BY <1>1, <1>2
<1>4. QED
  BY <1>3 DEF Placed, Paired

\* In every conversation, as far as a transcript goes beyond an assistant
\* message it goes on with the results of that message's calls, and whenever
\* nothing is outstanding the transcript answers every call in its place.
THEOREM ConversationCorrect == ConversationSpec => [](Paired /\ Sendable)
<1>1. ConversationTypeOK /\ Placed => Paired /\ Sendable
  BY PlacedIsSendable DEF Placed
<1>2. QED
  BY <1>1, ConversationTyped, ConversationPlaced, PTL
===============================================================================
