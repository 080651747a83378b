------------------------------ MODULE ModelStream ------------------------------
(***************************************************************************)
(* One request of the three model clients (src/models/openai-client.ts,    *)
(* openai-chat-client.ts, anthropic-client.ts): the events a provider      *)
(* streams, their cutting into lines, the accumulator each client keeps    *)
(* and the response it builds.  The connection may end or break between    *)
(* any two reads.  A text or a list of arguments is the number of its      *)
(* fragments; a reasoning is one text, no two fragments of it alike, that  *)
(* comes before the text and the calls of its answer; the provider         *)
(* (external) finishes one call before it opens the next, and opens none   *)
(* after a call that was cut or after its final event.                     *)
(***************************************************************************)
EXTENDS Naturals, Sequences, SequencesExt, FiniteSets

CONSTANTS
  MaxText,       \* text fragments of an answer
  MaxCalls,      \* tool calls of an answer
  MaxFragments,  \* fragments of a call's arguments
  MaxReasoning   \* fragments of the reasoning

ASSUME StreamAssumption == {MaxText, MaxCalls, MaxFragments, MaxReasoning} \subseteq Nat

Clients == {"responses", "chat", "anthropic"}
StopReasons == {"stop", "length"}
NoEvent == [type |-> "none", call |-> 0]
NoReply == [kind |-> "none"]
Thrown == [kind |-> "thrown"]

VARIABLES
  client,    \* the client of the request, "blank" before it
  streamed,  \* request.stream
  provided,  \* what the provider has sent
  buffer,    \* the event whose last line has not ended
  acc,       \* OpenAIStreamState, StreamState, or the locals of streamComplete
  shown,     \* text fragments the callbacks have been given
  reader,    \* the lock on response.body
  reply      \* what complete() settles with

streamVars == <<client, streamed, provided, buffer, acc, shown, reader, reply>>

\* item: the output item of the reasoning in the Responses format; told: how often
\* the reasoning was told, all its deltas being one telling.
NothingProvided ==
  [text |-> 0, reasoning |-> 0, told |-> 0, item |-> "none", calls |-> <<>>, open |-> FALSE,
   stop |-> "none"]

\* createOpenAIStreamState
EmptyState ==
  [text |-> 0, reasoning |-> <<>>, calls |-> <<>>, pending |-> <<>>,
   stop |-> "none", usage |-> FALSE]

Current(p) == Len(p.calls)

StreamInit ==
  /\ client = "blank" /\ streamed = FALSE
  /\ provided = NothingProvided
  /\ buffer = NoEvent
  /\ acc = EmptyState
  /\ shown = 0
  /\ reader = "none"
  /\ reply = NoReply

-------------------------------------------------------------------------------
(* The response.                                                           *)

\* A call's arguments parse when all of them are there; what does not parse, an
\* empty string included, is passed on as { raw }.
Input(json, all) == IF json = all /\ all > 0 THEN "parsed" ELSE "raw"

AnswerCalls(calls) ==
  [i \in 1 .. Len(calls) |-> [call |-> calls[i].call,
     input |-> Input(calls[i].json, provided.calls[calls[i].call].total)]]

\* joinUnique: the whole, unless the last part repeats all the others.
JoinUnique(parts) ==
  LET combined == FlattenSeq(parts)
  IN IF Len(parts) > 1 /\ combined = Last(parts) \o Last(parts)
       THEN Last(parts) ELSE combined

\* shouldReturnReasoning with the default policy: a chat-compatible model always
\* returns it, the others when a call follows.
Returned(calls, parts) ==
  IF client = "chat" \/ calls # <<>> THEN JoinUnique(parts) ELSE <<>>

\* The call that is still pending is handed on as well.
ResponseWithPending(state) ==
  [kind |-> "response", text |-> state.text, calls |-> AnswerCalls(state.calls \o state.pending),
   reasoning |-> Returned(state.calls, state.reasoning),
   stop |-> state.stop, usage |-> state.usage]

\* streamResponseFromState: of the reasons to stop, only Anthropic's is kept.
ResponseOf(state) ==
  [kind |-> "response", text |-> state.text, calls |-> AnswerCalls(state.calls),
   reasoning |-> Returned(state.calls, state.reasoning),
   stop |-> state.stop, usage |-> state.usage]

-------------------------------------------------------------------------------
(* One event, once its line is complete.                                   *)

Counted(n) == [i \in 1 .. n |-> i]

\* A reasoning told in one piece, if it is there (parseReasoning).
Whole(n) == IF n > 0 THEN <<Counted(n)>> ELSE <<>>
AddWhole(state, n) == [state EXCEPT !.reasoning = @ \o Whole(n)]

StartCall(state, call) ==
  IF client = "responses" THEN [state EXCEPT !.pending = <<[call |-> call, json |-> 0]>>]
  ELSE [state EXCEPT !.calls = Append(@, [call |-> call, json |-> 0])]

\* The Responses client adds a delta to the one pending call, the others look
\* the call up by its index.
Longer(state) == [state EXCEPT !.json = @ + 1]
AddArguments(state, call) ==
  IF client = "responses"
    THEN [state EXCEPT !.pending = [i \in DOMAIN @ |-> Longer(@[i])]]
    ELSE [state EXCEPT !.calls =
            [i \in DOMAIN @ |-> IF @[i].call = call THEN Longer(@[i]) ELSE @[i]]]

\* output_item.done pushes what is pending; the other formats send no such event
\* or ignore it.
FinishCall(state) ==
  IF client = "responses" THEN [state EXCEPT !.calls = @ \o state.pending, !.pending = <<>>]
  ELSE state

\* response.completed tells the reasoning again; response.incomplete, with which the
\* Responses format ends an answer it cut, is not looked at.
Final(state, event) ==
  IF client = "responses" /\ event.type = "length" THEN state
  ELSE [AddWhole(state, event.call) EXCEPT
          !.usage = TRUE, !.stop = IF client = "anthropic" THEN event.type ELSE @]

Processed(state, event) ==
  CASE event.type = "text"      -> [state EXCEPT !.text = @ + 1]
    [] event.type = "reasoning" -> [state EXCEPT !.reasoning = Append(@, <<event.call>>)]
    [] event.type = "added"     -> AddWhole(state, event.call)
    [] event.type = "done"      -> AddWhole(FinishCall(state), event.call)
    [] event.type = "open"      -> StartCall(state, event.call)
    [] event.type = "args"      -> AddArguments(state, event.call)
    [] event.type = "close"     -> FinishCall(state)
    [] event.type \in StopReasons -> Final(state, event)
    [] OTHER -> state

-------------------------------------------------------------------------------
(* The provider (external): what it may send next.                         *)

Finished == provided.stop # "none"

Send(type, call, sent) ==
  /\ reader = "locked" /\ buffer = NoEvent /\ ~Finished
  /\ provided' = sent
  /\ buffer' = [type |-> type, call |-> call]
  /\ UNCHANGED <<client, streamed, acc, shown, reader, reply>>

\* The reasoning comes first, as an output item or without one.
Thinking == provided.text = 0 /\ provided.calls = <<>>
ThoughtEnded == provided.item \in {"none", "done"}

\* What may be told in one piece: nothing, all there was, or all there is.
Wholes == IF provided.reasoning = 0 THEN 0 .. MaxReasoning ELSE {0, provided.reasoning}
Retold(n) == IF n = 0 THEN provided ELSE [provided EXCEPT !.reasoning = n, !.told = @ + 1]

SendReasoning ==
  /\ Thinking /\ provided.item \in {"none", "open"} /\ provided.reasoning < MaxReasoning
  /\ Send("reasoning", provided.reasoning + 1,
          [provided EXCEPT !.reasoning = @ + 1, !.told = 1])

\* output_item.added of a reasoning: complete, or to be followed by its deltas.
SendItemAdded ==
  /\ client = "responses" /\ Thinking /\ provided.item = "none" /\ provided.reasoning = 0
  /\ \E n \in Wholes :
       Send("added", n, [Retold(n) EXCEPT !.item = IF n = 0 THEN "open" ELSE "whole"])

SendItemDone ==
  /\ provided.item \in {"open", "whole"}
  /\ \E n \in Wholes : Send("done", n, [Retold(n) EXCEPT !.item = "done"])

SendText ==
  /\ ThoughtEnded /\ provided.calls = <<>> /\ provided.text < MaxText
  /\ Send("text", 0, [provided EXCEPT !.text = @ + 1])

\* No call of the answer is cut.
CallsComplete == \A i \in DOMAIN provided.calls : provided.calls[i].sent = provided.calls[i].total

SendOpen ==
  /\ ThoughtEnded /\ ~provided.open /\ CallsComplete /\ Current(provided) < MaxCalls
  /\ \E total \in 0 .. MaxFragments :
       Send("open", Current(provided) + 1,
            [provided EXCEPT !.calls = Append(@, [sent |-> 0, total |-> total]),
                             !.open = TRUE])

SendArguments ==
  /\ provided.open /\ Last(provided.calls).sent < Last(provided.calls).total
  /\ Send("args", Current(provided),
          [provided EXCEPT !.calls[Current(provided)].sent = @ + 1])

\* A call is also closed when the answer is cut inside its arguments.
SendClose == provided.open /\ Send("close", Current(provided), [provided EXCEPT !.open = FALSE])

\* The end of the answer, or the limit of its length, which may cut it anywhere.
SendFinal ==
  \/ /\ ThoughtEnded /\ ~provided.open /\ CallsComplete
     /\ \E n \in IF client = "responses" THEN Wholes ELSE {0} :
          Send("stop", n, [Retold(n) EXCEPT !.stop = "stop"])
  \/ Send("length", 0, [provided EXCEPT !.stop = "length"])

SendError == Send("error", 0, provided)

Provider == SendReasoning \/ SendItemAdded \/ SendItemDone \/ SendText \/ SendOpen
            \/ SendArguments \/ SendClose \/ SendFinal \/ SendError

-------------------------------------------------------------------------------
(* The client.                                                             *)

(* complete(): no key, or a status that is not ok, throws before the body  *)
(* is read.                                                                *)
StartStream(c) ==
  /\ client = "blank"
  /\ client' = c /\ streamed' = TRUE
  /\ \/ reader' = "locked" /\ UNCHANGED reply
     \/ reply' = Thrown /\ UNCHANGED reader
  /\ UNCHANGED <<provided, buffer, acc, shown>>

(* The answer in one piece: the parsers of a whole response, which keep    *)
(* the reason to stop of the chat format and of Anthropic's.               *)
CompleteWhole(c) ==
  /\ client = "blank"
  /\ client' = c /\ streamed' = FALSE
  /\ \/ \E text \in 0 .. MaxText, args \in SeqOf(0 .. MaxFragments, MaxCalls), stop \in StopReasons :
          /\ provided' = [NothingProvided EXCEPT !.text = text, !.stop = stop,
               !.calls = [i \in 1 .. Len(args) |-> [sent |-> args[i], total |-> args[i]]]]
          /\ reply' = [kind |-> "response", text |-> text, reasoning |-> <<>>, usage |-> TRUE,
                       calls |-> [i \in 1 .. Len(args) |-> [call |-> i, input |->
                         IF c = "anthropic" THEN "parsed" ELSE Input(args[i], args[i])]],
                       stop |-> IF c = "responses" THEN "none" ELSE stop]
     \/ reply' = Thrown /\ UNCHANGED provided
  /\ UNCHANGED <<buffer, acc, shown, reader>>

Release(result) ==
  /\ reader' = "released"
  /\ reply' = result
  /\ UNCHANGED <<client, streamed, provided, acc, shown>>

(* The last line of the event arrives with a read.  An event of type       *)
(* "error" throws in the Anthropic client; the others ignore it.           *)
LineEnds ==
  /\ reader = "locked" /\ buffer # NoEvent
  /\ ~(buffer.type = "error" /\ client = "anthropic")
  /\ acc' = Processed(acc, buffer)
  /\ shown' = IF buffer.type = "text" THEN shown + 1 ELSE shown
  /\ buffer' = NoEvent
  /\ UNCHANGED <<client, streamed, provided, reader, reply>>

ErrorEvent ==
  /\ reader = "locked" /\ buffer.type = "error" /\ client = "anthropic"
  /\ Release(Thrown) /\ buffer' = NoEvent

\* done: whatever is left in the buffer is not looked at.
StreamEnds == reader = "locked" /\ Release(ResponseOf(acc)) /\ UNCHANGED buffer

\* reader.read() rejects: the connection broke, or the signal was aborted.
StreamBreaks == reader = "locked" /\ Release(Thrown) /\ UNCHANGED buffer

Reading == LineEnds \/ ErrorEvent

StreamNext ==
  \/ \E c \in Clients : StartStream(c) \/ CompleteWhole(c)
  \/ Provider \/ Reading \/ StreamEnds \/ StreamBreaks

StreamSpec == StreamInit /\ [][StreamNext]_streamVars

-------------------------------------------------------------------------------
Replied == reply.kind = "response"

StreamTypeOK ==
  /\ client \in Clients \cup {"blank"}
  /\ streamed \in BOOLEAN
  /\ provided.stop \in StopReasons \cup {"none"}
  /\ reader \in {"none", "locked", "released"}
  /\ reply.kind \in {"none", "response", "thrown"}
  /\ Len(acc.pending) <= 1
  /\ client = "blank" => reply = NoReply

\* An answer whose end was heard is whole: all the text, every call once and in
\* the order it was made, and the arguments of a call are parsed when all of them
\* came and there are any; whatever the format, and wherever the lines were cut.
HeardIsWhole ==
  Replied /\ reply.usage =>
    /\ reply.text = provided.text
    /\ [i \in DOMAIN reply.calls |-> reply.calls[i].call] = [i \in DOMAIN provided.calls |-> i]
    /\ \A i \in DOMAIN reply.calls :
         provided.calls[i].sent = provided.calls[i].total /\ provided.calls[i].total > 0
           => reply.calls[i].input = "parsed"

\* An answer that ends in the middle of a call, because the connection ended or the
\* limit of its length was reached, never gives a tool half its arguments as if
\* they were all; and the Responses client leaves a call that is still open out.
CutCallsMarked ==
  Replied =>
    \A i \in DOMAIN reply.calls :
      LET sent == provided.calls[reply.calls[i].call]
      IN /\ sent.sent < sent.total => reply.calls[i].input = "raw"
         /\ provided.open /\ client = "responses" => reply.calls[i].call # Current(provided)

\* What the callbacks have shown is the text of the answer, never more or less.
ShownIsAnswer == Replied /\ streamed => shown = reply.text

\* The reasoning of an answer is what the provider told, from its start, and once,
\* although the Responses format tells it in its deltas, with its output item and
\* again with the final event: two tellings are told apart (joinUnique).  The third
\* is not: of a provider that tells it all three ways the client makes one reasoning
\* three times over.
ReasoningTold ==
  Replied /\ reply.reasoning # <<>> =>
    \E n \in 1 .. provided.reasoning :
      \/ reply.reasoning = Counted(n)
      \/ /\ client = "responses" /\ provided.told = 3
         /\ reply.reasoning = Counted(n) \o Counted(n) \o Counted(n)

\* What a model client of src/models returns is what the provider sent, as far as
\* it was heard.
StreamHeard == StreamTypeOK /\ HeardIsWhole /\ CutCallsMarked /\ ShownIsAnswer /\ ReasoningTold

===============================================================================
