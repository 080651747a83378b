----------------------------- MODULE Conversation -----------------------------
(***************************************************************************)
(* What a session's transcript promises to a model provider: every tool    *)
(* call of an assistant message is followed at once by its result, in the  *)
(* order the calls were asked, before anybody else speaks.  A run may stop *)
(* anywhere; then the last assistant message is left with calls that have  *)
(* no result.  The agent loop implements this specification.               *)
(***************************************************************************)
EXTENDS Naturals, Sequences

CONSTANT Calls   \* ids of the tool calls the model can ask for

VARIABLES
  entries,   \* session.entries
  asked,     \* the calls of the last answer of the model
  answered   \* how many of them have their result in the transcript

conversationVars == <<entries, asked, answered>>

Kinds == {"system", "user", "assistant", "tool_result", "compaction"}
Entry == [kind: Kinds, calls: Seq(Calls)]

System           == [kind |-> "system", calls |-> <<>>]
User             == [kind |-> "user", calls |-> <<>>]
Summary          == [kind |-> "compaction", calls |-> <<>>]
Assistant(calls) == [kind |-> "assistant", calls |-> calls]
Result(c)        == [kind |-> "tool_result", calls |-> <<c>>]

(* Type correctness of a conversation.                                     *)
ConversationTypeOK ==
  /\ entries \in Seq(Entry)
  /\ asked \in Seq(Calls)
  /\ answered \in 0 .. Len(asked)

ConversationInit ==
  /\ entries = <<System, User>>
  /\ asked = <<>>
  /\ answered = 0

AllAnswered == answered = Len(asked)

\* A follow-up of the user, or the summary of a compaction.
Interject(entry) ==
  /\ AllAnswered
  /\ entries' = Append(entries, entry)
  /\ UNCHANGED <<asked, answered>>

\* The model answers; an answer with neither text nor calls leaves no entry.
Answer ==
  /\ AllAnswered
  /\ asked' \in Seq(Calls)
  /\ answered' = 0
  /\ \/ entries' = Append(entries, Assistant(asked'))
     \/ asked' = <<>> /\ UNCHANGED entries

Report ==
  /\ answered < Len(asked)
  /\ entries' = Append(entries, Result(asked[answered + 1]))
  /\ answered' = answered + 1
  /\ UNCHANGED asked

ConversationNext ==
  \/ Interject(User)
  \/ Interject(Summary)
  \/ Answer
  \/ Report

ConversationSpec == ConversationInit /\ [][ConversationNext]_conversationVars

-------------------------------------------------------------------------------
IsAsk(i) == i \in DOMAIN entries /\ entries[i].kind = "assistant"

\* The k-th call of entry i is answered where it must be.
AnsweredInPlace(i, k) ==
  /\ i + k \in DOMAIN entries
  /\ entries[i + k] = Result(entries[i].calls[k])

(* As far as a transcript goes beyond an assistant message, it goes on with *)
(* the results of that message's calls, in their order.                     *)
Paired ==
  \A i \in DOMAIN entries :
    IsAsk(i) => \A k \in DOMAIN entries[i].calls :
                  i + k \in DOMAIN entries => AnsweredInPlace(i, k)

(* A transcript with nothing outstanding answers every call: it can be sent *)
(* to a model provider as it is.                                            *)
Sendable ==
  AllAnswered =>
    \A i \in DOMAIN entries :
      IsAsk(i) => \A k \in DOMAIN entries[i].calls : AnsweredInPlace(i, k)
===============================================================================
