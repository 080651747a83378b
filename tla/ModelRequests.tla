----------------------------- MODULE ModelRequests -----------------------------
(***************************************************************************)
(* The bodies the three model clients build of a request                   *)
(* (src/models/openai-client.ts, openai-chat-client.ts,                    *)
(* anthropic-client.ts, reasoning.ts, cache.ts): how the messages of a     *)
(* session, its tools, its reasoning level and its cache retention become  *)
(* what a provider is sent.  A request is one of the agent loop, behind    *)
(* the skill listing of src/skills/skill-tool.ts, or one of the side       *)
(* requests (compaction, memory extraction, judge), which bring a system   *)
(* prompt of their own.  A text is what it tells; the three formats share  *)
(* one shape of body, a list of items that hold parts.                     *)
(***************************************************************************)
EXTENDS Naturals, Sequences, SequencesExt, FiniteSets

CONSTANTS
  CallIds,      \* ids of tool calls
  MaxMessages,  \* bound: messages of a session
  MaxTools,     \* bound: tools of a request
  Default       \* an option that is not set

RequestFormats    == {"responses", "chat", "anthropic"}
Styles     == {"openai-responses", "deepseek", "anthropic", "chat-compatible"}
Levels     == {"off", "low", "xhigh"}
Retentions == {"none", "short", "long"}
RequestPurposes   == {"main", "compaction"}

ASSUME RequestsAssumption ==
  /\ {MaxMessages, MaxTools} \subseteq Nat
  /\ Default \notin Styles \cup Retentions \cup {"off"}

VARIABLES
  reqStage,  \* "blank", "dialogue", "prepared", "built"
  dialogue,  \* session.messages
  setup,     \* the model's format and options, where it is served from
  request,   \* the ModelRequest
  body       \* what the client sends

reqVars == <<reqStage, dialogue, setup, request, body>>

(* ModelMessage; "tells" is what a system prompt holds.                    *)
Message ==
  [role: {"system", "user", "assistant", "tool"}, text: BOOLEAN, thought: BOOLEAN,
   calls: BoundedSeq(CallIds, 2), answers: SUBSET CallIds, cache: BOOLEAN,
   tells: SUBSET {"agent", "skills", "task"}]

Said(role) ==
  [role |-> role, text |-> TRUE, thought |-> FALSE, calls |-> <<>>, answers |-> {},
   cache |-> FALSE, tells |-> {}]
System(tells) == [Said("system") EXCEPT !.tells = tells]
AnswerWith(text, thought, calls) ==
  [Said("assistant") EXCEPT !.text = text, !.thought = thought, !.calls = calls]

NoRequest == [purpose |-> "none", messages |-> <<>>, tools |-> 0]
NoBody == [instructions |-> {}, items |-> <<>>, marks |-> 0, effort |-> "none"]

NoSetup ==
  [format |-> "responses", style |-> Default, level |-> "off", mode |-> Default,
   retention |-> Default, official |-> FALSE]
\* Retention is told apart where a prompt is cached by marks in the body.
Setups ==
  {s \in [format: RequestFormats, style: Styles \cup {Default}, level: Levels, mode: {"off", Default},
          retention: Retentions \cup {Default}, official: BOOLEAN] :
     /\ s.format # "anthropic" => s.retention = Default /\ ~s.official
     /\ s.mode = "off" => s.level = "xhigh"}

ReqBlank ==
  /\ reqStage = "blank"
  /\ dialogue = <<System({"agent"})>>
  /\ setup = NoSetup
  /\ request = NoRequest
  /\ body = NoBody

-------------------------------------------------------------------------------
(* reasoning.ts, cache.ts.                                                 *)

OwnStyle(format) ==
  CASE format = "responses" -> "openai-responses"
    [] format = "chat" -> "chat-compatible"
    [] format = "anthropic" -> "anthropic"

\* resolveReasoningPolicy
Style   == IF setup.style = Default THEN OwnStyle(setup.format) ELSE setup.style
Enabled == setup.mode # "off" /\ setup.level # "off"

\* mappedEffort
Effort ==
  CASE setup.level = "off" -> ""
    [] setup.level # "off" /\ Style = "deepseek" -> IF setup.level = "xhigh" THEN "max" ELSE "high"
    [] OTHER -> IF setup.level = "xhigh" THEN "high" ELSE setup.level

\* resolveCacheRetention
Retention == IF setup.retention = Default THEN "short" ELSE setup.retention

\* anthropicCacheControl, openAIPromptCacheParams
Caches == Retention # "none" /\ setup.official

-------------------------------------------------------------------------------
(* Items.                                                                  *)

OneIf(condition, value) == IF condition THEN <<value>> ELSE <<>>

Text(cached)    == [kind |-> "text", id |-> {}, cached |-> cached]
Call(id)        == [kind |-> "call", id |-> {id}, cached |-> FALSE]
Answer(m)       == [kind |-> "result", id |-> m.answers, cached |-> FALSE]
Reasoning(m)    == [kind |-> IF m.thought THEN "reasoning" ELSE "no reasoning",
                    id |-> {}, cached |-> FALSE]
CallParts(m)    == [i \in DOMAIN m.calls |-> Call(m.calls[i])]
TextParts(m)    == OneIf(m.text, Text(FALSE))
Item(role, parts) == [role |-> role, parts |-> parts]

\* buildInput, assistantHistoryItem: a call is an item of its own, and an answer
\* with neither calls nor reasoning is sent without the reasoning field, unless
\* the provider's style wants it everywhere.
ResponsesItems(m) ==
  LET told == m.calls # <<>> \/ m.thought \/ Style \in {"deepseek", "chat-compatible"}
  IN CASE m.role = "system" -> <<>>
       [] m.role = "tool" -> <<Item("tool", <<Answer(m)>>)>>
       [] m.role = "assistant" /\ told ->
            <<Item("assistant", TextParts(m) \o <<Reasoning(m)>>)>>
              \o [i \in DOMAIN m.calls |-> Item("call", <<Call(m.calls[i])>>)]
       [] OTHER -> <<Item(m.role, TextParts(m))>>

\* buildChatMessages: every assistant message carries the reasoning field.
ChatItems(m) ==
  CASE m.role = "tool" -> <<Item("tool", <<Answer(m)>>)>>
    [] m.role = "assistant" ->
         <<Item("assistant", TextParts(m) \o <<Reasoning(m)>> \o CallParts(m))>>
    [] OTHER -> <<Item(m.role, TextParts(m))>>

Blank(cached) == Text(cached)

\* The content of an assistant message: no stored reasoning, and a filler where
\* nothing is left.  The mark of a message with content is dropped.
AssistantContent(m, cached) ==
  IF m.text \/ m.calls # <<>> THEN TextParts(m) \o CallParts(m)
  ELSE OneIf(Style \in {"deepseek", "anthropic"}, Reasoning(Said("assistant"))) \o <<Blank(cached)>>

\* toAnthropicMessage: a result is a user message of its own, never marked.
AnthropicItem(m, cached) ==
  CASE m.role = "tool" -> Item("user", <<Answer(m)>>)
    [] m.role = "assistant" -> Item("assistant", AssistantContent(m, cached))
    [] OTHER -> Item("user", <<Text(cached)>>)

Spoken(messages) == FlattenSeq([i \in DOMAIN messages |-> OneIf(messages[i].role # "system", messages[i])])
LastUser(messages) == {i \in DOMAIN messages : i = SelectLastInSeq(messages, LAMBDA m : m.role = "user")}

\* Mutated form of CacheIndices: counted with the system message.
CacheIndicesOfAll(messages) ==
  LET all == request.messages
  IN IF ~Caches THEN {} ELSE LastUser(all) \cup {i \in DOMAIN all : all[i].cache}

\* toAnthropicMessages: the last user message and those that ask for it.
CacheIndices(messages) ==
  IF ~Caches THEN {}
  ELSE LastUser(messages) \cup {i \in DOMAIN messages : messages[i].cache}

-------------------------------------------------------------------------------
(* Bodies.                                                                 *)

\* The agent's system prompt, as both clients send it (instructions, system).
AgentPrompt == {"agent"}

\* buildParams
ResponsesBody ==
  [instructions |-> AgentPrompt,
   items |-> FlattenSeq([i \in DOMAIN request.messages |-> ResponsesItems(request.messages[i])]),
   marks |-> 0, effort |-> IF Enabled THEN Effort ELSE "none"]

\* buildChatBody: the system message is one of the messages.
ChatBody ==
  [instructions |-> UNION {request.messages[i].tells : i \in
                             {j \in DOMAIN request.messages : request.messages[j].role = "system"}},
   items |-> FlattenSeq([i \in DOMAIN Spoken(request.messages) |->
                           ChatItems(Spoken(request.messages)[i])]),
   marks |-> 0, effort |-> IF Enabled THEN Effort ELSE "none"]

\* toAnthropicTool: the last tool is marked.
ToolMarks == IF Caches /\ request.tools > 0 THEN 1 ELSE 0
\* anthropicSystem
SystemMarks == IF Caches THEN 1 ELSE 0

\* buildBody
AnthropicBody ==
  LET messages == Spoken(request.messages)
  IN [instructions |-> AgentPrompt,
      items |-> [i \in DOMAIN messages |->
                   AnthropicItem(messages[i], i \in CacheIndices(messages))],
      marks |-> SystemMarks + ToolMarks,
      effort |-> IF Enabled THEN Effort ELSE "none"]

-------------------------------------------------------------------------------
(* The session a request is made of, as the loop and a context view leave  *)
(* it: every call answered, in the order of the calls, before anything     *)
(* else is said, and a summary only in the second place.                   *)

Unanswered ==
  LET asked == SelectLastInSeq(dialogue, LAMBDA m : m.role = "assistant")
  IN IF asked = 0 THEN <<>>
     ELSE SubSeq(dialogue[asked].calls, Len(dialogue) - asked + 1, Len(dialogue[asked].calls))

Say(m) ==
  /\ reqStage \in {"blank", "dialogue"} /\ Len(dialogue) < MaxMessages
  /\ reqStage' = "dialogue"
  /\ dialogue' = Append(dialogue, m)
  /\ UNCHANGED <<setup, request, body>>

SaySummary ==
  /\ Len(dialogue) = 1
  /\ Say([Said("user") EXCEPT !.cache = TRUE])

SayUser == Unanswered = <<>> /\ Say(Said("user"))

SayAnswer ==
  /\ Unanswered = <<>> /\ Len(dialogue) > 1 /\ Last(dialogue).role # "assistant"
  /\ \E calls \in BoundedSeq(CallIds, 2), text, thought \in BOOLEAN :
       /\ Cardinality(ToSet(calls)) = Len(calls)
       /\ Say(AnswerWith(text, thought, calls))

SayResult ==
  /\ Unanswered # <<>>
  /\ Say([Said("tool") EXCEPT !.answers = {Head(Unanswered)}])

-------------------------------------------------------------------------------

\* createSkillContextTransform: the listing goes behind the system message.
WithSkills(messages, listed) ==
  IF listed THEN <<System({"agent", "skills"})>> \o Tail(messages) ELSE messages

\* A request of the loop, with its options.
PrepareMain ==
  /\ reqStage = "dialogue" /\ Unanswered = <<>> /\ Last(dialogue).role # "assistant"
  /\ reqStage' = "prepared"
  /\ setup' \in Setups
  /\ \E listed \in BOOLEAN, tools \in 0 .. MaxTools :
       request' = [purpose |-> "main", messages |-> WithSkills(dialogue, listed), tools |-> tools]
  /\ UNCHANGED <<dialogue, body>>

\* buildCompactionMessages, the extractor's and the judge's request: a prompt of
\* their own and the conversation, in the name of the agent.
PrepareSide ==
  /\ reqStage = "dialogue" /\ Len(dialogue) = 2
  /\ reqStage' = "prepared"
  /\ setup' \in Setups
  /\ request' = [purpose |-> "compaction", messages |-> <<System({"task"}), Said("user")>>,
                 tools |-> 0]
  /\ UNCHANGED <<dialogue, body>>

BuildRequest ==
  /\ reqStage = "prepared"
  /\ reqStage' = "built"
  /\ body' = CASE setup.format = "responses" -> ResponsesBody
               [] setup.format = "chat" -> ChatBody
               [] setup.format = "anthropic" -> AnthropicBody
  /\ UNCHANGED <<dialogue, setup, request>>

ReqNext ==
  \/ SaySummary \/ SayUser \/ SayAnswer \/ SayResult
  \/ PrepareMain \/ PrepareSide \/ BuildRequest

ReqSpec == ReqBlank /\ [][ReqNext]_reqVars

-------------------------------------------------------------------------------
(* Properties.                                                             *)

\* The kinds of values; a mark on a message only where prompts are cached.
ReqTypeOK ==
  /\ reqStage \in {"blank", "dialogue", "prepared", "built"}
  /\ \A i \in DOMAIN dialogue : dialogue[i] \in Message
  /\ setup \in Setups
  /\ request.purpose \in RequestPurposes \cup {"none"}
  /\ body.instructions \subseteq {"agent", "skills", "task"}
  /\ body.effort \in {"none", "low", "high", "max"}
  /\ body.marks \in 0 .. 2

Built == reqStage = "built"
Parts == FlattenSeq([i \in DOMAIN body.items |-> body.items[i].parts])
OfKinds(parts, kinds) == FlattenSeq([i \in DOMAIN parts |-> OneIf(parts[i].kind \in kinds, parts[i])])

Exchanged(m) == CallParts(m) \o OneIf(m.role = "tool", Answer(m))

(* Whatever the format, the provider is sent the calls and the results of  *)
(* the session, each once and in their order: text beside a call does not  *)
(* hide it, and a filler never stands for one.                             *)
ExchangesSent ==
  Built => OfKinds(Parts, {"call", "result"})
             = FlattenSeq([i \in DOMAIN request.messages |-> Exchanged(request.messages[i])])

Marked == {i \in DOMAIN body.items : \E p \in ToSet(body.items[i].parts) : p.cached}

(* A body never holds more than the four cache marks the Messages API      *)
(* accepts: the system prompt, the last tool, the summary of a compaction  *)
(* and the last question use all four.                                     *)
FourMarks == Built => body.marks + Cardinality(Marked) <= 4

(* The marks are on the messages they were meant for: each is on one of    *)
(* the user's, the last question has one when prompts are cached, and so   *)
(* has a summary.                                                          *)
MarksInPlace ==
  Built /\ setup.format = "anthropic" =>
    Marked = IF Caches
             THEN {i \in DOMAIN Spoken(request.messages) :
                     LET m == Spoken(request.messages)[i]
                     IN m.cache \/ (m.role = "user" /\ \A j \in DOMAIN Spoken(request.messages) :
                                      j > i => Spoken(request.messages)[j].role # "user")}
             ELSE {}

(* To a provider of DeepSeek's style every assistant message goes with the *)
(* reasoning field, filled when the session has the reasoning; to          *)
(* Anthropic stored reasoning is never replayed.                           *)
ReasoningReplayed ==
  Built =>
    IF setup.format = "anthropic"
    THEN \A p \in ToSet(Parts) : p.kind # "reasoning"
    ELSE /\ OfKinds(Parts, {"reasoning"})
              = FlattenSeq([i \in DOMAIN request.messages |->
                              OneIf(request.messages[i].thought, Reasoning(request.messages[i]))])
         /\ Style = "deepseek" =>
              \A i \in DOMAIN body.items :
                body.items[i].role = "assistant" =>
                  \E p \in ToSet(body.items[i].parts) : p.kind \in {"reasoning", "no reasoning"}

(* "contextTransform injects loaded skills into system prompt"             *)
(* (test/skills-integration.test.ts:109): what the system message of a     *)
(* request tells is among the instructions the provider is sent.  The      *)
(* Responses and Messages clients send the agent's own prompt instead.     *)
SystemPromptSent ==
  Built => \A i \in DOMAIN request.messages :
             request.messages[i].role = "system" =>
               request.messages[i].tells \subseteq body.instructions

(* The body of a request (src/models) holds the session's exchanges,       *)
(* reasoning and cache marks as its format wants them.                     *)
RequestsWellFormed ==
  ReqTypeOK /\ ExchangesSent /\ FourMarks /\ MarksInPlace /\ ReasoningReplayed

===============================================================================
