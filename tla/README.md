# A TLA+ model of the evoa agent runtime

This directory holds TLA+ modules that model the runtime of `evoa`, the TLC
configurations that check them on small instances, and proofs, checked by
TLAPS, that the main properties hold for every value of the constants. All paths
below are relative to the repository, which keeps its sources in `src/`, its
tests in `test/` and the browser client in `web/`.

## 1. The system

`evoa` runs LLM agents. A front end (command line, REPL or web server) builds an
`AgentRuntime`, which drives one *run* of the agent loop over a *session*: the
loop asks a model for an answer, executes the tool calls in it, appends the
results to the session and asks again, until the model calls no more tools.

| Component | State | Operations | Hard behaviour |
|---|---|---|---|
| Agent loop (`runtime/loop.ts`, `timeout.ts`, `agent-runtime.ts`, `token-budget.ts`) | turn count, pending follow-ups, overflow flag, token budget | a turn: follow-ups, compaction, trimming, request, tool batches, results | aborts and the run's timeout strike at any await; recovery from overflows; the loop outlives its timeout |
| Session transcript (`runtime/session.ts`) | entries, counters | append user, assistant, tool result, compaction | every call must be followed by its result; several runs share one session |
| Tool registry (`tools/registry.ts`, `policy.ts`) | `toolCallCount`, calls in flight | `execute` | concurrent calls under one limit; hooks, sandbox, timeouts, zombies |
| Compaction (`runtime/compaction.ts`, `budget.ts`) | compaction count, consecutive failures | `maybeCompactContext` | two retry counters in one loop, circuit breaker, forced compaction |
| Context view (`runtime/context-view.ts`) | none (a function of the entries) | cut point, view, trim ladder, pair repair | pairs of calls and results must survive every cut |
| Micro-compaction, collapse, restore (`runtime/micro-compact.ts`, `context-collapse.ts`, `post-compact-restore.ts`) | the texts of a session's results | clear, deduplicate, collapse, restore | a result replaced before the model has seen it; a file restored that was read again later |
| Tool output (`runtime/tool-persistence.ts`, `tools/truncation.ts`) | a saved file | save, preview, fit | cuts inside characters and escapes; a save that fails |
| Model clients, routing (`models/`, `cli/model-routing.ts`, `cli/config.ts`) | registry of providers and models; the accumulator of a stream | build a body, read a stream, resolve a model | streams that end anywhere; cache marks by index; command line, configuration and stored session merged |
| Chat service, stores (`cli/chat-service.ts`, `cli/auto-continue.ts`, `sessions/`) | entries shared with the running session, saved file | send, save, resume, new | partial turns after errors; save is not atomic; memory recorded in the background |
| Web server, turn controller, state (`web/`) | controller, runtime, snapshot, log | submit, interrupt, new, resume; one handler per trace event | resume awaits between its check and its swap; late events of a run given up |
| Terminal chat (`cli/commands.ts`) | conversation, session file, memory | line, Ctrl-C, save, resume | interrupts and kills between memory, file and screen |
| Subagents (`tools/subagent.ts`) | transcripts, branch summaries | single and batch runs inside a tool call | aborts of the parent, children that go on |
| File tools (`tools/mutating.ts`) | queue of each path, files | write, edit | calls on one path with aborts and failing writes in between |
| Bash executor, web fetch (`tools/bash-executor.ts`, `tools/web-fetch.ts`) | child process; request, timers | exec; fetch, retry, redirect | timeout, abort, limit and end race |
| Memory (`memory/`) | append-only items | remember, update, forget, revoke, resolve | supersession and revocation across scopes; read-check-write across awaits |
| SOP engine (`sop/`) | step results | run | dependencies, preconditions, failure policy |
| MCP (`mcp/`) | clients | start, call, close, diagnose | concurrent start-up with fail policies |
| Command line (`cli/args.ts`, `cli/main.ts`) | none | parse, dispatch | values that look like options, options of other commands |
| Benchmark, evolution, verifier (`benchmark/`, `evolution/`, `verification/`) | results, candidates, history | run a suite, compare, adopt | failures between tasks, aborts, the best of several |
| Loaders (`agents/`, `tasks/`, `skills/`, `specs.ts`), events, replay, rendering | | | parsing, recording, printing |

How they interact: the loop calls the registry with `Promise.all` for every
batch of parallel-safe calls and awaits it; it awaits the compactor and the
model client; the registry awaits hooks and tools; `withTimeout` owns the
`AbortController` whose signal all of them share. The session object is shared
by reference by the loop, the compactor, the chat service and the subagent tool.
`PROJECT.json` lists every component with its sources and what became of it, and
the hazards with the line where each bites.

## 2. Modules

| Module | Models | Composes |
|---|---|---|
| `ToolRegistry` | `ToolRegistry.execute` for any number of concurrent calls | |
| `Compaction` | `maybeCompactContext`, its retries, its circuit breaker | |
| `Conversation` | what a transcript promises to a model provider (abstract) | |
| `AgentLoop` | `runAgentLoop`, `withTimeout`, `runSession` | `ToolRegistry`, `Compaction` (EXTENDS), `Conversation` (INSTANCE) |
| `Sop` | `validateSOPSpec` and `runSOP` | |
| `Mcp` | start-up, tools, closing and diagnosis of MCP servers | |
| `Subagent` | the subagent tool: a delegation from its call to the last loop it leaves behind | |
| `FileTools` | `write_file` and `edit_file` with the queue of each path | `AtomicFiles` (INSTANCE) |
| `AtomicFiles` | what they promise: a call takes effect at one moment (abstract) | |
| `Bash` | `bashTool` and `runSpawnedProcess` | |
| `WebFetch` | `web_fetch`: attempts, waits, redirects, body | |
| `ToolOutput` | a result's text between the tool and the transcript | |
| `Tools` | one behaviour per part of the above | `ToolRegistry` and the eight before it (EXTENDS) |
| `ContextView` | cut points, the view behind the latest compaction, the trim ladder, the repair of pairs | |
| `ContextPasses` | collapse, micro-compaction and restore over a session that grows | |
| `ModelRequests` | the bodies three clients build of a request | |
| `ModelStream` | the events of an answer and what a client makes of them | |
| `ModelRouting` | configuration, flags and stored session into a registry; the router's choice | |
| `Requests` | one behaviour per stage of a request | the five before it (EXTENDS) |
| `WebChat` | the web server's turns, resumes, saves and crashes over the chat service and the session store | |
| `ChatView` | the log and status a browser is shown | |
| `Web` | one behaviour per side of the web chat | `WebChat`, `ChatView` (EXTENDS) |
| `CommandLine` | a line of words into a command or complaints | |
| `ChatRepl` | `evoa chat` at a terminal over several processes | |
| `Evolution` | `evoa evolve`: suites, comparisons, generations, history | |
| `Commands` | one behaviour per command | the three before it (EXTENDS) |
| `Memory` | remembering, updating, forgetting and resolving long-term memories, over both stores | |
| `MCTools`, `MCAgentLoop`, `MCRequests`, `MCWeb`, `MCWebChat`, `MCCommands`, `MCMemory` | instances for TLC | |
| `*Proofs` | theorems about the module of that name and, for `Tools`, `Requests`, `WebChat` and `Commands`, about the parts beside it | |

Two kinds of composition are meant here. `AgentLoop` composes components that
interact: a step of the loop is a step of the registry or of the compactor. In
`Tools`, `Requests`, `Web` and `Commands` the parts do *not* interact: a variable
chosen at the start says which part moves, the others stay as they are before
their first call, and the run asks the questions of all of them. What
the parts share in the program (the files of a workspace, the abort signal, the
session) each module has its own view of, with an environment that may do
anything the others could; so an error that needs two of these parts at once to
show, and that this environment does not cause, is not found.

### ToolRegistry

`call[c]` is where `execute` stands for call `c`: `before` (awaiting the
`hook`-th `beforeToolCall`), `running` (awaiting the tool), `after` (awaiting
the `hook`-th `afterToolResult` in `finalize`), `done` or `thrown`. Every await
of the code is a stage, so every interleaving of the code is one of the model.
`Dispatch(batch)` is what `Promise.all(batch.map(execute))` does before anything
else can run: each `execute` runs synchronously to its first await, so the i-th
call of a batch sees the count raised by those before it. `HookThrows`,
`ToolAborts` and `ToolRejectsWithReason` follow `classifyToolError`: an
`AbortError` is rethrown, the timeout of the run is not one and becomes a result
with status `timeout`. `zombies` are tools that lost the race against their
timeout. `charged` and `launched` are history variables. What a policy or the
sandbox says is a constant: `PolicyDenied`, `Unregistered` (a set of calls) and
`SandboxDenied` (a set of inputs, as a hook may change the input).

### Compaction

`attempt` is the attempt whose model call is in flight, with both retry counters
and the number of rounds left to summarise. A summary is valid or not, a model
call answers, overflows or fails. `Declines` is an attempt that is not made:
gate closed, or no safe cut point.

### Conversation and AgentLoop

`Conversation` is the specification a transcript must meet: user entries and
summaries come only when all calls of the last answer have their results, and
results come in the order of the calls. `AgentLoop.pc` names the await the loop
is in; each action is what the code does from one await to the next, with its
checks of the signal exactly where the code has them. `caller` is what
`runSession` told its caller: the end of the loop or the timeout, whichever came
first. The loop goes on after a timeout. The `entries`, `asked` and `answered`
of the loop are those of the abstract specification, so `RefinesConversation`
needs no other mapping.

Abstractions: the follow-ups of one turn are one user entry (`AutoContinue`
yields one at a time); micro-compaction, collapse, post-compaction restore and
trimming change what a request contains and not the session, and are part of
`preparing`; the branch summaries a subagent's tool call appends to the parent's
session are left out; the model may ask for any batch of fresh call ids up to
`MaxBatch`.

### ContextView

The state is a session's `entries`, written by the runs of a chat: questions,
answers that call tools, results, branch summaries, compactions, and a run that
may stop with calls outstanding (`open`). The operators are the functions of
`context-view.ts`: `KeepStart` is `adjustKeepStartToToolBoundary`, `View` is what
stands behind the latest compaction, `Trims` are the outcomes of the trim ladder
for every budget, `Repaired` drops what has lost its partner. Token counts are
left out: a budget may stop the search for a cut at any entry and may leave room
for any groups. Because the model is a superset over budgets, a property that
holds does so whatever estimates the code makes. `lost` is a history variable.
`ModelAnswers` ends a run with or without the archiving summary: the web chat
writes one after every answered run, the command line does not. Left out:
results that arrive after their run was given up, and the order the first rung
of the ladder gives to several system entries (there is one).

### ContextPasses

`passLog` is the session as the passes see it, entry by entry; a result's text is
`content` or what replaced it. `Request` is all that is done before a request:
collapse by turn, clearing after a pause, clearing when the view is large, and,
behind a compaction, what `post-compact-restore.ts` puts in front. Whether a view
is large is open, as tokens are not counted. `passSeen` is a history variable:
the calls whose results some request has shown.

### ModelRequests, ModelStream, ModelRouting

A text is what it tells (the agent's prompt, the skills, a side task), so a body
can be asked what reached the provider. The three formats share one shape of
body, a list of items with parts; `setup` holds the format, and `Style` is the
provider style of `reasoning.ts`. In `ModelStream` the provider sends an answer fragment by
fragment, and the connection may end or break between any two reads, inside the
arguments of a call for want of length too; texts and arguments are numbers of
fragments, which tells a whole from a part. A Responses provider tells a reasoning
in deltas, with the output item of it when that is added or done, and with the
final event, as it likes; the client joins what it is told and tells only some of
it apart (`JoinUnique`), so the answer may hold a reasoning up to three times, which
`ReasoningTold` counts. In
`ModelRouting` a process is one pass from `Launch` to `Exit`, so a resumed
session meets the flags and the configuration of another process; an address
stands for the provider it belongs to, so a request at a stranger's address shows.

### Sop, Mcp, Subagent

An SOP's `plan` is any list of steps with dependencies, of which
`validateSOPSpec` refuses some; every step's precondition, action and
verification may pass, fail or throw. MCP servers start side by side;
`server[s]` is where each stands and `open` the clients that are connected.
A subagent's `child` is what `runSingleSubagent` awaits and `loops` are the agent
loops that have not ended, which `raceAbort` may leave behind; `branches` are the
summaries in the parent's session. The signal remembers whether the user or the
run's timeout aborted it, because `isAbortError` tells the two apart.

### FileTools, Bash, WebFetch, ToolOutput

`queue[f]` is the chain of promises in `mutationQueues`: its first call holds the
path. A file's text is the sequence of calls it came about by, and
`AtomicFiles` says that each call takes effect at one moment, an edit on the text
it then finds. A write that fails half-way leaves the file `Torn`, and a call
given up is not undone; both are part of the promise. In `Bash` the child may
write, exit, fail to start and ignore everything but `SIGTERM`; a lost byte count
is kept as 0 or 1. In `WebFetch` an attempt's timer (in `flight`, the
request under way), the run's signal and the server's answer race. `ToolOutput`
is a pure computation: a character is its size in UTF-8 and in JSON (`Characters`
are those an output may have), and the search of `truncation.ts` is compared with
the best of all cuts. `splitBytes` multiplies by a floating-point ratio;
`FallsShort` names the products that come out just below a whole number and are
rounded down to the one before it.

### ChatView

`view` is the `ChatState` of `web/state.ts`, with its log, whether it shows a run
as going on, and its status; an entry of the log knows which responses its text
came from, and whether whole. `loopAt` is where each run
stands: the loop of a run whose signal is aborted goes on until it looks at it, and
an answer without calls ends the run, aborted or not, or goes on to a follow-up. A
run given up after its timeout goes on sending events into the same view.

### CommandLine, ChatRepl, Evolution

A line is put together word by word, or as a set of options with their values
(typed switches first);
`LineUnderstood` compares the parser with what was typed. The terminal chat keeps
turns in four places, the conversation (`context`), the file (`disk`), the memory
(`remembered`) and the screen (`shown`). The session of a turn pushes to the chat's
own entries, so an interrupted turn stays in the conversation, its follow-ups
included, is saved with the next turn and remembered with it; `heard` is how much of
it the chat's message list has, which is that of the last turn to end.
An evolution is a process that runs two suites per candidate, compares, saves and,
with `--auto`, starts again from the best. A graded run may have any score, also one
that failed; one that threw has none. An agent is its allowed and denied tools,
which a mutation changes and a run too: `runSession` allows the very agent object it
runs the tool `subagent` when the bundle of its side has subagents (`delegating`),
and what is adopted hands it on. A comparison is what `engine.ts` recommends over the
sums of a suite and what `verifier.ts` blocks task by task: a regression, a lost run,
a denied call or an open breaker in its trace, more memory issues.

### WebChat

`chats` are the contexts the server has created since it started; `current` is
the one it shows. A context has the id of its session, the turn that keeps its
controller `busy`, its `entries` (shared with the running session), the
`messages` of the last finalized turn, the accumulated statistics and the copy
of them that is saved. `turns[t].phase` is `running` from `submitTurn` to the
end of `runSession` and `saving` while `saveSession` is awaited; a resume is
`asked` (its check is done), then `read` (its file is read), then its context is
put on show. The inside of a run is `AgentLoop`'s business: here it is one step
that answers, is interrupted, fails or times out. One that times out answers its
caller and goes on: as `late` it may at any time report an event, which is counted in
the statistics of its context, or append an answer or result to the entries the
context and its later turns share (`LateEvent`, `LateResult`); it is `adrift` once the
context has an array of its own, after a summary or a new session, and then only
reports. A history is reduced to the turn the summary was made of, the turns asked
since and those that wrote late; a file is `missing`, `torn` (a write was interrupted
or two writes overlapped) or `whole`. A save that fails after an interrupt saves
again. `Crash` may find any
file being written as it was, torn or complete. `forked` is a history variable:
the sessions put on show from a file that was, or was about to be, out of date.

### Memory

`items` is the append-only store; an item's id is its position. `Readable(a)` is
`resolveReadableMemories` for the session `a`: what is in scope, verified and
not superseded by anything in scope, and wins its conflict key. A session or
project is an *audience*; the scopes `user` and `agent` are `Everyone`. An update
or a forget is a *writer* that has read and not yet written, so any number of
them overlap: two sessions, the memories extracted from a turn in the
background, a tool call given up after its timeout. Whether a text is quarantined
is open, as texts are not modelled. `store` says which of the two stores it is;
they differ in whether they list what is quarantined. `gone` is a history
variable. Left out: selection by relevance and budgets, expiry dates and
priorities (nothing in `src/` sets them), revocation by source (only tests call
it), torn lines of the JSON store.

## 3. Runs

| Run | Question | Bounds |
|---|---|---|
| `tools` | Do limit, policy and sandbox hold for concurrent calls with hooks that deny, mutate and throw? Does each part behind the registry tell what happened, heed an abort, and come to rest? Are files worked on one call at a time? | three calls under a limit of two, two hooks, batches up to three; three steps, two servers, three children, three calls on one file, two retries, outputs of four characters |
| `loop` | Are transcripts sendable and aborts heeded, with batches of both kinds, compaction, overflow recovery and follow-ups? Do the compactor's retries and breaker keep their bounds? Is the loop a conversation? | three calls of which two are parallel-safe, limit two, two turns, up to five rounds: all three overflow retries can happen |
| `loop_settles` | Does a run end, and is every timed call answered, with a token budget, a hook, a throwing compactor and a limit below the calls asked? | two calls under a limit of one, two turns, one hook |
| `requests` | Do the view and every trim keep the question and the pairs, and is nothing missing that no summary covers? Are results spared until seen? Do bodies hold the session, streams give what was sent, and requests go where they should? | sessions of up to eight entries with two calls; three calls of two tools under six configurations; five messages; two processes and providers; answers of two calls of two fragments |
| `web` | Do turns keep apart, sessions stay unmixed and saved answers survive, with overlapping resumes, saves and crashes, and loops that go on writing after a timeout? Does the log show each answer as it was? | two sessions, three turns, one resume; two runs, three responses, a log of three entries |
| `commands` | Is a line run as typed or refused? Do conversation, file and memory agree at a terminal? Does an evolution adopt the best, account for all and end? | four words or options; three lines, two follow-ups, one kill; two tasks with partial credit and lost runs, two candidates, two iterations, the one tool a run hands on |
| `memory` | Does what is forgotten or replaced stay hidden, does nothing else vanish, and do sessions keep apart, with overlapping writers and failing writes? | two sessions, two writers, three items, one key and one text |
| `loop_overspends` | Does a spent token budget stop the loop? (it does not) | one call, two turns, budget one |
| `web_one_turn` | Does a resume wait for the running turn? (it does not) | two sessions, two turns, one resume |
| `web_memory` | Is every answered turn offered to the memory extractor? (it is not) | two sessions, two turns, one resume |
| `memory_drop_in` | Do both stores show the same memories? (they do not) | as `memory` |
| `system_prompt` | Does what the system message tells reach the provider? (not with two of three formats) | as `requests` |

A property of a run is often the conjunction of several named statements about
one component (`SopHonest`, `CallsAccounted`, `ReplSound`, ...); each of them is
stated and explained in the component's module.

Why the bounds are enough: three calls with one sequential call among them give
every shape a batch can have (first, middle, last, alone); two turns show a turn
after results were appended; the limit of two under three calls leaves one call
over. Eight entries hold a system prompt, a compaction, a question, a message
with two calls and its results, and still one or two entries on either side of
a cut. Three turns are two that overlap through a resume or a timeout and one
that comes after them; one resume is enough for a read that is out of date, and for
any number of them there are the proofs. Three items are an
item, what replaces or outranks it, and what becomes of that. Three steps are a
chain, a fork and a join; three calls on one path are one that holds it and two
that wait; three children are one that answers, one that is given up and one that
fails; two servers are one that fails beside one that is connected. Two retries
are a first and a last; two fragments tell a part from a whole; two iterations are one
that adopts and one that starts from what was adopted. Four words are a command
and an option with its value and one word too many.

Counters (`turnCount`, `toolCallCount`, `failures`) are bounded by the code
itself. `MaxBatch`, `MaxRounds`, `MaxForced`, `Usages`, `MaxEntries`, `MaxItems`,
`MaxLog`, `MaxPassCalls`, `MaxMessages`, `MaxTools`, `MaxLaunches`, `MaxText`,
`MaxCalls`, `MaxFragments`, `MaxReasoning`, `MaxSteps`, `MaxServers`,
`MaxChildren`, `MaxChunk`, `MaxLength`, `MaxChars`, `MaxRuns`, `MaxResponses`,
`MaxIds`, `MaxTokens`, `MaxOptions`, `MaxReplTurns`, `MaxKills`, `SuiteTasks`,
`MaxCandidates`, `MaxIterations`, `MaxRetooled`, and `WebChat`'s `MaxTurns` and
`MaxResumes` are bounds of the model. `web` and `memory` use the symmetry of
sessions and writers: the models only compare them.

Two refinements are checked: the agent loop implements `Conversation`
(`RefinesConversation`) and the file tools implement `AtomicFiles`
(`RefinesAtomicFiles`). Both are also proved for every value of the constants.

Five runs show a disagreement between what the repository says and what the
code does:

- `loop_overspends`: `test/token-budget.test.ts:97` says the budget "stops on
  budget depleted", and the function it tests does; but the loop asks that
  function only after a turn with tool calls. A turn that ends with a follow-up
  skips it.
- `web_one_turn`: `resumeSession` refuses with "A turn is already running"
  (`web/server.ts:187`) but checks before it awaits the store and the bundle. A
  turn submitted meanwhile runs on behind the context then put on show, and a
  second one can be started beside it.
- `web_memory`: the extractor is to read "the new conversation messages"
  (`memory/llm-extractor.ts:49`). `startMessageIndex` is counted before the turn;
  the finished turn replaces the messages by system prompt and summary, so from
  the second answered turn on the index is past the end and nothing is offered.
- `memory_drop_in`: the SQLite store calls itself a "Drop-in replacement for
  JsonMemoryStore" (`memory/sqlite-memory-store.ts:17`), but it lists quarantined
  items, and what a listed item supersedes is hidden whatever its status. An
  update whose text is quarantined removes the old memory from view with the
  SQLite store and leaves it with the JSON store.
- `system_prompt`: `test/skills-integration.test.ts:109` says "contextTransform
  injects loaded skills into system prompt". It does, into the system message of
  the request; but the Responses and Messages clients leave such messages out and
  send the agent's own prompt instead (`models/openai-client.ts:396` and `:435`,
  `models/anthropic-client.ts:352` and `:398`). Only the chat format sends it. The
  prompts of compaction, memory extraction and judge are lost in the same way.

Observed while modelling, and not checked: `edit_file` replaces with
`String.replace`, which gives `$&` and its like in the new text a meaning
(`tools/mutating.ts:134`); `--token-budget` is read by the command and refused as
unknown by the parser (`cli/args.ts:1244`); a configured provider without a base
URL is dropped without a word (`cli/config.ts:87`); a step whose dependency was
skipped runs, as only `failed` and `error` count (`sop/runner.ts:75`); a late
tool result of a run that is over sets the status to idle while the next run
thinks (`web/state.ts:262`); what the loop of a timed-out turn reports after a new
session was begun is counted in the one `ChatState` (`web/session.ts:22`) and saved
with the new session's statistics, so `SessionsNotMixed` leaves out turns that timed
out where it speaks of statistics; the Responses client joins the reasoning of deltas, of
output items and of the final event, and drops a repetition only when two tellings
are equal as they stand, so an answer may hold its reasoning up to three times
(`models/openai-client.ts:783`, `:862`, `:883`, `:928`); a candidate of an evolution
that was to lose `subagent` can end with it both allowed and denied
(`runtime/agent-runtime.ts:56`); `listSessions` reads session files without a
catch while a save truncates one (`web/server.ts:242`); when a request holds no
result at all, its calls are sent as they are, without one
(`runtime/context-view.ts:179`).

## 4. Fairness

`FairSpec` assumes that the loop takes its next step when it can
(`WF_vars(LoopStep)`: model calls and callbacks settle, as HTTP clients with
timeouts do), that hooks settle and that the timers of tools fire. Nothing is
assumed of tools: that is what the timeouts are for. `RunSettles` includes `TimedCallsAnswered`, checked
inside the loop, where the registry's calls really come from.

The parts of `Tools` have each their own: an SOP's actions settle (they are given
no timeout: one that hangs hangs the SOP); file operations settle; timers fire,
and a child that is sent `SIGTERM` ends (nothing else ends it); of a fetch's
server nothing is assumed, up to the body, whose reading has no timer of its own;
a child of a delegation is assumed to settle only once it is aborted, as
`raceAbort` then gives it up. `ToolsSettle` says what comes to an end under these.
`ReplFairness` and `EvoFairness` say that a process goes on with its own next step:
the provider answers or fails, and runtimes have a timeout for it. The runs
`requests`, `web` and `memory` check safety only and assume no fairness.

## 5. Theorems

`PROJECT.json` lists the theorems with what each establishes. What they rest on:

| Module | Of | Inductive invariant and argument |
|---|---|---|
| `ToolRegistryProofs` | types, `LimitHolds`, `LaunchPermitted`, `ResultIsFinal` | a launched call is charged or never was in a hook; the count is the number of charged calls |
| `ConversationProofs` | `Paired`, `Sendable` | `Placed`: the last answer stands `answered` entries before the end, and all earlier ones are answered |
| `AgentLoopProofs` | types, `RefinesConversation`, `RequestSendable`, the guarantees of registry and compactor inside the loop, `RecoversOnce`, `NoNewWorkAfterAbort`, `AbortBoundsTranscript`, `CallsTakenCareOf` | `TurnClosed` (outside the tool stages all results are in), `Accounted`, `Screened`, `Counted` and `Paid` (each model call of an attempt but the first is paid for by a retry counter); `LateEntries` (what an abort can still be followed by, by where the loop stands); `Followed` (which calls are in flight, waiting or over) |
| `ToolsProofs` | files: `OneAtATime`, `RefinesAtomicFiles` | `HeadHolds` (whoever is at work on a path is the first in its queue), `Fresh` (what an edit has read still stands in the file) |
| | bash and fetch: `CallsAccounted` | `CommandInv` (timer and listener only while the command runs), `FetchInv` (requests sent = attempts counted + those of this hop; the budget of each hop) |
| | SOPs: `SopHonest`, `SortIsTopological` | `InOrder` (the steps with a result are the first of the order), `Remembered` (an error under `stop_on_failure` has set what nothing overwrites). The sort is recursive: visits exist, and sort, for sets of ever higher rank |
| | MCP and subagents: `McpAccounted`, `DelegationAccounted` | `McpInv` (each server's stage against the clients and the diagnosis), `SubInv` (what each child has told) |
| | outputs: `OutputFits` | `OutInv`: `Searched` (what is at or below `best` fits, what is above `high` does not). The search is right because a larger share gives larger head and tail limits, these a longer head and tail, and the digits of the number of bytes left out shrink by no more than the bytes that are added |
| | the parts together: `ToolsHeedAbort` and all of the above for `ToolsSpec` | `ToolsRunsItsParts`: `ToolsSpec` implements each part's specification |
| `RequestsProofs` | the view: `QuestionSent`, `OnlySummarisedMissing`, `ViewsKeepPairs` | `KeepsQuestion` (a question older than the latest compaction is among the entries it keeps), `AccountedIn` (what a compaction does not keep, it or an earlier one has read), `SegInv` (results follow the message that asked for them, so a view that holds the owner of each result parts none) |
| | the passes: `PassesSparing` | `PassInv`: `Numbered` (calls are numbered as they are made, each result is that of an earlier answer's call), `Shown` (what stands behind the last question has been shown, but for the results of the last answer), `Summarised` (a compaction takes nothing from the last question on). Going through the entries, `Deduplicate` keeps the last result of each file |
| | routing: `RoutingKept` | `RoutingInv`: `Resolved` (what a settled command promises of the registry filled from it), `Resumed` |
| | streams: `StreamHeard` | `StreamInv`: `StreamFollowed` (texts, tellings of the reasoning and calls heard, against what was sent, event by event); `Tale` is what the client has of a reasoning, its deltas and then the tellings of the whole, and joining leaves as many as `ReasoningTold` allows |
| | bodies: `RequestsWellFormed` | `ReqInv`: `DialogueShape` (the session, and what of it a request holds, starts with its one system message, only the assistant calls and reasons, and only the summary of a compaction, second, asks to be cached), a body built is `BodyOf` that request. Flattening keeps the order of items and parts, so a body holds the exchanges of its messages in their order, whatever the format makes of one message |
| | the stages together | `RequestsRunsItsParts` |
| `WebChatProofs` | `SerialInContext`, `SessionsNotMixed` | `Owned` (a context is busy with t exactly while t is live in it, and a late loop that shares its entries was asked in the session it shows), `Apart` (all copies of a history, those on their way to or from a file included, hold questions and late results of their session only, and statistics of no other turn in time), `Typed` |
| | `AnswersKept` | `KeptInv`: a session put on show from what its file holds has one writer; `Copied` and `Recorded` say what that writer will save, `ReadsWhole` and `LastShown` what a resume may put on show, `Kept` that each history covers the answers before it |
| | `ViewSound` | `ViewInv`: `Ordered` (ids grow along the log), `Streamed` (the entry written to is of its kind), `Told` (each answer has an entry of its own), `Held` (it is whole until it is trimmed) |
| | both together | `WebRunsItsParts` |
| `CommandsProofs` | `LineUnderstood` | `LineInv`: `SplitRight`, `ReadRight`, `BuiltRight`, `RunRight`: when the options and their values are taken out of a line, what is left keeps its order, so what was read of it was read of the line |
| | `EvolutionSound`, `AcceptedIsBetter` | `EvoInv`: `Progress`, `Recorded` (history against what was compared), `LineageApart` (a lineage's lists are apart but for what a run allows). Totals are folds, which are proved to be sums, and sums to be monotone: were no task to score higher or pass now, no total could rise, and were none blocked, none could fall to a rejection |
| | `ReplSound` | `ReplInv`: `InStep` (conversation, message list, memory and follow-ups: memory ends before `began`), `Stored` (what the file holds of them). The pieces taken of an increasing sequence, joined, increase, so no turn is remembered twice |
| | the commands together | `CommandsRunsItsParts` |
| `MemoryProofs` | `GoneStaysHidden`, `ScopesApart` | `Linked`: whatever is gone is superseded by a listed item of its own scope, which is in view wherever the old one is |
| | `NothingVanishes` | supersession leads to later items only and a conflict key has a winner, so what becomes of an item is settled from the last one down: it is read, or its chain ends in what is read, in a tombstone or in a quarantined item (with SQLite nothing readable need be left then, which `memory_drop_in` shows) |

Each invariant is proved initial and preserved, one step per action. The proofs
of the loop reuse the registry's and the compactor's lemmas: a step of the loop
is a step of each of them or leaves it unchanged.

The theorems assume what the modules name and TLC evaluates:
`RegistryAssumption`, `CompactionAssumption`, `LoopAssumption`,
`ContextAssumption`, `PassAssumption`, `RequestsAssumption`, `RoutingAssumption`,
`StreamAssumption`, `OutputAssumption`,
`WebChatAssumption`, `ViewAssumption`, `MemoryAssumption`, `FileAssumption`,
`SopAssumption`, `McpAssumption`, `SubagentAssumption`, `BashAssumption`,
`FetchAssumption`, `LineAssumption`, `ReplAssumption`, `EvolutionAssumption`.
They say what type a constant has, that a null value is none of its values, that
there is a file, a step or a server at all, that a limit of bytes is not zero, and
that the options a command takes are finitely many and typed. No theorem has a
hypothesis of its own beyond them.

Only model-checked:

- the liveness properties (`RunSettles`, `ToolsSettle`, `CommandsSettle`): liveness under fairness and ENABLED are out of TLAPS's reach.

No module uses RECURSIVE operators, which the prover cannot handle, and the
library's induction theorems take operators, which it cannot instantiate. Where a
recursive function or a fold is proved about (the sort of an SOP, the totals of an
evolution, the last result of each file, the bytes and digits of an output, the
items of a body), the induction is written out as a least counterexample.

## 6. What is not modelled, and the plan

Not modelled for good:

- events, traces, run stores and replay, prompt-cache breaks: they observe a run
  and decide nothing;
- loading and validation of JSON, YAML and Markdown bundles (`agents/`, `tasks/`,
  `skills/`, `specs.ts`, the loaders of `sop/` and `benchmark/`): schema checks and
  file input;
- rendering and printing (`web/stats.ts`, `web/markdown.ts`,
  `web/tool-renderers.ts`, `cli/format.ts`, reports, leaderboards, the browser
  client), the text of prompts and summaries;
- the reading tools, search and the graders: no state, and results that are data;
- the sandbox's and the policy's verdicts on names and paths, which are parameters
  of `ToolRegistry`;
- what no code of the program reaches: `tools/file-state-cache.ts` and the
  chat-completions path of the Responses client.

Left out of what is modelled is named with each module in section 2 and with each
component in `PROJECT.json`.

Planned, in this order:

1. A delegation inside the agent loop: `Subagent` composed with `AgentLoop`, so
   that its branch summaries stand in the parent's `entries`.
2. Late results of a run that timed out inside the requests of the next run
   (`WebChat` has them in the shared entries, `ContextView` leaves them out).
