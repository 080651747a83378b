------------------------------- MODULE AgentLoop -------------------------------
(***************************************************************************)
(* runAgentLoop (src/runtime/loop.ts) over a ToolRegistry and a compactor, *)
(* raced against the run's timeout by withTimeout (src/runtime/timeout.ts) *)
(* on behalf of AgentRuntime.runSession.  One loop runs; every point where *)
(* it awaits is a value of pc.  While it waits, the calls it has started   *)
(* take their own steps, the user may abort and the timeout may strike.    *)
(* The caller of runSession hears of the end of the loop or of the timeout,*)
(* whichever comes first; the loop goes on after a timeout, unheard, until *)
(* it next looks at the signal.                                            *)
(***************************************************************************)
EXTENDS ToolRegistry, Compaction

CONSTANTS
  MaxTurns,         \* agent.runtime.maxTurns
  ParallelSafe,     \* calls of a tool whose concurrency is "parallel-safe"
  RegistryGiven,    \* options.toolRegistry is given
  RuntimeTimeout,   \* task.timeoutMs or agent.runtime.timeoutMs is given
  TokenBudget,      \* agent.runtime.tokenBudget; none: 0
  StaleTurns,       \* contextCollapse.preserveRecentTurns
  Usages            \* tokens an answer of the model may report as used

ASSUME LoopAssumption ==
  /\ MaxTurns \in Nat
  /\ ParallelSafe \subseteq Calls \ Unregistered
  /\ RegistryGiven \in BOOLEAN
  /\ RuntimeTimeout \in BOOLEAN
  /\ TokenBudget \in Nat
  /\ StaleTurns \in Nat
  /\ Usages \subseteq Nat

VARIABLES
  pc,          \* what the loop awaits
  turnCount,   \* session.turnCount
  followUp,    \* pendingFollowUps is not empty
  entries,     \* session.entries
  asked,       \* lastResponse.toolCalls
  answered,    \* how many of them have been appended as results
  dispatched,  \* how many of them executeToolCalls has started
  recovered,   \* overflowRecoveryAttempted
  requests,    \* history: the loop's own model requests
  spent,       \* BudgetTracker.consumed()
  streak,      \* BudgetTracker.noToolCallStreak
  caller,      \* what runSession has told its caller
  lenAtAbort   \* history: the length of the transcript when the signal aborted

transcriptVars == <<entries, asked, answered>>
budgetVars == <<spent, streak>>
loopVars == <<pc, turnCount, followUp, entries, asked, answered, dispatched,
              recovered, requests, spent, streak, caller, lenAtAbort>>
vars == <<loopVars, registryVars, compactionVars>>

(* The loop's transcript seen as a conversation.                           *)
Conv == INSTANCE Conversation
          WITH Calls <- Calls, entries <- entries, asked <- asked, answered <- answered

Awaits == {"top", "compacting", "preparing", "requesting", "recovering",
           "rerequesting", "following", "executing", "appending", "ended"}
Outcomes == {"waiting", "answer", "error", "timeout"}

(* Type correctness: in particular the results appended never run ahead of *)
(* the calls started, nor these of the calls asked for.                    *)
LoopTypeOK ==
  /\ pc \in Awaits
  /\ turnCount \in 0 .. MaxTurns
  /\ followUp \in BOOLEAN
  /\ entries \in Seq(Conv!Entry)
  /\ asked \in Seq(Calls)
  /\ answered \in 0 .. Len(asked)
  /\ dispatched \in 0 .. Len(asked)
  /\ recovered \in BOOLEAN
  /\ requests \in Nat
  /\ spent \in Nat
  /\ streak \in Nat
  /\ caller \in Outcomes
  /\ lenAtAbort \in Nat

LoopInit ==
  /\ pc = "top"
  /\ turnCount = 0
  /\ followUp = FALSE
  /\ entries = <<Conv!System, Conv!User>>
  /\ asked = <<>>
  /\ answered = 0
  /\ dispatched = 0
  /\ recovered = FALSE
  /\ requests = 0
  /\ spent = 0
  /\ streak = 0
  /\ caller = "waiting"
  /\ lenAtAbort = 0

Init == RegistryInit /\ CompactionInit /\ LoopInit

Aborted == signal # "none"

-------------------------------------------------------------------------------
(* The end of the loop: runSession settles unless its timeout was faster.  *)

Ends(outcome) ==
  /\ pc' = "ended"
  /\ caller' = IF caller = "waiting" THEN outcome ELSE caller

GoesTo(next) == pc' = next /\ UNCHANGED caller

\* The loop ends without touching anything else.
Stops(outcome) ==
  /\ Ends(outcome)
  /\ UNCHANGED <<turnCount, followUp, transcriptVars, dispatched, recovered,
                 requests, budgetVars, lenAtAbort, registryVars>>

-------------------------------------------------------------------------------
(* A turn, up to the model's answer.                                       *)

\* maxTurns is looked at before the signal: an aborted run that has used up
\* its turns still answers.
OutOfTurns ==
  /\ pc = "top"
  /\ turnCount >= MaxTurns
  /\ Stops("answer")
  /\ UNCHANGED compactionVars

AbortedAtTop ==
  /\ pc = "top"
  /\ turnCount < MaxTurns
  /\ Aborted
  /\ Stops("error")
  /\ UNCHANGED compactionVars

\* Follow-ups are appended, then compaction is considered.
StartTurn ==
  /\ pc = "top"
  /\ turnCount < MaxTurns
  /\ ~Aborted
  /\ turnCount' = turnCount + 1
  /\ entries' = IF followUp THEN Append(entries, Conv!User) ELSE entries
  /\ followUp' = FALSE
  /\ \/ /\ \E over \in BOOLEAN, rounds \in 1 .. MaxRounds : Begin(FALSE, over, rounds)
        /\ GoesTo("compacting")
     \/ /\ \E over, cut \in BOOLEAN : Declines(FALSE, over, cut)
        /\ GoesTo("preparing")
  /\ UNCHANGED <<asked, answered, dispatched, recovered, requests, budgetVars,
                 lenAtAbort, registryVars>>

\* Compaction calls the model again; it does not look at the signal first.
CompactionRetries ==
  /\ pc \in {"compacting", "recovering"}
  /\ RetryInvalid \/ RetryOverflow
  /\ UNCHANGED <<loopVars, registryVars>>

CompactionSucceeds ==
  /\ pc = "compacting"
  /\ Succeeds
  /\ entries' = Append(entries, Conv!Summary)
  /\ GoesTo("preparing")
  /\ UNCHANGED <<turnCount, followUp, asked, answered, dispatched, recovered,
                 requests, budgetVars, lenAtAbort, registryVars>>

\* A failed compaction is no reason to stop, even if it failed by an abort.
CompactionFails ==
  /\ pc = "compacting"
  /\ FailsQuietly
  /\ GoesTo("preparing")
  /\ UNCHANGED <<turnCount, followUp, transcriptVars, dispatched, recovered,
                 requests, budgetVars, lenAtAbort, registryVars>>

CompactionThrows ==
  /\ pc \in {"compacting", "recovering"}
  /\ Throws
  /\ Stops("error")

\* onCompactionMemory or contextTransform throws, or the context cannot be
\* trimmed and failureMode is "error".
PreparationFails ==
  /\ pc = "preparing"
  /\ Stops("error")
  /\ UNCHANGED compactionVars

\* The context is ready: the request goes out unless the run is aborted.
Prepared ==
  /\ pc = "preparing"
  /\ IF Aborted
     THEN Stops("error")
     ELSE /\ requests' = requests + 1
          /\ GoesTo("requesting")
          /\ UNCHANGED <<turnCount, followUp, transcriptVars, dispatched,
                         recovered, budgetVars, lenAtAbort, registryVars>>
  /\ UNCHANGED compactionVars

ModelFails ==
  /\ pc \in {"requesting", "rerequesting"}
  /\ Stops("error")
  /\ UNCHANGED compactionVars

\* Mutated form of ModelOverflows: a second overflow is recovered from as well.
ModelOverflowsAgain ==
  /\ pc \in {"requesting", "rerequesting"}
  /\ recovered' = TRUE
  /\ \/ /\ \E rounds \in 1 .. MaxRounds : Begin(TRUE, FALSE, rounds)
        /\ GoesTo("recovering")
     \/ /\ \E cut \in BOOLEAN : Declines(TRUE, FALSE, cut)
        /\ Ends("error")
  /\ UNCHANGED <<turnCount, followUp, transcriptVars, dispatched, requests,
                 budgetVars, lenAtAbort, registryVars>>

\* The first overflow of the run: compaction is forced, once.
ModelOverflows ==
  /\ pc = "requesting"
  /\ ~recovered
  /\ recovered' = TRUE
  /\ \/ /\ \E rounds \in 1 .. MaxRounds : Begin(TRUE, FALSE, rounds)
        /\ GoesTo("recovering")
     \/ /\ \E cut \in BOOLEAN : Declines(TRUE, FALSE, cut)
        /\ Ends("error")
  /\ UNCHANGED <<turnCount, followUp, transcriptVars, dispatched, requests,
                 budgetVars, lenAtAbort, registryVars>>

RecoverySucceeds ==
  /\ pc = "recovering"
  /\ Succeeds
  /\ entries' = Append(entries, Conv!Summary)
  /\ IF Aborted THEN Ends("error") /\ UNCHANGED requests
                ELSE GoesTo("rerequesting") /\ requests' = requests + 1
  /\ UNCHANGED <<turnCount, followUp, asked, answered, dispatched, recovered,
                 budgetVars, lenAtAbort, registryVars>>

RecoveryFails ==
  /\ pc = "recovering"
  /\ FailsQuietly
  /\ Stops("error")

-------------------------------------------------------------------------------
(* The model's answer.                                                     *)

\* consumeTokenBudget: an answer that reports no usage is not looked at.
Consumes(calls) ==
  \/ UNCHANGED budgetVars
  \/ /\ TokenBudget > 0
     /\ \E usage \in Usages : spent' = spent + usage
     /\ streak' = IF calls = <<>> THEN streak + 1 ELSE 0

\* The response is consumed and appended, unless it is empty.
Answers(calls, noted) ==
  /\ pc \in {"requesting", "rerequesting"}
  /\ entries' = IF noted THEN Append(entries, Conv!Assistant(calls)) ELSE entries
  /\ asked' = calls
  /\ answered' = 0
  /\ Consumes(calls)
  /\ UNCHANGED <<turnCount, followUp, recovered, requests, lenAtAbort,
                 compactionVars>>

ModelAnswers ==
  /\ \E noted \in BOOLEAN : Answers(<<>>, noted)
  /\ dispatched' = 0
  /\ GoesTo("following")
  /\ UNCHANGED registryVars

FollowsUp ==
  /\ pc = "following"
  /\ followUp' = TRUE
  /\ GoesTo("top")
  /\ UNCHANGED <<turnCount, transcriptVars, dispatched, recovered, requests,
                 budgetVars, lenAtAbort, registryVars, compactionVars>>

HasNothingToAdd ==
  /\ pc = "following"
  /\ Stops("answer")
  /\ UNCHANGED compactionVars

FollowUpThrows ==
  /\ pc = "following"
  /\ Stops("error")
  /\ UNCHANGED compactionVars

-------------------------------------------------------------------------------
(* executeToolCalls.                                                       *)

Together(calls, i, j) == {calls[i], calls[j]} \subseteq ParallelSafe

\* Mutated form of IsNextBatch: the tool that opens the batch is not asked.
IsNextBatchOpen(calls, i, j) ==
  /\ j \in i + 1 .. Len(calls)
  /\ \A k \in i + 2 .. j : calls[k] \in ParallelSafe
  /\ j < Len(calls) => calls[j + 1] \notin ParallelSafe

\* After the first i calls, the next batch ends with the j-th: it is a single
\* call, or as many parallel-safe ones as follow each other.
IsNextBatch(calls, i, j) ==
  /\ j \in i + 1 .. Len(calls)
  /\ \A k \in i + 2 .. j : Together(calls, i + 1, k)
  /\ j < Len(calls) => ~Together(calls, i + 1, j + 1)

DispatchNext(calls, i) ==
  \E j \in i + 1 .. Len(calls) :
    /\ IsNextBatch(calls, i, j)
    /\ Dispatch(SubSeq(calls, i + 1, j))
    /\ dispatched' = j

\* The calls a model may ask for: an id is used once in a run.
Requestable ==
  {calls \in Batches(MaxBatch) : IsBatch(calls)}

\* Mutated form of ModelAsksForTools: the signal is not looked at.
ModelAsksForToolsUnchecked ==
  \E calls \in Requestable :
    /\ Answers(calls, TRUE)
    /\ IF RegistryGiven
       THEN DispatchNext(calls, 0) /\ GoesTo("executing")
       ELSE Ends("error") /\ dispatched' = 0 /\ UNCHANGED registryVars

ModelAsksForTools ==
  \E calls \in Requestable :
    /\ Answers(calls, TRUE)
    /\ IF RegistryGiven /\ ~Aborted
       THEN DispatchNext(calls, 0) /\ GoesTo("executing")
       ELSE Ends("error") /\ dispatched' = 0 /\ UNCHANGED registryVars

Started == {asked[i] : i \in 1 .. dispatched}

AllDone == \A c \in Started : call[c].stage = "done"

\* Mutated form of NextBatch: the signal is not looked at between batches.
NextBatchUnchecked ==
  /\ pc = "executing"
  /\ AllDone
  /\ dispatched < Len(asked)
  /\ DispatchNext(asked, dispatched)
  /\ UNCHANGED <<pc, turnCount, followUp, transcriptVars, recovered, requests,
                 budgetVars, caller, lenAtAbort, compactionVars>>

NextBatch ==
  /\ pc = "executing"
  /\ AllDone
  /\ dispatched < Len(asked)
  /\ IF Aborted
     THEN Stops("error")
     ELSE /\ DispatchNext(asked, dispatched)
          /\ UNCHANGED <<pc, turnCount, followUp, transcriptVars, recovered,
                         requests, budgetVars, caller, lenAtAbort>>
  /\ UNCHANGED compactionVars

\* Promise.all rejects as soon as one call does; the others go on.
BatchThrows ==
  /\ pc = "executing"
  /\ \E c \in Started : call[c].stage = "thrown"
  /\ Stops("error")
  /\ UNCHANGED compactionVars

LastBatchDone ==
  /\ pc = "executing"
  /\ AllDone
  /\ dispatched = Len(asked)
  /\ GoesTo("appending")
  /\ UNCHANGED <<turnCount, followUp, transcriptVars, dispatched, recovered,
                 requests, budgetVars, lenAtAbort, registryVars, compactionVars>>

\* Mutated form of AppendResult: results are appended latest first.
AppendResultReversed ==
  /\ pc = "appending"
  /\ answered < Len(asked)
  /\ entries' = Append(entries, Conv!Result(asked[Len(asked) - answered]))
  /\ answered' = answered + 1
  /\ UNCHANGED <<pc, turnCount, followUp, asked, dispatched, recovered, requests,
                 budgetVars, caller, lenAtAbort, registryVars, compactionVars>>

\* A large output is persisted first, which is awaited and never fails.
AppendResult ==
  /\ pc = "appending"
  /\ answered < Len(asked)
  /\ entries' = Append(entries, Conv!Result(asked[answered + 1]))
  /\ answered' = answered + 1
  /\ UNCHANGED <<pc, turnCount, followUp, asked, dispatched, recovered, requests,
                 budgetVars, caller, lenAtAbort, registryVars, compactionVars>>

\* shouldAutoContinue, asked only if there is a budget.
Exhausted ==
  /\ TokenBudget > 0
  /\ turnCount >= MaxTurns \/ spent >= TokenBudget \/ streak >= StaleTurns

\* Mutated form of EndTurn: one result is enough to go on.
EndTurnUnfinished ==
  /\ pc = "appending"
  /\ answered > 0
  /\ IF Exhausted THEN Ends("answer") ELSE GoesTo("top")
  /\ UNCHANGED <<turnCount, followUp, transcriptVars, dispatched, recovered,
                 requests, budgetVars, lenAtAbort, registryVars, compactionVars>>

EndTurn ==
  /\ pc = "appending"
  /\ answered = Len(asked)
  /\ IF Exhausted THEN Ends("answer") ELSE GoesTo("top")
  /\ UNCHANGED <<turnCount, followUp, transcriptVars, dispatched, recovered,
                 requests, budgetVars, lenAtAbort, registryVars, compactionVars>>

-------------------------------------------------------------------------------
(* Around the loop.                                                        *)

\* A call that execute() has entered goes on, whether the loop listens or not.
CallGoesOn(c) ==
  /\ CallStep(c)
  /\ UNCHANGED <<loopVars, compactionVars>>

UserAborts ==
  /\ caller = "waiting"
  /\ Abort("user")
  /\ lenAtAbort' = Len(entries)
  /\ UNCHANGED <<pc, turnCount, followUp, transcriptVars, dispatched, recovered,
                 requests, budgetVars, caller, compactionVars>>

\* The timer of withTimeout fires.  A signal the user has aborted keeps its
\* reason, and the caller gets the timeout all the same.
TimesOut ==
  /\ RuntimeTimeout
  /\ caller = "waiting"
  /\ caller' = "timeout"
  /\ IF Aborted THEN UNCHANGED <<registryVars, lenAtAbort>>
                ELSE Abort("timeout") /\ lenAtAbort' = Len(entries)
  /\ UNCHANGED <<pc, turnCount, followUp, transcriptVars, dispatched, recovered,
                 requests, budgetVars, compactionVars>>

LoopStep ==
  \/ OutOfTurns \/ AbortedAtTop \/ StartTurn
  \/ CompactionRetries \/ CompactionSucceeds \/ CompactionFails \/ CompactionThrows
  \/ PreparationFails \/ Prepared
  \/ ModelFails \/ ModelOverflows \/ RecoverySucceeds \/ RecoveryFails
  \/ ModelAnswers \/ FollowsUp \/ HasNothingToAdd \/ FollowUpThrows
  \/ ModelAsksForTools \/ NextBatch \/ BatchThrows \/ LastBatchDone
  \/ AppendResult \/ EndTurn

Next ==
  \/ LoopStep
  \/ \E c \in Calls : CallGoesOn(c)
  \/ UserAborts
  \/ TimesOut

Spec == Init /\ [][Next]_vars

HookSettles(c) ==
  /\ BeforeHookPasses(c) \/ BeforeHookDenies(c) \/ HookThrows(c) \/ AfterHookReturns(c)
  /\ UNCHANGED <<loopVars, compactionVars>>

ToolTimerFires(c) == ToolTimesOut(c) /\ UNCHANGED <<loopVars, compactionVars>>

\* Model calls and callbacks settle, so the loop never waits for ever on one;
\* hooks settle; the timers of tools fire.  Nothing is assumed of the tools.
Fairness ==
  /\ WF_vars(LoopStep)
  /\ \A c \in Calls : WF_vars(HookSettles(c)) /\ WF_vars(ToolTimerFires(c))

FairSpec == Spec /\ Fairness

-------------------------------------------------------------------------------
(* Properties.                                                             *)

\* Every main request is made with a transcript in which every tool call of
\* every earlier turn has its result, right behind the message that asked for
\* it and in the order asked: whatever the batches did, whatever was compacted,
\* also on the second request after an overflow.
RequestSendable ==
  pc \in {"requesting", "rerequesting"} => Conv!AllAnswered /\ Conv!Sendable

\* The transcript of a run is a conversation: see module Conversation.
RefinesConversation == Conv!ConversationSpec

\* Once the run is aborted, by the user or by the timeout, it begins nothing:
\* no turn, no main request, no tool call.
NoNewWorkAfterAbort ==
  [][Aborted =>
       /\ turnCount' = turnCount
       /\ requests' = requests
       /\ \A c \in Calls : call[c].stage = "idle" => call'[c].stage = "idle"]_vars

\* What a run may still write into the session after an abort: either one
\* entry (the answer or the summary it was waiting for), or the results of
\* the calls it had started.
AbortBoundsTranscript ==
  Aborted => Len(entries) <= lenAtAbort + (IF Len(asked) > 1 THEN Len(asked) ELSE 1)

\* A run recovers from a context overflow at most once: that is one more main
\* request than turns and one compaction above maxCompactionsPerRun.
RecoversOnce ==
  LET extra == IF recovered THEN 1 ELSE 0
  IN requests <= turnCount + extra /\ compactionCount <= MaxCompactions + extra

\* An answered run has heard of every tool call it started: each is done and
\* its result is in the transcript, so no call goes on behind the user's back
\* except one that lost the race against its own timeout.
AnswerAccountsForCalls ==
  caller = "answer" =>
    \A c \in Calls :
      \/ call[c].stage = "idle"
      \/ /\ call[c].stage = "done"
         /\ \E i \in DOMAIN entries : entries[i] = Conv!Result(c)

\* A call whose tool is not parallel-safe has the registry to itself.
InProgress == {c \in Calls : call[c].stage \in {"before", "running", "after"}}
SequentialCallsAlone ==
  \A c \in InProgress \ ParallelSafe : InProgress = {c}

\* The calls of a run (executeToolCalls) are taken care of, from the batch they
\* are in to the answer.
CallsTakenCareOf ==
  LoopTypeOK /\ CompactionTypeOK /\ AnswerAccountsForCalls /\ SequentialCallsAlone

\* If every tool has a timeout the run ends, however tools, hooks, overflows,
\* compactions and follow-ups behave, as long as model calls settle; and every
\* call that was started is answered on the way.
RunSettles == <>(pc = "ended") /\ TimedCallsAnswered

\* No turn starts once the token budget is spent.  The code does not keep this:
\* a turn that ends without tool calls but with a follow-up skips the question.
StopsOnBudgetDepleted ==
  [][turnCount' # turnCount /\ TokenBudget > 0 => spent < TokenBudget]_vars
===============================================================================
