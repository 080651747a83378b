------------------------------- MODULE ChatView -------------------------------
(***************************************************************************)
(* What the web chat shows (src/web/state.ts): the log, the tools that     *)
(* run and the status, built from the trace events of the runs its         *)
(* controller starts (src/web/turn-controller.ts, runChatTurn in           *)
(* src/cli/chat-service.ts).  A run that is interrupted stays until its    *)
(* loop has noticed; one that timed out is given up and not over: what its *)
(* model call or its tools still deliver reaches the same view, between    *)
(* the events of the next run or of the next session.                      *)
(*                                                                         *)
(* The text of an entry is what the log has of a response: part of it or   *)
(* the whole.  Scores, notices of truncation, statistics, durations and    *)
(* the trace are left out.                                                 *)
(***************************************************************************)
EXTENDS Integers, Sequences, FiniteSets

CONSTANTS
  MaxRuns,        \* bound: runs started
  MaxResponses,   \* bound: responses of the model
  MaxIds,         \* bound: log entries created
  MaxShown        \* maxLogEntries (200 by default)

ASSUME ViewAssumption == {MaxRuns, MaxResponses, MaxIds, MaxShown} \subseteq Nat

VARIABLES
  view,      \* the ChatState
  loopAt,    \* where the loop of each run stands
  shownRun,  \* the run the controller waits for (0: none; it is not busy)
  stopped,   \* that run was interrupted
  said       \* history: the entry each response was shown in, since the log
             \* was last emptied

viewVars == <<view, loopAt, shownRun, stopped, said>>

RunIds == 1 .. MaxRuns
Kinds == {"user", "system", "error", "assistant", "reasoning", "tool_call", "tool_result"}
Statuses == {"blank", "idle", "thinking", "running_tool", "done", "error"}
EmptyView == [log |-> <<>>, running |-> {}, status |-> "idle", failed |-> FALSE,
              answering |-> 0, reasoning |-> 0, noticed |-> FALSE, created |-> 0]

\* A run: the calls of its answer announced without a result, and those behind.
At(stage)  == [stage |-> stage, now |-> {}, next |-> {}]

-------------------------------------------------------------------------------
(* The log.                                                                *)

Shown(v, id) == \E n \in DOMAIN v.log : v.log[n].id = id

\* trimLog: an entry that is streamed to and no longer there is forgotten.
Trim(v) ==
  LET kept == SubSeq(v.log, Len(v.log) - MaxShown + 1, Len(v.log))
      trimmed == [v EXCEPT !.log = kept]
  IN IF Len(v.log) <= MaxShown THEN v
     ELSE [trimmed EXCEPT
             !.answering = IF Shown(trimmed, @) THEN @ ELSE 0,
             !.reasoning = IF Shown(trimmed, @) THEN @ ELSE 0]

Push(v, kind, whole) ==
  [v EXCEPT !.created = @ + 1,
            !.log = Append(@, [id |-> v.created + 1, kind |-> kind, whole |-> whole])]

AddLog(v, kind) == Trim(Push(v, kind, 0))

\* The text of the entry id, wherever it is.
SetText(v, id, whole) ==
  [v EXCEPT !.log = [n \in DOMAIN v.log |->
                       IF v.log[n].id = id THEN [v.log[n] EXCEPT !.whole = whole] ELSE v.log[n]]]

-------------------------------------------------------------------------------
(* The events.                                                             *)

RunStart(v)     == [v EXCEPT !.status = "thinking", !.failed = FALSE]
ModelRequest(v) == [v EXCEPT !.status = "thinking"]
AddError(v)     == AddLog([v EXCEPT !.failed = TRUE, !.status = "error"], "error")

RunEnd(v, failed) ==
  [v EXCEPT !.answering = 0, !.reasoning = 0,
            !.failed = @ \/ failed,
            !.status = IF v.failed \/ failed THEN "error" ELSE "done"]

AssistantDelta(v) ==
  IF Shown(v, v.answering) THEN SetText(v, v.answering, 0)
  ELSE Trim([Push(v, "assistant", 0) EXCEPT !.answering = v.created + 1])

ReasoningDelta(v) ==
  IF Shown(v, v.reasoning) THEN SetText(v, v.reasoning, 0)
  ELSE Trim([Push(v, "reasoning", 0) EXCEPT !.reasoning = v.created + 1])

\* The entry a response's text goes to.
AnswerEntry(v) == IF Shown(v, v.answering) THEN v.answering ELSE v.created + 1

Upsert(v, response) ==
  IF Shown(v, v.answering) THEN SetText(v, v.answering, response)
  ELSE Trim(Push(v, "assistant", response))

\* Mutated form of ModelResponse: the entry of the answer stays the one that is
\* streamed to.
ModelResponseStreaming(v, response) ==
  [(IF response = 0 THEN v ELSE Upsert(v, response)) EXCEPT
     !.reasoning = 0,
     !.status = IF v.running = {} THEN "idle" ELSE @]

\* A response without text (0) leaves the log as it is.
ModelResponse(v, response) ==
  [(IF response = 0 THEN v ELSE Upsert(v, response)) EXCEPT
     !.answering = 0, !.reasoning = 0,
     !.status = IF v.running = {} THEN "idle" ELSE @]

ToolCall(v, r, c) ==
  AddLog([v EXCEPT !.status = "running_tool", !.running = @ \cup {<<r, c>>}], "tool_call")

ToolResult(v, r, c) ==
  LET still == v.running \ {<<r, c>>}
  IN AddLog([v EXCEPT !.running = still,
                      !.status = IF still = {} THEN "idle" ELSE "running_tool"], "tool_result")

\* The events of a batch's calls follow each other with nothing between.
ToolCalls(v, r, batch) ==
  IF batch = {1, 2} THEN ToolCall(ToolCall(v, r, 1), r, 2)
  ELSE ToolCall(v, r, CHOOSE c \in batch : TRUE)

-------------------------------------------------------------------------------
ViewBlank ==
  /\ view = [EmptyView EXCEPT !.status = "blank"]
  /\ loopAt = [r \in RunIds |-> At("unborn")]
  /\ shownRun = 0 /\ stopped = FALSE
  /\ said = <<>>

OpenView ==
  /\ view.status = "blank"
  /\ view' = EmptyView
  /\ UNCHANGED <<loopAt, shownRun, stopped, said>>

Room(n) == view.status # "blank" /\ view.created + n <= MaxIds

Stands(r, stage) == loopAt' = [loopAt EXCEPT ![r] = At(stage)]

\* submitTurn: busy until the run is settled and saved.
SubmitTurn(r) ==
  /\ Room(1)
  /\ shownRun = 0
  /\ loopAt[r].stage = "unborn" /\ \A q \in RunIds : q < r => loopAt[q].stage # "unborn"
  /\ view' = RunStart(AddLog([view EXCEPT !.noticed = FALSE], "user"))
  /\ Stands(r, "due")
  /\ shownRun' = r
  /\ UNCHANGED <<stopped, said>>

\* showBusyNotice: once for each run.
SubmitBusy ==
  /\ Room(1)
  /\ shownRun # 0 /\ ~view.noticed
  /\ view' = [AddLog(view, "system") EXCEPT !.noticed = TRUE]
  /\ UNCHANGED <<loopAt, shownRun, stopped, said>>

\* interruptTurn: the signal is aborted, and the run goes on until it looks.
InterruptRun(r) ==
  /\ shownRun = r /\ ~stopped /\ Room(0)
  /\ stopped' = TRUE
  /\ UNCHANGED <<view, loopAt, shownRun, said>>

GivenUp(r) == r # shownRun
Aborted(r) == GivenUp(r) \/ stopped

\* The loop of r, whose view is v by then, returns: the run ends and is saved.
Returns(r, v) ==
  \/ GivenUp(r) /\ view' = v /\ Stands(r, "gone")
  \/ ~GivenUp(r) /\ view' = RunEnd(v, FALSE) /\ Stands(r, "saving")

\* It throws, its signal being aborted: an interrupted run is saved, too.
Throws(r, v) ==
  \/ GivenUp(r) /\ view' = v /\ Stands(r, "gone")
  \/ ~GivenUp(r) /\ view' = RunEnd(AddLog(v, "system"), FALSE) /\ Stands(r, "stopping")

\* Top of the loop, which ends when its turns are used up, up to the request.
Ask(r) ==
  /\ loopAt[r].stage = "due" /\ Room(1)
  /\ \/ Returns(r, view)
     \/ Aborted(r) /\ Throws(r, view)
     \/ ~Aborted(r) /\ view' = ModelRequest(view) /\ Stands(r, "asked")
  /\ UNCHANGED <<shownRun, stopped, said>>

Delta(r) ==
  /\ Room(1)
  /\ loopAt[r].stage = "asked"
  /\ view' \in {AssistantDelta(view), ReasoningDelta(view)}
  /\ UNCHANGED <<loopAt, shownRun, stopped, said>>

\* The loop records the response.  Without calls it ends, aborted or not, or goes
\* to its top with a follow-up; with calls it looks whether it may go on and
\* announces the first batch of them.
Respond(r) ==
  /\ loopAt[r].stage = "asked" /\ Room(3) /\ Len(said) < MaxResponses
  /\ \E withText \in BOOLEAN :
       LET v == ModelResponse(view, IF withText THEN Len(said) + 1 ELSE 0)
       IN /\ said' = Append(said, IF withText THEN AnswerEntry(view) ELSE 0)
          /\ \/ Returns(r, v)
             \/ view' = v /\ Stands(r, "due")
             \/ Aborted(r) /\ Throws(r, v)
             \/ /\ ~Aborted(r)
                /\ \E calls \in {{1}, {1, 2}} : \E batch \in {{1}, calls} :
                     /\ view' = ToolCalls(v, r, batch)
                     /\ loopAt' = [loopAt EXCEPT ![r] =
                                   [stage |-> "called", now |-> batch, next |-> calls \ batch]]
  /\ UNCHANGED <<shownRun, stopped>>

\* The calls left are announced.
Announced(run) == [run EXCEPT !.now = @ \cup run.next, !.next = {}]

\* A batch is done.  Calls left are announced next; an aborted run throws there,
\* and the results it has are lost.
BatchDone(r) ==
  /\ loopAt[r].stage = "called" /\ Room(1)
  /\ \/ /\ loopAt[r].next = {}
        /\ loopAt' = [loopAt EXCEPT ![r].stage = "reporting"]
        /\ UNCHANGED view
     \/ /\ loopAt[r].next # {} /\ Aborted(r)
        /\ Throws(r, view)
     \/ /\ loopAt[r].next # {} /\ ~Aborted(r)
        /\ view' = ToolCalls(view, r, loopAt[r].next)
        /\ loopAt' = [loopAt EXCEPT ![r] = Announced(@)]
  /\ UNCHANGED <<shownRun, stopped, said>>

\* Results are recorded one by one, with the persisting of a large one between.
ReportResult(r) ==
  /\ loopAt[r].stage = "reporting" /\ Room(1)
  /\ LET c == CHOOSE c \in loopAt[r].now : \A d \in loopAt[r].now : c <= d
         rest == loopAt[r].now \ {c}
     IN /\ view' = ToolResult(view, r, c)
        /\ loopAt' = [loopAt EXCEPT ![r] = IF rest = {} THEN At("due") ELSE [@ EXCEPT !.now = rest]]
  /\ UNCHANGED <<shownRun, stopped, said>>

\* The model client fails, the context cannot be made to fit, a call throws or its
\* result cannot be stored; of an aborted run that is taken for its interrupt.
RunThrows(r) ==
  /\ loopAt[r].stage \in {"due", "asked", "called", "reporting"} /\ Room(1)
  /\ \/ /\ Aborted(r)
        /\ Throws(r, view)
        /\ UNCHANGED shownRun
     \/ /\ ~Aborted(r)
        /\ view' = RunEnd(AddError(view), TRUE)
        /\ Stands(r, "gone")
        /\ shownRun' = 0
  /\ UNCHANGED <<stopped, said>>

\* The run's timeout: the loop is not waited for.
TimeOut(r) ==
  /\ shownRun = r /\ loopAt[r].stage \notin {"saving", "stopping"} /\ Room(1)
  /\ view' = RunEnd(AddError(view), TRUE)
  /\ shownRun' = 0 /\ stopped' = FALSE
  /\ UNCHANGED <<loopAt, said>>

\* finalizeChatTurn is done, or fails: with an error on show unless the run was
\* interrupted ...
FinishTurn(r) ==
  /\ loopAt[r].stage \in {"saving", "stopping"} /\ Room(1)
  /\ \/ UNCHANGED view
     \/ loopAt[r].stage = "saving" /\ ~stopped /\ view' = RunEnd(AddError(view), TRUE)
  /\ Stands(r, "gone")
  /\ shownRun' = 0 /\ stopped' = FALSE
  /\ UNCHANGED said

\* ... and an answered run interrupted since then ends once more, and is saved again.
SavingStopped(r) ==
  /\ loopAt[r].stage = "saving" /\ stopped /\ Room(1)
  /\ Throws(r, view)
  /\ UNCHANGED <<shownRun, stopped, said>>

\* What was said is no longer there to be shown.
Emptied == said' = [n \in DOMAIN said |-> 0]

\* /clear, at any time: a response that is being streamed gets a new entry.
ClearLog ==
  /\ Room(1) /\ view.log # <<>>
  /\ view' = AddLog([view EXCEPT !.log = <<>>], "system")
  /\ Emptied
  /\ UNCHANGED <<loopAt, shownRun, stopped>>

\* newSession: the same ChatState begins anew.  Ids are never used again.
ResetView ==
  /\ Room(0) /\ shownRun = 0 /\ view.log # <<>>
  /\ view' = [EmptyView EXCEPT !.created = view.created]
  /\ Emptied
  /\ UNCHANGED <<loopAt, shownRun, stopped>>

\* A resumed session's view begins with its stored messages.
RestoreMessages ==
  /\ Room(2) /\ view.created = 0
  /\ view' = AddLog(AddLog([view EXCEPT !.log = <<>>], "user"), "assistant")
  /\ UNCHANGED <<loopAt, shownRun, stopped, said>>

RunEvent(r) ==
  \/ SubmitTurn(r) \/ Ask(r) \/ Delta(r) \/ Respond(r) \/ BatchDone(r) \/ ReportResult(r)
  \/ RunThrows(r) \/ TimeOut(r) \/ InterruptRun(r) \/ FinishTurn(r) \/ SavingStopped(r)

ViewNext ==
  \/ OpenView \/ RestoreMessages
  \/ SubmitBusy \/ ClearLog \/ ResetView
  \/ \E r \in RunIds : RunEvent(r)

ViewSpec == ViewBlank /\ [][ViewNext]_viewVars

-------------------------------------------------------------------------------
(* Type correctness; what is streamed to is an entry of its kind. *)
ViewTypeOK ==
  /\ view.status \in Statuses
  /\ view.created \in 0 .. MaxIds + 3 /\ Len(view.log) <= MaxShown
  /\ view.running \subseteq RunIds \X {1, 2}
  /\ shownRun \in 0 .. MaxRuns /\ stopped \in BOOLEAN /\ (stopped => shownRun # 0)
  /\ \A n \in DOMAIN view.log :
       /\ view.log[n].kind \in Kinds /\ view.log[n].whole \in 0 .. Len(said)
       /\ view.log[n].id = view.answering => view.log[n].kind = "assistant"
       /\ view.log[n].id = view.reasoning => view.log[n].kind = "reasoning"

(* Every answer stays in the log, whole and in an entry of its own, until   *)
(* the log is emptied or the entry is trimmed, however the deltas and       *)
(* results of runs given up mix with those of the next (upsertAssistant-    *)
(* Response, applyModelResponse, applyRunEnd, trimLog).                     *)
AnswersShown ==
  \A k \in DOMAIN said :
    /\ said[k] # 0 /\ view.log # <<>> /\ view.log[1].id <= said[k] =>
         \E n \in DOMAIN view.log : view.log[n].id = said[k] /\ view.log[n].whole = k
    /\ \A j \in 1 .. k - 1 : said[k] = 0 \/ said[j] # said[k]

(* The view of src/web/state.ts shows what was answered.                   *)
ViewSound == ViewTypeOK /\ AnswersShown
===============================================================================
