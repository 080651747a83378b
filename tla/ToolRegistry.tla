----------------------------- MODULE ToolRegistry -----------------------------
(***************************************************************************)
(* ToolRegistry.execute (src/tools/registry.ts) and the policies it asks:  *)
(* the tool-call limit, the permission policy, the before hooks, the       *)
(* sandbox, the tool itself raced against its timeout, the classification  *)
(* of its failure, and the after hooks.  Several calls of one session are  *)
(* in flight at once: the agent loop starts a batch with Promise.all, and  *)
(* everything up to the first await of execute() runs before any other     *)
(* call takes a step.  Each await of the code is a stage of the call here. *)
(***************************************************************************)
EXTENDS Naturals, FiniteSets, Sequences

CONSTANTS
  Calls,          \* ids of the tool calls the model can ask for
  MaxToolCalls,   \* agent.tools.maxToolCalls; no limit: Cardinality(Calls) or more
  Hooks,          \* number of registered RuntimeHooks
  Inputs,         \* tool inputs, as far as the sandbox tells them apart
  InputOf,        \* InputOf[c]: the input the model gave call c
  SandboxDenied,  \* inputs decideSandboxUse refuses
  Unregistered,   \* calls that name a tool the registry does not hold
  PolicyDenied,   \* calls whose tool decideToolUse refuses
  Timed,          \* calls whose tool has a timeoutMs
  HookStatuses,   \* statuses an afterToolResult hook may put in a result
  MaxBatch        \* bound: calls per batch, in the registry's own specification

Stages   == {"idle", "before", "running", "after", "done", "thrown"}
Statuses == {"none", "success", "error", "denied", "unknown",
             "limit_exceeded", "timeout"}
Signals  == {"none", "user", "timeout"}

ASSUME RegistryAssumption ==
  /\ IsFiniteSet(Calls)
  /\ MaxToolCalls \in Nat
  /\ Hooks \in Nat
  /\ InputOf \in [Calls -> Inputs]
  /\ SandboxDenied \subseteq Inputs
  /\ Unregistered \subseteq Calls
  /\ PolicyDenied \subseteq Calls
  /\ Timed \subseteq Calls
  /\ HookStatuses \subseteq Statuses
  /\ MaxBatch \in Nat

VARIABLES
  toolCallCount,  \* session.toolCallCount
  charged,        \* history: the calls that count stands for
  call,           \* call[c]: where execute() of c stands
  launched,       \* history: the calls whose tool.execute was invoked
  zombies,        \* timed-out calls whose tool is still executing
  signal          \* the run's AbortSignal: not aborted, or the abort reason

registryVars == <<toolCallCount, charged, call, launched, zombies, signal>>

\* Index of the hook that is being awaited.
HookIndex == {h \in 0 .. Hooks : h < Hooks \/ Hooks = 0}

CallState ==
  [stage: Stages, hook: HookIndex, input: Inputs, status: Statuses]

(* Type correctness of the registry's state; in particular the loops over  *)
(* the hooks never run past the last registered hook.                      *)
RegistryTypeOK ==
  /\ toolCallCount \in Nat
  /\ charged \subseteq Calls
  /\ call \in [Calls -> CallState]
  /\ launched \subseteq Calls
  /\ zombies \subseteq Calls
  /\ signal \in Signals

RegistryInit ==
  /\ toolCallCount = 0
  /\ charged = {}
  /\ call = [c \in Calls |-> [stage |-> "idle", hook |-> 0,
                              input |-> InputOf[c], status |-> "none"]]
  /\ launched = {}
  /\ zombies = {}
  /\ signal = "none"

-------------------------------------------------------------------------------
(* The steps of one call between two awaits.                               *)

\* finalize(): the result exists and the afterToolResult hooks get to see it.
Finalized(r, status) ==
  [r EXCEPT !.stage = IF Hooks = 0 THEN "done" ELSE "after",
            !.hook = 0,
            !.status = status]

\* The sandbox judges the input as the hooks left it; then the tool starts.
Sandboxed(r) ==
  IF r.input \in SandboxDenied THEN Finalized(r, "denied")
                               ELSE [r EXCEPT !.stage = "running"]

\* Mutated form of PastHook: the sandbox was asked before the hooks ran.
PastHookUnsandboxed(r) ==
  IF r.hook + 1 < Hooks THEN [r EXCEPT !.hook = @ + 1]
                        ELSE [r EXCEPT !.stage = "running"]

\* One more beforeToolCall hook has let the call pass.
PastHook(r) ==
  IF r.hook + 1 < Hooks THEN [r EXCEPT !.hook = @ + 1] ELSE Sandboxed(r)

\* How far execute() gets before its first await.
Entered(c, admitted) ==
  CASE ~admitted                            -> Finalized(call[c], "limit_exceeded")
    [] admitted /\ c \in Unregistered       -> Finalized(call[c], "unknown")
    [] admitted /\ c \in PolicyDenied \ Unregistered
                                            -> Finalized(call[c], "denied")
    [] admitted /\ c \notin PolicyDenied \cup Unregistered
                                            -> IF Hooks = 0
                                               THEN Sandboxed(call[c])
                                               ELSE [call[c] EXCEPT !.stage = "before"]

\* The first calls of a batch, as many as the limit leaves room for: the i-th
\* execute() of a batch finds toolCallCount already raised by those before it.
Room == IF toolCallCount < MaxToolCalls THEN MaxToolCalls - toolCallCount ELSE 0

\* Mutated form of AdmittedLength: the count is raised after an await, so the
\* calls of a batch do not see each other.
AdmittedLengthStale(batch) == IF Room > 0 THEN Len(batch) ELSE 0

AdmittedLength(batch) == IF Len(batch) < Room THEN Len(batch) ELSE Room
Admitted(batch) == {batch[i] : i \in 1 .. AdmittedLength(batch)}
Members(batch) == {batch[i] : i \in 1 .. Len(batch)}

IsBatch(batch) ==
  /\ batch # <<>>
  /\ \A i \in DOMAIN batch : call[batch[i]].stage = "idle"
  /\ \A i, j \in DOMAIN batch : batch[i] = batch[j] => i = j

Dispatch(batch) ==
  /\ IsBatch(batch)
  /\ toolCallCount' = toolCallCount + AdmittedLength(batch)
  /\ charged' = charged \cup Admitted(batch)
  /\ call' = [c \in Calls |-> IF c \in Members(batch)
                              THEN Entered(c, c \in Admitted(batch))
                              ELSE call[c]]
  /\ launched' = launched \cup {c \in Members(batch) : call'[c].stage = "running"}
  /\ UNCHANGED <<zombies, signal>>

\* Call c moves on to state r, and no other call notices.
MoveTo(c, r) ==
  /\ call' = [call EXCEPT ![c] = r]
  /\ UNCHANGED <<toolCallCount, charged, signal>>

BeforeHookPasses(c) ==
  \E input \in Inputs :     \* the same input, or the one a "mutate" puts there
    LET r == PastHook([call[c] EXCEPT !.input = input])
    IN /\ call[c].stage = "before"
       /\ MoveTo(c, r)
       /\ launched' = launched \cup (IF r.stage = "running" THEN {c} ELSE {})
       /\ UNCHANGED zombies

BeforeHookDenies(c) ==
  /\ call[c].stage = "before"
  /\ MoveTo(c, Finalized(call[c], "denied"))
  /\ UNCHANGED <<launched, zombies>>

\* A hook that throws rejects execute(), whatever the tool did.
HookThrows(c) ==
  /\ call[c].stage \in {"before", "after"}
  /\ MoveTo(c, [call[c] EXCEPT !.stage = "thrown"])
  /\ UNCHANGED <<launched, zombies>>

ToolReturns(c) ==
  /\ call[c].stage = "running"
  /\ MoveTo(c, Finalized(call[c], "success"))
  /\ UNCHANGED <<launched, zombies>>

\* The tool rejects; a message that says "timed out" is reported as a timeout.
ToolFails(c) ==
  /\ call[c].stage = "running"
  /\ \E status \in {"error", "timeout"} : MoveTo(c, Finalized(call[c], status))
  /\ UNCHANGED <<launched, zombies>>

\* The tool rejects with an AbortError, its own or the user's: execute()
\* rethrows it.  classifyToolError does not ask whether the run was aborted.
ToolAborts(c) ==
  /\ call[c].stage = "running"
  /\ MoveTo(c, [call[c] EXCEPT !.stage = "thrown"])
  /\ UNCHANGED <<launched, zombies>>

\* The tool rejects with the reason of the run's signal.  The runtime's timeout
\* is no AbortError to isAbortError, and its message says "timed out".
ToolRejectsWithReason(c) ==
  /\ call[c].stage = "running"
  /\ signal # "none"
  /\ MoveTo(c, IF signal = "timeout" THEN Finalized(call[c], "timeout")
                                     ELSE [call[c] EXCEPT !.stage = "thrown"])
  /\ UNCHANGED <<launched, zombies>>

\* Mutated form of ToolTimesOut: the timer is cleared when the run is aborted.
ToolTimesOutUnlessAborted(c) ==
  /\ c \in Timed
  /\ call[c].stage = "running"
  /\ signal = "none"
  /\ MoveTo(c, Finalized(call[c], "timeout"))
  /\ zombies' = zombies \cup {c}
  /\ UNCHANGED launched

\* timeoutMs passes first: the race is lost, the tool goes on unheard.
ToolTimesOut(c) ==
  /\ c \in Timed
  /\ call[c].stage = "running"
  /\ MoveTo(c, Finalized(call[c], "timeout"))
  /\ zombies' = zombies \cup {c}
  /\ UNCHANGED launched

\* Mutated form of ZombieSettles: the late result replaces the timeout.
ZombieReports(c) ==
  /\ c \in zombies
  /\ zombies' = zombies \ {c}
  /\ MoveTo(c, Finalized(call[c], "success"))
  /\ UNCHANGED launched

\* A tool that lost its race settles; nobody is listening any more.
ZombieSettles(c) ==
  /\ c \in zombies
  /\ zombies' = zombies \ {c}
  /\ UNCHANGED <<toolCallCount, charged, call, launched, signal>>

AfterHookReturns(c) ==
  /\ call[c].stage = "after"
  /\ \E status \in {call[c].status} \cup HookStatuses :
       MoveTo(c, IF call[c].hook + 1 < Hooks
                 THEN [call[c] EXCEPT !.hook = @ + 1, !.status = status]
                 ELSE [call[c] EXCEPT !.stage = "done", !.status = status])
  /\ UNCHANGED <<launched, zombies>>

CallStep(c) ==
  \/ BeforeHookPasses(c) \/ BeforeHookDenies(c) \/ HookThrows(c)
  \/ ToolReturns(c) \/ ToolFails(c) \/ ToolAborts(c) \/ ToolRejectsWithReason(c)
  \/ ToolTimesOut(c) \/ AfterHookReturns(c) \/ ZombieSettles(c)

\* The user (or the caller's own signal) interrupts, or the run times out.
Abort(reason) ==
  /\ signal = "none"
  /\ signal' = reason
  /\ UNCHANGED <<toolCallCount, charged, call, launched, zombies>>

-------------------------------------------------------------------------------
(* The registry on its own: any batches, in any order.                     *)

Batches(n) == UNION {[1 .. k -> Calls] : k \in 1 .. n}

RegistryNext ==
  \/ \E batch \in Batches(MaxBatch) : Dispatch(batch)
  \/ \E c \in Calls : CallStep(c)
  \/ \E reason \in Signals \ {"none"} : Abort(reason)

RegistrySpec == RegistryInit /\ [][RegistryNext]_registryVars

-------------------------------------------------------------------------------
(* Properties.                                                             *)

\* However the calls of concurrent batches interleave, no more tools run than
\* maxToolCalls allows: the limit is read and counted before the first await,
\* so a call that is still in its hooks has already been counted.
LimitHolds == Cardinality(launched) <= MaxToolCalls

\* A tool only ever runs if it is registered, the permission policy allowed it
\* and the sandbox accepts the very input it runs on, also when a hook
\* rewrote that input after the policy had decided.
LaunchPermitted ==
  \A c \in launched :
    c \notin Unregistered \cup PolicyDenied /\ call[c].input \notin SandboxDenied

\* Once execute() has resolved or rejected, its result is final: a tool that
\* lost the race against its timeout and settles later changes nothing.
ResultIsFinal ==
  [][\A c \in Calls : call[c].stage \in {"done", "thrown"} => call'[c] = call[c]]_registryVars

\* A call whose tool has a timeout is answered even if the tool never settles.
TimedCallsAnswered ==
  \A c \in Timed : call[c].stage = "before" ~> call[c].stage \in {"done", "thrown"}
===============================================================================
