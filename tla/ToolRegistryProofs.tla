-------------------------- MODULE ToolRegistryProofs --------------------------
(***************************************************************************)
(* Proofs about the tool registry, for any number of calls, hooks and      *)
(* inputs.  The lemmas are about one Dispatch, one CallStep or one Abort,  *)
(* so that the proofs about the agent loop can use them as well.           *)
(***************************************************************************)
EXTENDS ToolRegistry, FiniteSetTheorems, TLAPS

\* The three kinds of steps that change the registry's state.
RegistryStep ==
  \/ \E batch \in Seq(Calls) : Dispatch(batch)
  \/ \E c \in Calls : CallStep(c)
  \/ \E reason \in Signals \ {"none"} : Abort(reason)
  \/ UNCHANGED registryVars

LEMMA NextIsRegistryStep == [RegistryNext]_registryVars => RegistryStep
<1>1. ASSUME NEW batch \in Batches(MaxBatch)
      PROVE  batch \in Seq(Calls)
  <2>1. PICK k \in 1 .. MaxBatch : batch \in [1 .. k -> Calls]
    BY DEF Batches
  <2>2. k \in Nat
    BY <2>1, RegistryAssumption
  <2>3. QED
    BY <2>1, <2>2
<1>2. QED
  BY <1>1 DEF RegistryNext, RegistryStep

-------------------------------------------------------------------------------
(* The states a call can be in.                                            *)

LEMMA ZeroIsHookIndex == 0 \in HookIndex
BY RegistryAssumption DEF HookIndex

\* finalize() leaves a well-formed call that has not been launched by it.
LEMMA FinalizedTyped ==
  ASSUME NEW r \in CallState, NEW status \in Statuses
  PROVE  /\ Finalized(r, status) \in CallState
         /\ Finalized(r, status).stage \in {"after", "done"}
         /\ Finalized(r, status).input = r.input
BY ZeroIsHookIndex DEF Finalized, CallState, Stages

\* Past the sandbox a call either runs on an input the sandbox accepts, or it
\* is over.
LEMMA SandboxedTyped ==
  ASSUME NEW r \in CallState
  PROVE  /\ Sandboxed(r) \in CallState
         /\ Sandboxed(r).stage \in {"running", "after", "done"}
         /\ Sandboxed(r).stage = "running" => Sandboxed(r).input \notin SandboxDenied
<1>1. CASE r.input \in SandboxDenied
  BY <1>1, FinalizedTyped DEF Sandboxed, Statuses
<1>2. CASE r.input \notin SandboxDenied
  BY <1>2 DEF Sandboxed, CallState, Stages
<1>3. QED
  BY <1>1, <1>2

LEMMA PastHookTyped ==
  ASSUME NEW r \in CallState, r.stage = "before"
  PROVE  /\ PastHook(r) \in CallState
         /\ PastHook(r).stage \in {"before", "running", "after", "done"}
         /\ PastHook(r).stage = "running" => PastHook(r).input \notin SandboxDenied
<1>1. CASE r.hook + 1 < Hooks
  <2>1. r.hook + 1 \in HookIndex
    BY <1>1, RegistryAssumption DEF CallState, HookIndex
  <2>2. QED
    BY <1>1, <2>1 DEF PastHook, CallState, Stages
<1>2. CASE ~(r.hook + 1 < Hooks)
  BY <1>2, SandboxedTyped DEF PastHook
<1>3. QED
  BY <1>1, <1>2

\* A call that execute() enters is not idle any more; it only gets to its hooks
\* or its tool if it was admitted, is registered and is allowed.
LEMMA EnteredTyped ==
  ASSUME RegistryTypeOK, NEW c \in Calls, NEW admitted \in BOOLEAN
  PROVE  /\ Entered(c, admitted) \in CallState
         /\ Entered(c, admitted).stage \in {"before", "running", "after", "done"}
         /\ Entered(c, admitted).stage \in {"before", "running"} =>
              admitted /\ c \notin Unregistered \cup PolicyDenied
         /\ Entered(c, admitted).stage = "running" =>
              Entered(c, admitted).input \notin SandboxDenied
<1>1. call[c] \in CallState
  BY DEF RegistryTypeOK
<1>2. {"limit_exceeded", "unknown", "denied"} \subseteq Statuses
  BY DEF Statuses
<1>3. CASE ~admitted
  <2>1. Entered(c, admitted) = Finalized(call[c], "limit_exceeded")
    BY <1>3 DEF Entered
  <2>2. QED
    BY <1>1, <1>2, <2>1, FinalizedTyped
<1>4. CASE admitted /\ c \in Unregistered
  <2>1. Entered(c, admitted) = Finalized(call[c], "unknown")
    BY <1>4 DEF Entered
  <2>2. QED
    BY <1>1, <1>2, <2>1, FinalizedTyped
<1>5. CASE admitted /\ c \in PolicyDenied \ Unregistered
  <2>1. Entered(c, admitted) = Finalized(call[c], "denied")
    BY <1>5 DEF Entered
  <2>2. QED
    BY <1>1, <1>2, <2>1, FinalizedTyped
<1>6. CASE admitted /\ c \notin PolicyDenied \cup Unregistered
  <2>1. Entered(c, admitted) = IF Hooks = 0 THEN Sandboxed(call[c])
                               ELSE [call[c] EXCEPT !.stage = "before"]
    BY <1>6 DEF Entered
  <2>2. CASE Hooks = 0
    BY <1>1, <1>6, <2>1, <2>2, SandboxedTyped
  <2>3. CASE Hooks # 0
    BY <1>1, <1>6, <2>1, <2>3 DEF CallState, Stages
  <2>4. QED
    BY <2>2, <2>3
<1>7. QED
  BY <1>3, <1>4, <1>5, <1>6

\* The same of a call that is admitted if it is in S.
LEMMA EnteredOfBatch ==
  ASSUME RegistryTypeOK, NEW c \in Calls, NEW S
  PROVE  /\ Entered(c, c \in S) \in CallState
         /\ Entered(c, c \in S).stage \in {"before", "running", "after", "done"}
         /\ Entered(c, c \in S).stage \in {"before", "running"} =>
              c \in S /\ c \notin Unregistered \cup PolicyDenied
         /\ Entered(c, c \in S).stage = "running" =>
              Entered(c, c \in S).input \notin SandboxDenied
<1> DEFINE admitted == c \in S
<1>1. admitted \in BOOLEAN
  OBVIOUS
<1> HIDE DEF admitted
<1>2. /\ Entered(c, admitted) \in CallState
      /\ Entered(c, admitted).stage \in {"before", "running", "after", "done"}
      /\ Entered(c, admitted).stage \in {"before", "running"} =>
           admitted /\ c \notin Unregistered \cup PolicyDenied
      /\ Entered(c, admitted).stage = "running" =>
           Entered(c, admitted).input \notin SandboxDenied
  BY <1>1, EnteredTyped
<1>3. QED
  BY <1>2, Zenon DEF admitted

-------------------------------------------------------------------------------
(* What one call's step does to the others and to the bookkeeping.         *)

\* What a step of c is to the registry: c alone moves, from one well-formed
\* state to another; it is launched exactly when it starts to run, from its
\* hooks, on an accepted input.
MovesAlone(c) ==
  /\ UNCHANGED <<toolCallCount, charged, signal>>
  /\ call'[c] \in CallState
  /\ call' = [call EXCEPT ![c] = call'[c]]
  /\ zombies' \in SUBSET Calls
  /\ call[c].stage \in {"idle", "done", "thrown"} => call' = call

LeavesAlone(c) ==
  /\ launched' = launched
  /\ call'[c].stage \in {call[c].stage, "after", "done", "thrown"}
  /\ call[c].stage # "before" => call'[c].input = call[c].input

Launches(c) ==
  /\ launched' = launched \cup {c}
  /\ call[c].stage = "before"
  /\ call'[c].stage = "running"
  /\ call'[c].input \notin SandboxDenied

LEMMA CallStepEffect ==
  ASSUME RegistryTypeOK, NEW c \in Calls, CallStep(c)
  PROVE  MovesAlone(c) /\ (LeavesAlone(c) \/ Launches(c))
<1>1. call \in [Calls -> CallState] /\ call[c] \in CallState /\ zombies \subseteq Calls
  BY DEF RegistryTypeOK
<1>2. ASSUME NEW r \in CallState, MoveTo(c, r),
             call[c].stage \in {"before", "running", "after"},
             r.stage \in {"after", "done", "thrown"}, r.input = call[c].input,
             launched' = launched, zombies' \in SUBSET Calls
      PROVE  MovesAlone(c) /\ LeavesAlone(c)
  BY <1>1, <1>2 DEF MoveTo, MovesAlone, LeavesAlone
<1>3. \A status \in {"success", "error", "timeout", "denied"} : status \in Statuses
  BY DEF Statuses
<1> DEFINE thrown == [call[c] EXCEPT !.stage = "thrown"]
<1>4. thrown \in CallState /\ thrown.stage = "thrown" /\ thrown.input = call[c].input
  BY <1>1 DEF CallState, Stages
<1>5. ASSUME NEW status \in {"success", "error", "timeout", "denied"},
             MoveTo(c, Finalized(call[c], status)),
             call[c].stage \in {"before", "running"},
             launched' = launched, zombies' \in SUBSET Calls
      PROVE  MovesAlone(c) /\ LeavesAlone(c)
  <2>1. /\ Finalized(call[c], status) \in CallState
        /\ Finalized(call[c], status).stage \in {"after", "done"}
        /\ Finalized(call[c], status).input = call[c].input
    BY <1>1, <1>3, <1>5, FinalizedTyped
  <2>2. QED
    BY <1>2, <1>5, <2>1
<1>6. ASSUME MoveTo(c, thrown), call[c].stage \in {"before", "running", "after"},
             launched' = launched, zombies' \in SUBSET Calls
      PROVE  MovesAlone(c) /\ LeavesAlone(c)
  <2> HIDE DEF thrown
  <2>1. QED
    BY <1>2, <1>4, <1>6
<1>7. CASE BeforeHookPasses(c)
  <2>1. PICK input \in Inputs :
          LET r == PastHook([call[c] EXCEPT !.input = input])
          IN /\ call[c].stage = "before"
             /\ MoveTo(c, r)
             /\ launched' = launched \cup (IF r.stage = "running" THEN {c} ELSE {})
             /\ UNCHANGED zombies
    BY <1>7 DEF BeforeHookPasses
  <2> DEFINE s == [call[c] EXCEPT !.input = input]
             r == PastHook(s)
  <2>2. s \in CallState /\ s.stage = "before"
    BY <1>1, <2>1 DEF CallState
  <2>3. /\ r \in CallState
        /\ r.stage \in {"before", "running", "after", "done"}
        /\ r.stage = "running" => r.input \notin SandboxDenied
    BY <2>2, PastHookTyped
  <2>4. /\ MoveTo(c, r)
        /\ call[c].stage = "before"
        /\ UNCHANGED zombies
        /\ launched' = launched \cup (IF r.stage = "running" THEN {c} ELSE {})
    BY <2>1
  <2> HIDE DEF r
  <2>5. MovesAlone(c) /\ call'[c] = r
    BY <1>1, <2>3, <2>4 DEF MoveTo, MovesAlone
  <2>6. CASE r.stage = "running"
    BY <2>3, <2>4, <2>5, <2>6 DEF Launches
  <2>7. CASE r.stage # "running"
    BY <2>3, <2>4, <2>5, <2>7 DEF LeavesAlone
  <2>8. QED
    BY <2>5, <2>6, <2>7
<1>8. CASE BeforeHookDenies(c)
  BY <1>1, <1>5, <1>8 DEF BeforeHookDenies
<1>9. CASE HookThrows(c)
  BY <1>1, <1>6, <1>9 DEF HookThrows
<1>10. CASE ToolReturns(c)
  BY <1>1, <1>5, <1>10 DEF ToolReturns
<1>11. CASE ToolFails(c)
  <2>1. PICK status \in {"error", "timeout"} : MoveTo(c, Finalized(call[c], status))
    BY <1>11 DEF ToolFails
  <2>2. QED
    BY <1>1, <1>5, <1>11, <2>1 DEF ToolFails
<1>12. CASE ToolAborts(c)
  BY <1>1, <1>6, <1>12 DEF ToolAborts
<1>13. CASE ToolRejectsWithReason(c)
  <2>1. CASE signal = "timeout"
    BY <1>1, <1>5, <1>13, <2>1 DEF ToolRejectsWithReason
  <2>2. CASE signal # "timeout"
    BY <1>1, <1>6, <1>13, <2>2 DEF ToolRejectsWithReason
  <2>3. QED
    BY <2>1, <2>2
<1>14. CASE ToolTimesOut(c)
  <2>1. zombies' \in SUBSET Calls
    BY <1>1, <1>14 DEF ToolTimesOut
  <2>2. QED
    BY <1>5, <1>14, <2>1 DEF ToolTimesOut
<1>15. CASE AfterHookReturns(c)
  <2>1. PICK status \in {call[c].status} \cup HookStatuses :
          MoveTo(c, IF call[c].hook + 1 < Hooks
                    THEN [call[c] EXCEPT !.hook = @ + 1, !.status = status]
                    ELSE [call[c] EXCEPT !.stage = "done", !.status = status])
    BY <1>15 DEF AfterHookReturns
  <2>2. status \in Statuses
    BY <1>1, <2>1, RegistryAssumption DEF CallState
  <2>3. call[c].stage = "after" /\ launched' = launched /\ zombies' \in SUBSET Calls
    BY <1>1, <1>15 DEF AfterHookReturns
  <2> DEFINE next == [call[c] EXCEPT !.hook = @ + 1, !.status = status]
             last == [call[c] EXCEPT !.stage = "done", !.status = status]
  <2>4. CASE call[c].hook + 1 < Hooks
    <3>1. call[c].hook + 1 \in HookIndex
      BY <1>1, <2>4, RegistryAssumption DEF CallState, HookIndex
    <3>2. next \in CallState /\ next.stage = "after" /\ next.input = call[c].input
      BY <1>1, <2>2, <2>3, <3>1 DEF CallState
    <3>3. MoveTo(c, next)
      BY <2>1, <2>4
    <3> HIDE DEF next
    <3>4. QED
      BY <1>2, <2>3, <3>2, <3>3
  <2>5. CASE ~(call[c].hook + 1 < Hooks)
    <3>1. last \in CallState /\ last.stage = "done" /\ last.input = call[c].input
      BY <1>1, <2>2 DEF CallState, Stages
    <3>2. MoveTo(c, last)
      BY <2>1, <2>5
    <3> HIDE DEF last
    <3>3. QED
      BY <1>2, <2>3, <3>1, <3>2
  <2>6. QED
    BY <2>4, <2>5
<1>16. CASE ZombieSettles(c)
  BY <1>1, <1>16 DEF ZombieSettles, MovesAlone, LeavesAlone
<1>17. QED
  BY <1>7, <1>8, <1>9, <1>10, <1>11, <1>12, <1>13, <1>14, <1>15, <1>16 DEF CallStep

-------------------------------------------------------------------------------
(* Type correctness.                                                       *)

LEMMA AdmittedLengthBound ==
  ASSUME RegistryTypeOK, NEW batch \in Seq(Calls)
  PROVE  /\ AdmittedLength(batch) \in Nat
         /\ AdmittedLength(batch) <= Len(batch)
         /\ toolCallCount <= MaxToolCalls => toolCallCount + AdmittedLength(batch) <= MaxToolCalls
<1>1. Len(batch) \in Nat /\ toolCallCount \in Nat /\ MaxToolCalls \in Nat
  BY RegistryAssumption DEF RegistryTypeOK
<1>2. Room \in Nat /\ (toolCallCount <= MaxToolCalls => toolCallCount + Room = MaxToolCalls)
  BY <1>1 DEF Room
<1>3. QED
  BY <1>1, <1>2 DEF AdmittedLength

\* The members of a batch are entered, each once; no other call notices.
LEMMA DispatchEffect ==
  ASSUME RegistryTypeOK, NEW batch \in Seq(Calls), Dispatch(batch)
  PROVE  /\ Admitted(batch) \subseteq Members(batch)
         /\ Members(batch) \subseteq Calls
         /\ call' \in [Calls -> CallState]
         /\ \A c \in Calls \ Members(batch) : call'[c] = call[c]
         /\ \A c \in Members(batch) :
              call[c].stage = "idle" /\ call'[c] = Entered(c, c \in Admitted(batch))
         /\ launched' = launched \cup {c \in Members(batch) : call'[c].stage = "running"}
<1>1. /\ \A i \in 1 .. Len(batch) : batch[i] \in Calls
      /\ DOMAIN batch = 1 .. Len(batch)
      /\ Len(batch) \in Nat
  OBVIOUS
<1>2. Admitted(batch) \subseteq Members(batch) /\ Members(batch) \subseteq Calls
  BY <1>1, AdmittedLengthBound DEF Admitted, Members
<1>3. \A c \in Calls : call'[c] = IF c \in Members(batch)
                                  THEN Entered(c, c \in Admitted(batch))
                                  ELSE call[c]
  BY DEF Dispatch
<1>4. \A c \in Members(batch) : call[c].stage = "idle"
  BY <1>1 DEF Dispatch, IsBatch, Members
<1>5. call' \in [Calls -> CallState]
  <2>1. ASSUME NEW c \in Calls
        PROVE  (IF c \in Members(batch) THEN Entered(c, c \in Admitted(batch))
                                        ELSE call[c]) \in CallState
    <3>1. Entered(c, c \in Admitted(batch)) \in CallState
      BY EnteredOfBatch
    <3>2. call[c] \in CallState
      BY DEF RegistryTypeOK
    <3>3. QED
      BY <3>1, <3>2
  <2>2. QED
    BY <2>1 DEF Dispatch
<1>6. QED
  BY <1>2, <1>3, <1>4, <1>5 DEF Dispatch

LEMMA RegistryStepTyped ==
  ASSUME RegistryTypeOK, RegistryStep
  PROVE  RegistryTypeOK'
<1>1. ASSUME NEW batch \in Seq(Calls), Dispatch(batch)
      PROVE  RegistryTypeOK'
  <2>1. /\ Admitted(batch) \subseteq Calls
        /\ call' \in [Calls -> CallState]
        /\ launched' \subseteq Calls
    BY <1>1, DispatchEffect DEF RegistryTypeOK
  <2>2. toolCallCount' \in Nat
    BY <1>1, AdmittedLengthBound DEF Dispatch, RegistryTypeOK
  <2>3. charged' \subseteq Calls /\ zombies' \subseteq Calls /\ signal' \in Signals
    BY <1>1, <2>1 DEF Dispatch, RegistryTypeOK
  <2>4. QED
    BY <2>1, <2>2, <2>3 DEF RegistryTypeOK
<1>2. ASSUME NEW c \in Calls, CallStep(c)
      PROVE  RegistryTypeOK'
  BY <1>2, CallStepEffect DEF MovesAlone, LeavesAlone, Launches, RegistryTypeOK
<1>3. ASSUME NEW reason \in Signals \ {"none"}, Abort(reason)
      PROVE  RegistryTypeOK'
  BY <1>3 DEF Abort, RegistryTypeOK
<1>4. CASE UNCHANGED registryVars
  BY <1>4 DEF registryVars, RegistryTypeOK
<1>5. QED
  BY <1>1, <1>2, <1>3, <1>4 DEF RegistryStep

LEMMA RegistryInitTyped == RegistryInit => RegistryTypeOK
BY ZeroIsHookIndex, RegistryAssumption
   DEF RegistryInit, RegistryTypeOK, CallState, Stages, Statuses, Signals

\* The registry's state is well-formed in every state: in particular no call
\* ever awaits a hook that does not exist.
THEOREM RegistryTyped == RegistrySpec => []RegistryTypeOK
<1>1. RegistryTypeOK /\ [RegistryNext]_registryVars => RegistryTypeOK'
  BY NextIsRegistryStep, RegistryStepTyped
<1>2. QED
  BY <1>1, RegistryInitTyped, PTL DEF RegistrySpec

-------------------------------------------------------------------------------
(* The limit on tool calls.  LimitHolds is not inductive: a call in its    *)
(* hooks will be launched later.  Every such call is charged for, though,  *)
(* and the session's counter covers what is charged for.                   *)

ChargedFirst ==
  /\ launched \subseteq charged
  /\ \A c \in Calls : call[c].stage = "before" => c \in charged

Accounted ==
  /\ ChargedFirst
  /\ Cardinality(charged) <= toolCallCount
  /\ toolCallCount <= MaxToolCalls

\* The first n elements of a sequence are at most n.
LEMMA PrefixCardinality ==
  ASSUME NEW S, NEW s \in Seq(S), NEW n \in Nat, n <= Len(s)
  PROVE  /\ IsFiniteSet({s[i] : i \in 1 .. n})
         /\ Cardinality({s[i] : i \in 1 .. n}) <= n
<1> DEFINE T == {s[i] : i \in 1 .. n}
           f == [i \in 1 .. n |-> s[i]]
<1>1. f \in Surjection(1 .. n, T)
  BY DEF Surjection
<1>2. IsFiniteSet(1 .. n) /\ Cardinality(1 .. n) = n
  BY FS_Interval
<1> HIDE DEF f, T
<1>3. IsFiniteSet(T) /\ Cardinality(T) <= Cardinality(1 .. n)
  BY <1>1, <1>2, FS_Surjection
<1>4. QED
  BY <1>2, <1>3 DEF T

LEMMA RegistryStepAccounted ==
  ASSUME RegistryTypeOK, Accounted, RegistryStep
  PROVE  Accounted'
<1>1. ASSUME NEW batch \in Seq(Calls), Dispatch(batch)
      PROVE  Accounted'
  <2> DEFINE A == Admitted(batch)
             n == AdmittedLength(batch)
  <2>1. n \in Nat /\ n <= Len(batch) /\ toolCallCount + n <= MaxToolCalls
    BY AdmittedLengthBound DEF Accounted
  <2>2. IsFiniteSet(A) /\ Cardinality(A) <= n
    BY <2>1, PrefixCardinality DEF Admitted
  <2>3. IsFiniteSet(charged) /\ Cardinality(charged) <= toolCallCount
    BY RegistryAssumption, FS_Subset DEF RegistryTypeOK, Accounted
  <2>4. charged' = charged \cup A /\ toolCallCount' = toolCallCount + n
    BY <1>1 DEF Dispatch
  <2>5. Cardinality(charged') <= toolCallCount'
    <3>1. Cardinality(charged \cup A)
            = Cardinality(charged) + Cardinality(A) - Cardinality(charged \cap A)
      BY <2>2, <2>3, FS_Union
    <3>2. /\ Cardinality(charged) \in Nat
          /\ Cardinality(A) \in Nat
          /\ Cardinality(charged \cap A) \in Nat
      BY <2>2, <2>3, FS_CardinalityType, FS_Intersection
    <3>3. toolCallCount \in Nat
      BY DEF RegistryTypeOK
    <3> HIDE DEF A, n
    <3>4. QED
      BY <2>1, <2>2, <2>3, <2>4, <3>1, <3>2, <3>3
  <2>6. ASSUME NEW c \in Members(batch), call'[c].stage \in {"before", "running"}
        PROVE  c \in A
    <3>1. c \in Calls /\ call'[c] = Entered(c, c \in A)
      BY <1>1, <2>6, DispatchEffect
    <3>2. QED
      BY <2>6, <3>1, EnteredOfBatch
  <2>7. launched' \subseteq charged'
    BY <1>1, <2>4, <2>6, DispatchEffect DEF Accounted, ChargedFirst
  <2>8. ASSUME NEW c \in Calls, call'[c].stage = "before"
        PROVE  c \in charged'
    BY <1>1, <2>4, <2>6, <2>8, DispatchEffect DEF Accounted, ChargedFirst
  <2>9. QED
    BY <2>1, <2>4, <2>5, <2>7, <2>8 DEF Accounted, ChargedFirst
<1>2. ASSUME NEW c \in Calls, CallStep(c)
      PROVE  Accounted'
  <2>1. /\ MovesAlone(c)
        /\ LeavesAlone(c) \/ Launches(c)
        /\ call \in [Calls -> CallState]
    BY <1>2, CallStepEffect DEF RegistryTypeOK
  <2>2. charged' = charged /\ toolCallCount' = toolCallCount
    BY <2>1 DEF MovesAlone
  <2>3. ASSUME NEW d \in Calls, call'[d].stage = "before"
        PROVE  d \in charged'
    BY <2>1, <2>2, <2>3 DEF MovesAlone, LeavesAlone, Launches, Accounted, ChargedFirst
  <2>4. launched' \subseteq charged'
    BY <2>1, <2>2 DEF LeavesAlone, Launches, Accounted, ChargedFirst
  <2>5. QED
    BY <2>2, <2>3, <2>4 DEF Accounted, ChargedFirst
<1>3. ASSUME NEW reason \in Signals \ {"none"}, Abort(reason)
      PROVE  Accounted'
  BY <1>3 DEF Abort, Accounted, ChargedFirst
<1>4. CASE UNCHANGED registryVars
  BY <1>4 DEF registryVars, Accounted, ChargedFirst
<1>5. QED
  BY <1>1, <1>2, <1>3, <1>4 DEF RegistryStep

LEMMA RegistryInitAccounted == RegistryInit => Accounted
BY FS_EmptySet, RegistryAssumption DEF RegistryInit, Accounted, ChargedFirst

LEMMA AccountedLimits ==
  ASSUME RegistryTypeOK, Accounted
  PROVE  LimitHolds
<1>1. IsFiniteSet(charged) /\ launched \in SUBSET charged
  BY RegistryAssumption, FS_Subset DEF RegistryTypeOK, Accounted, ChargedFirst
<1>2. /\ Cardinality(launched) <= Cardinality(charged)
      /\ Cardinality(launched) \in Nat
      /\ Cardinality(charged) \in Nat
  BY <1>1, FS_Subset, FS_CardinalityType
<1>3. QED
  BY <1>2, RegistryAssumption DEF Accounted, LimitHolds, RegistryTypeOK

\* No interleaving of any number of concurrent calls launches more tools than
\* maxToolCalls.
THEOREM RegistryLimit == RegistrySpec => []LimitHolds
<1>1. Accounted /\ RegistryTypeOK /\ [RegistryNext]_registryVars => Accounted'
  BY NextIsRegistryStep, RegistryStepAccounted
<1>2. RegistryTypeOK /\ Accounted => LimitHolds
  BY AccountedLimits
<1>3. QED
  BY <1>1, <1>2, RegistryInitAccounted, RegistryTyped, PTL DEF RegistrySpec

-------------------------------------------------------------------------------
(* Permissions.  What was decided for a launched call stays true because a *)
(* call past its hooks keeps its input and never returns to them.          *)

Screened ==
  /\ LaunchPermitted
  /\ \A c \in Calls :
       /\ call[c].stage = "before" => c \notin Unregistered \cup PolicyDenied
       /\ c \in launched => call[c].stage \in {"running", "after", "done", "thrown"}

LEMMA RegistryStepScreened ==
  ASSUME RegistryTypeOK, Screened, RegistryStep
  PROVE  Screened'
<1>1. ASSUME NEW batch \in Seq(Calls), Dispatch(batch)
      PROVE  Screened'
  <2>1. ASSUME NEW c \in Calls
        PROVE  /\ c \in launched' =>
                    /\ c \notin Unregistered \cup PolicyDenied
                    /\ call'[c].input \notin SandboxDenied
                    /\ call'[c].stage \in {"running", "after", "done", "thrown"}
               /\ call'[c].stage = "before" => c \notin Unregistered \cup PolicyDenied
    <3>1. CASE c \in Members(batch)
      <4>1. /\ call[c].stage = "idle"
            /\ call'[c] = Entered(c, c \in Admitted(batch))
            /\ c \in launched' => c \in launched \/ call'[c].stage = "running"
        BY <1>1, <3>1, DispatchEffect
      <4>2. c \notin launched
        BY <4>1 DEF Screened
      <4>3. QED
        BY <3>1, <4>1, <4>2, EnteredOfBatch
    <3>2. CASE c \notin Members(batch)
      BY <1>1, <3>2, DispatchEffect DEF Screened, LaunchPermitted
    <3>3. QED
      BY <3>1, <3>2
  <2>2. launched' \subseteq Calls
    BY <1>1, DispatchEffect DEF RegistryTypeOK
  <2>3. QED
    BY <2>1, <2>2 DEF Screened, LaunchPermitted
<1>2. ASSUME NEW c \in Calls, CallStep(c)
      PROVE  Screened'
  <2>1. /\ MovesAlone(c)
        /\ LeavesAlone(c) \/ Launches(c)
        /\ call \in [Calls -> CallState]
        /\ launched \subseteq Calls
    BY <1>2, CallStepEffect DEF RegistryTypeOK
  <2>2. ASSUME NEW d \in Calls, d # c
        PROVE  call'[d] = call[d] /\ (d \in launched' => d \in launched)
    BY <2>1, <2>2 DEF MovesAlone, LeavesAlone, Launches
  <2>3. CASE Launches(c)
    BY <2>1, <2>2, <2>3 DEF Launches, Screened, LaunchPermitted
  <2>4. CASE LeavesAlone(c)
    BY <2>1, <2>2, <2>4 DEF LeavesAlone, Screened, LaunchPermitted
  <2>5. QED
    BY <2>1, <2>3, <2>4
<1>3. ASSUME NEW reason \in Signals \ {"none"}, Abort(reason)
      PROVE  Screened'
  BY <1>3 DEF Abort, Screened, LaunchPermitted
<1>4. CASE UNCHANGED registryVars
  BY <1>4 DEF registryVars, Screened, LaunchPermitted
<1>5. QED
  BY <1>1, <1>2, <1>3, <1>4 DEF RegistryStep

LEMMA RegistryInitScreened == RegistryInit => Screened
BY DEF RegistryInit, Screened, LaunchPermitted

\* No tool runs that is not registered, that the policy denies, or on an input
\* the sandbox refuses, whatever the hooks do to the inputs.
THEOREM RegistryPermits == RegistrySpec => []LaunchPermitted
<1>1. RegistryInit => Screened
  BY RegistryInitScreened
<1>2. Screened /\ RegistryTypeOK /\ [RegistryNext]_registryVars => Screened'
  BY NextIsRegistryStep, RegistryStepScreened
<1>3. Screened => LaunchPermitted
  BY DEF Screened
<1>4. QED
  BY <1>1, <1>2, <1>3, RegistryTyped, PTL DEF RegistrySpec

-------------------------------------------------------------------------------
(* Finality.                                                               *)

\* A call that is done or thrown stays exactly as it is.
LEMMA RegistryStepFinal ==
  ASSUME RegistryTypeOK, RegistryStep, NEW c \in Calls,
         call[c].stage \in {"done", "thrown"}
  PROVE  call'[c] = call[c]
<1>1. ASSUME NEW batch \in Seq(Calls), Dispatch(batch)
      PROVE  call'[c] = call[c]
  BY <1>1, DispatchEffect
<1>2. ASSUME NEW d \in Calls, CallStep(d)
      PROVE  call'[c] = call[c]
  BY <1>2, CallStepEffect DEF MovesAlone, RegistryTypeOK
<1>3. QED
  BY <1>1, <1>2 DEF RegistryStep, Abort, registryVars

\* The result of a call never changes once it is there, not even when a tool
\* that lost the race against its timeout settles late.
THEOREM RegistryResultsFinal == RegistrySpec => ResultIsFinal
<1>1. RegistryTypeOK /\ [RegistryNext]_registryVars =>
        [\A c \in Calls : call[c].stage \in {"done", "thrown"} => call'[c] = call[c]]_registryVars
  BY NextIsRegistryStep, RegistryStepFinal
<1>2. QED
  BY <1>1, RegistryTyped, PTL DEF RegistrySpec, ResultIsFinal
===============================================================================
