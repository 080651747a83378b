------------------------------ MODULE Compaction ------------------------------
(***************************************************************************)
(* maybeCompactContext (src/runtime/compaction.ts) and the failure count   *)
(* the agent loop keeps for it (src/runtime/loop.ts): when a compaction is *)
(* attempted, which model calls one attempt makes, how it ends, and the    *)
(* circuit breaker.  What a summary says is left out: a summary is valid   *)
(* or not, a model call answers, overflows the context or fails.           *)
(***************************************************************************)
EXTENDS Naturals

CONSTANTS
  Compress,              \* contextCompression = "auto"
  FailureModeError,  \* contextBudget.failureMode = "error"
  MaxCompactions,    \* contextBudget.maxCompactionsPerRun
  MaxFailures,       \* contextBudget.maxConsecutiveCompactionFailures
  MaxRounds,         \* bound: rounds in the entries a compaction summarises
  MaxForced          \* bound: forced compactions, in this module's own specification

ASSUME CompactionAssumption ==
  /\ Compress \in BOOLEAN
  /\ FailureModeError \in BOOLEAN
  /\ MaxCompactions \in Nat
  /\ MaxFailures \in Nat
  /\ MaxRounds \in Nat \ {0}
  /\ MaxForced \in Nat

MaxValidationAttempts == 2
MaxPtlRetries == 3

VARIABLES
  compactionCount,   \* session.compactionCount
  failures,          \* session.consecutiveCompactionFailures
  attempt            \* the attempt whose model call is in flight, or Idle

compactionVars == <<compactionCount, failures, attempt>>

Idle == [calls |-> 0, invalid |-> 0, ptl |-> 0, rounds |-> 0]

\* calls counts the model calls of the attempt, the one in flight included;
\* invalid the summaries that failed validation; ptl the retries after an
\* overflow; rounds what is left of the entries to summarise.
Attempts == [calls: Nat, invalid: 0 .. MaxValidationAttempts - 1,
             ptl: 0 .. MaxPtlRetries, rounds: 0 .. MaxRounds]

(* Type correctness: both retry counters of an attempt stay within their   *)
(* limits, and the failure count never passes the circuit breaker's.       *)
CompactionTypeOK ==
  /\ compactionCount \in Nat
  /\ failures \in 0 .. MaxFailures
  /\ attempt \in Attempts

CompactionInit ==
  /\ compactionCount = 0
  /\ failures = 0
  /\ attempt = Idle

-------------------------------------------------------------------------------
InFlight == attempt # Idle

BreakerOpen == failures >= MaxFailures

\* Mutated form of Gate: a forced compaction ignores the circuit breaker.
GateUnbroken(force, over) ==
  Compress /\ (force \/ (over /\ ~BreakerOpen /\ compactionCount < MaxCompactions))

\* shouldCompact, and the narrower gate of a forced compaction.
Gate(force, over) ==
  /\ Compress
  /\ ~BreakerOpen
  /\ force \/ (over /\ compactionCount < MaxCompactions)

\* A compaction starts: there is a safe cut point, with `rounds` rounds of old
\* entries before it, and the first model call goes out.
Begin(force, over, rounds) ==
  /\ ~InFlight
  /\ Gate(force, over)
  /\ attempt' = [calls |-> 1, invalid |-> 0, ptl |-> 0, rounds |-> rounds]
  /\ UNCHANGED <<compactionCount, failures>>

\* No compaction: the gate is closed, or it is open and there is no cut point.
\* The result is "circuit_breaker" or "skipped"; neither touches the session.
Declines(force, over, cut) ==
  /\ ~InFlight
  /\ ~(Gate(force, over) /\ cut)
  /\ UNCHANGED compactionVars

\* Another model call of the same attempt: the summary was not valid and one
\* more is allowed, or the entries overflowed the model's context and the
\* oldest round of them is dropped.
RetryInvalid ==
  /\ InFlight
  /\ attempt.invalid + 1 < MaxValidationAttempts
  /\ attempt' = [attempt EXCEPT !.calls = @ + 1, !.invalid = @ + 1]
  /\ UNCHANGED <<compactionCount, failures>>

\* Mutated form of RetryOverflow: the retries are not counted.
RetryOverflowUncounted ==
  /\ InFlight
  /\ attempt.ptl < MaxPtlRetries
  /\ attempt.rounds > 0
  /\ attempt' = [attempt EXCEPT !.calls = @ + 1, !.rounds = @ - 1]
  /\ UNCHANGED <<compactionCount, failures>>

RetryOverflow ==
  /\ InFlight
  /\ attempt.ptl < MaxPtlRetries
  /\ attempt.rounds > 0
  /\ attempt' = [attempt EXCEPT !.calls = @ + 1, !.ptl = @ + 1, !.rounds = @ - 1]
  /\ UNCHANGED <<compactionCount, failures>>

\* The summary is valid: a compaction entry is appended.
Succeeds ==
  /\ InFlight
  /\ attempt' = Idle
  /\ compactionCount' = compactionCount + 1
  /\ failures' = 0

\* The result is "failed": validation attempts used up, or a model call failed
\* and failureMode is "continue".
FailsQuietly ==
  /\ InFlight
  /\ ~FailureModeError \/ attempt.invalid + 1 = MaxValidationAttempts
  /\ attempt' = Idle
  /\ failures' = failures + 1
  /\ UNCHANGED compactionCount

\* A model call failed and failureMode is "error": the error reaches the loop,
\* which does not count it.
Throws ==
  /\ InFlight
  /\ FailureModeError
  /\ attempt' = Idle
  /\ UNCHANGED <<compactionCount, failures>>

-------------------------------------------------------------------------------
(* The component on its own: compactions are asked for again and again.    *)

CompactionNext ==
  \/ \E force \in BOOLEAN, over \in BOOLEAN, rounds \in 1 .. MaxRounds :
       /\ force => compactionCount < MaxCompactions + MaxForced
       /\ Begin(force, over, rounds)
  \/ \E force \in BOOLEAN, over \in BOOLEAN, cut \in BOOLEAN : Declines(force, over, cut)
  \/ RetryInvalid \/ RetryOverflow \/ Succeeds \/ FailsQuietly \/ Throws

CompactionSpec == CompactionInit /\ [][CompactionNext]_compactionVars

-------------------------------------------------------------------------------
(* Properties.                                                             *)

\* One attempt makes at most five model calls, however validation failures and
\* context overflows alternate: two counters limit one loop.
CallsPerAttemptBounded == attempt.calls <= MaxValidationAttempts + MaxPtlRetries

\* Once maxConsecutiveCompactionFailures attempts in a row have failed, no
\* compaction model call is made any more in the session, forced or not, and
\* since only a success closes the breaker it stays open for good.
BreakerStaysOpen ==
  [][(BreakerOpen /\ ~InFlight) => (BreakerOpen' /\ ~InFlight')]_compactionVars
===============================================================================
