---------------------------- MODULE AgentLoopProofs ----------------------------
(***************************************************************************)
(* Proofs about the agent loop, for any number of turns, calls and tools.  *)
(* The registry's lemmas are used for the calls in flight; what is new is  *)
(* where the loop stands when it writes into the transcript.               *)
(***************************************************************************)
EXTENDS AgentLoop, ToolRegistryProofs

-------------------------------------------------------------------------------
(* Compaction, whoever asks for it and for any limits.  The lemmas are about *)
(* one step of an attempt, so that they hold wherever the loop takes it.     *)

\* The ways an attempt starts, goes on and ends, whoever asks for it.
CompactionStep ==
  \/ \E force \in BOOLEAN, over \in BOOLEAN, rounds \in 1 .. MaxRounds :
       Begin(force, over, rounds)
  \/ \E force \in BOOLEAN, over \in BOOLEAN, cut \in BOOLEAN : Declines(force, over, cut)
  \/ RetryInvalid \/ RetryOverflow \/ Succeeds \/ FailsQuietly \/ Throws
  \/ UNCHANGED compactionVars

LEMMA NextIsCompactionStep == [CompactionNext]_compactionVars => CompactionStep
BY DEF CompactionNext, CompactionStep

\* Each model call of an attempt but the first is paid for by one of the two
\* retry counters; and an attempt is only in flight while the breaker is closed.
Counted ==
  /\ CompactionTypeOK
  /\ InFlight => /\ attempt.calls = 1 + attempt.invalid + attempt.ptl
                 /\ ~BreakerOpen

\* A retry raises the calls and one of the two counters by one.
LEMMA RetryCounted ==
  ASSUME Counted, RetryInvalid \/ RetryOverflow
  PROVE  Counted'
<1>1. /\ attempt \in Attempts
      /\ attempt.calls = 1 + attempt.invalid + attempt.ptl
      /\ ~BreakerOpen
  BY DEF RetryInvalid, RetryOverflow, Counted, CompactionTypeOK
<1>2. /\ attempt.calls \in Nat
      /\ attempt.invalid \in 0 .. 1
      /\ attempt.ptl \in 0 .. 3
      /\ attempt.rounds \in 0 .. MaxRounds
      /\ attempt = [calls |-> attempt.calls, invalid |-> attempt.invalid,
                    ptl |-> attempt.ptl, rounds |-> attempt.rounds]
  BY <1>1 DEF Attempts, MaxValidationAttempts, MaxPtlRetries
<1>3. /\ attempt' \in Attempts
      /\ attempt'.calls = 1 + attempt'.invalid + attempt'.ptl
      /\ UNCHANGED <<compactionCount, failures>>
  <2>1. CASE RetryInvalid
    <3>1. attempt' = [calls |-> attempt.calls + 1, invalid |-> attempt.invalid + 1,
                      ptl |-> attempt.ptl, rounds |-> attempt.rounds]
      BY <1>2, <2>1 DEF RetryInvalid
    <3>2. attempt.invalid + 1 \in 0 .. 1 /\ UNCHANGED <<compactionCount, failures>>
      BY <1>2, <2>1 DEF RetryInvalid, MaxValidationAttempts
    <3>3. QED
      BY <1>1, <1>2, <3>1, <3>2 DEF Attempts, MaxValidationAttempts, MaxPtlRetries
  <2>2. CASE RetryOverflow
    <3>1. attempt' = [calls |-> attempt.calls + 1, invalid |-> attempt.invalid,
                      ptl |-> attempt.ptl + 1, rounds |-> attempt.rounds - 1]
      BY <1>2, <2>2 DEF RetryOverflow
    <3>2. /\ attempt.ptl + 1 \in 0 .. 3
          /\ attempt.rounds - 1 \in 0 .. MaxRounds
          /\ UNCHANGED <<compactionCount, failures>>
      BY <1>2, <2>2, CompactionAssumption DEF RetryOverflow, MaxPtlRetries
    <3>3. QED
      BY <1>1, <1>2, <3>1, <3>2 DEF Attempts, MaxValidationAttempts, MaxPtlRetries
  <2>3. QED
    BY <2>1, <2>2
<1>4. QED
  BY <1>1, <1>3 DEF Counted, CompactionTypeOK, BreakerOpen

LEMMA CompactionStepCounted ==
  ASSUME Counted, CompactionStep
  PROVE  Counted'
<1> USE CompactionAssumption DEF Counted, CompactionTypeOK, Attempts, InFlight, BreakerOpen,
        MaxValidationAttempts, MaxPtlRetries
<1>1. ASSUME NEW force \in BOOLEAN, NEW over \in BOOLEAN, NEW rounds \in 1 .. MaxRounds,
             Begin(force, over, rounds)
      PROVE  Counted'
  BY <1>1 DEF Begin, Gate
<1>2. CASE RetryInvalid \/ RetryOverflow
  BY <1>2, RetryCounted
<1>3. CASE Succeeds \/ FailsQuietly \/ Throws
  BY <1>3 DEF Succeeds, FailsQuietly, Throws, Idle
<1>4. CASE UNCHANGED compactionVars
  BY <1>4 DEF compactionVars
<1>5. QED
  BY <1>1, <1>2, <1>3, <1>4 DEF CompactionStep, Declines

LEMMA CompactionInitCounted == CompactionInit => Counted
BY CompactionAssumption
   DEF CompactionInit, Counted, CompactionTypeOK, Attempts, InFlight, Idle,
       MaxValidationAttempts, MaxPtlRetries

LEMMA CountedBounds == Counted => CompactionTypeOK /\ CallsPerAttemptBounded
BY DEF Counted, CompactionTypeOK, Attempts, InFlight, Idle, CallsPerAttemptBounded,
       MaxValidationAttempts, MaxPtlRetries

LEMMA CompactionStepKeepsBreaker ==
  ASSUME Counted, CompactionStep, BreakerOpen, ~InFlight
  PROVE  BreakerOpen' /\ ~InFlight'
BY DEF CompactionStep, Begin, Gate, Declines, RetryInvalid, RetryOverflow, Succeeds,
       FailsQuietly, Throws, BreakerOpen, InFlight, compactionVars

\* The state of a compaction is well-formed: the failures never pass the
\* breaker's threshold.  And no attempt makes more model calls than its
\* two retry limits add up to, however the two kinds of retry alternate.
THEOREM CompactionBounded == CompactionSpec => [](CompactionTypeOK /\ CallsPerAttemptBounded)
<1>1. Counted /\ [CompactionNext]_compactionVars => Counted'
  BY NextIsCompactionStep, CompactionStepCounted
<1>2. QED
  BY <1>1, CompactionInitCounted, CountedBounds, PTL DEF CompactionSpec

\* Once the breaker is open no attempt is ever begun again, forced or not.
THEOREM CompactionBreaks == CompactionSpec => BreakerStaysOpen
<1>1. Counted /\ [CompactionNext]_compactionVars => Counted'
  BY NextIsCompactionStep, CompactionStepCounted
<1>2. Counted /\ [CompactionNext]_compactionVars =>
        [(BreakerOpen /\ ~InFlight) => (BreakerOpen' /\ ~InFlight')]_compactionVars
  BY NextIsCompactionStep, CompactionStepKeepsBreaker
<1>3. QED
  BY <1>1, <1>2, CompactionInitCounted, PTL DEF CompactionSpec, BreakerStaysOpen

-------------------------------------------------------------------------------
(* Type correctness.                                                       *)

LEMMA EntriesTyped ==
  /\ Conv!System \in Conv!Entry
  /\ Conv!User \in Conv!Entry
  /\ Conv!Summary \in Conv!Entry
  /\ \A calls \in Seq(Calls) : Conv!Assistant(calls) \in Conv!Entry
  /\ \A c \in Calls : Conv!Result(c) \in Conv!Entry
BY DEF Conv!System, Conv!User, Conv!Summary, Conv!Assistant, Conv!Result,
       Conv!Entry, Conv!Kinds

LEMMA BatchesAreSequences ==
  ASSUME NEW batch \in Batches(MaxBatch)
  PROVE  batch \in Seq(Calls)
<1>1. PICK k \in 1 .. MaxBatch : batch \in [1 .. k -> Calls]
  BY DEF Batches
<1>2. k \in Nat
  BY <1>1, RegistryAssumption
<1>3. QED
  BY <1>1, <1>2

\* Whatever is dispatched next is a piece of the calls asked for.
LEMMA DispatchNextIsDispatch ==
  ASSUME NEW calls \in Seq(Calls), NEW i \in 0 .. Len(calls), DispatchNext(calls, i)
  PROVE  /\ \E batch \in Seq(Calls) : Dispatch(batch)
         /\ dispatched' \in i + 1 .. Len(calls)
<1>1. PICK j \in i + 1 .. Len(calls) :
        Dispatch(SubSeq(calls, i + 1, j)) /\ dispatched' = j
  BY DEF DispatchNext
<1>2. SubSeq(calls, i + 1, j) \in Seq(Calls)
  BY <1>1
<1>3. QED
  BY <1>1, <1>2

LEMMA StopsTyped ==
  ASSUME LoopTypeOK, NEW outcome \in Outcomes, Stops(outcome)
  PROVE  LoopTypeOK'
BY DEF Stops, Ends, LoopTypeOK, transcriptVars, budgetVars, Awaits

\* The model's answer, of whatever calls, leaves a well-formed transcript with
\* none of those calls answered yet.
LEMMA AnswersTyped ==
  ASSUME LoopTypeOK, NEW calls \in Seq(Calls), NEW noted \in BOOLEAN,
         Answers(calls, noted), pc' \in Awaits, caller' \in Outcomes,
         dispatched' \in 0 .. Len(calls)
  PROVE  LoopTypeOK'
<1>1. entries' \in Seq(Conv!Entry)
  BY EntriesTyped DEF Answers, LoopTypeOK
<1>2. spent' \in Nat /\ streak' \in Nat
  <2>1. CASE UNCHANGED budgetVars
    BY <2>1 DEF budgetVars, LoopTypeOK
  <2>2. CASE /\ \E usage \in Usages : spent' = spent + usage
             /\ streak' = IF calls = <<>> THEN streak + 1 ELSE 0
    BY <2>2, LoopAssumption DEF LoopTypeOK
  <2>3. QED
    BY <2>1, <2>2 DEF Answers, Consumes
<1>3. /\ asked' = calls
      /\ answered' = 0
      /\ UNCHANGED <<turnCount, followUp, recovered, requests, lenAtAbort>>
  BY DEF Answers
<1>4. QED
  BY <1>1, <1>2, <1>3 DEF LoopTypeOK

LEMMA LoopStepTyped ==
  ASSUME LoopTypeOK, LoopStep
  PROVE  LoopTypeOK'
<1> USE DEF Awaits, Outcomes
<1>1. ASSUME NEW outcome \in {"answer", "error"}, Stops(outcome)
      PROVE  LoopTypeOK'
  BY <1>1, StopsTyped
<1>2. CASE OutOfTurns
  BY <1>1, <1>2 DEF OutOfTurns
<1>3. CASE AbortedAtTop
  BY <1>1, <1>3 DEF AbortedAtTop
<1>4. CASE StartTurn
  <2>1. entries' \in Seq(Conv!Entry)
    BY <1>4, EntriesTyped DEF StartTurn, LoopTypeOK
  <2>2. turnCount' \in 0 .. MaxTurns
    BY <1>4, LoopAssumption DEF StartTurn, LoopTypeOK
  <2>3. /\ pc' \in {"compacting", "preparing"}
        /\ followUp' = FALSE
        /\ UNCHANGED <<caller, asked, answered, dispatched, recovered, requests,
                       spent, streak, lenAtAbort>>
    BY <1>4 DEF StartTurn, GoesTo, budgetVars
  <2>4. QED
    BY <2>1, <2>2, <2>3 DEF LoopTypeOK
<1>5. CASE CompactionRetries
  BY <1>5 DEF CompactionRetries, loopVars, LoopTypeOK
<1>6. CASE CompactionSucceeds
  BY <1>6, EntriesTyped DEF CompactionSucceeds, GoesTo, LoopTypeOK, budgetVars
<1>7. CASE CompactionFails
  BY <1>7 DEF CompactionFails, GoesTo, LoopTypeOK, transcriptVars, budgetVars
<1>8. CASE CompactionThrows
  BY <1>1, <1>8 DEF CompactionThrows
<1>9. CASE PreparationFails
  BY <1>1, <1>9 DEF PreparationFails
<1>10. CASE Prepared
  <2>1. CASE Aborted
    BY <1>1, <1>10, <2>1 DEF Prepared
  <2>2. CASE ~Aborted
    BY <1>10, <2>2 DEF Prepared, GoesTo, LoopTypeOK, transcriptVars, budgetVars
  <2>3. QED
    BY <2>1, <2>2
<1>11. CASE ModelFails
  BY <1>1, <1>11 DEF ModelFails
<1>12. CASE ModelOverflows
  BY <1>12 DEF ModelOverflows, GoesTo, Ends, LoopTypeOK, transcriptVars, budgetVars
<1>13. CASE RecoverySucceeds
  <2>1. entries' \in Seq(Conv!Entry)
    BY <1>13, EntriesTyped DEF RecoverySucceeds, LoopTypeOK
  <2>2. QED
    BY <1>13, <2>1 DEF RecoverySucceeds, GoesTo, Ends, LoopTypeOK, budgetVars
<1>14. CASE RecoveryFails
  BY <1>1, <1>14 DEF RecoveryFails
<1>15. CASE ModelAnswers
  <2>1. PICK noted \in BOOLEAN : Answers(<<>>, noted)
    BY <1>15 DEF ModelAnswers
  <2>2. pc' \in Awaits /\ caller' \in Outcomes /\ dispatched' = 0
    BY <1>15 DEF ModelAnswers, GoesTo, LoopTypeOK
  <2>3. ASSUME NEW calls \in Seq(Calls), calls = <<>>
        PROVE  LoopTypeOK'
    <3>1. dispatched' \in 0 .. Len(calls)
      BY <2>2, <2>3
    <3>2. Answers(calls, noted)
      BY <2>1, <2>3
    <3>3. QED
      BY <2>2, <3>1, <3>2, AnswersTyped
  <2>4. \E calls \in Seq(Calls) : calls = <<>>
    <3>1. <<>> \in Seq(Calls)
      OBVIOUS
    <3>2. QED
      BY <3>1, Zenon
  <2>5. QED
    BY <2>3, <2>4
<1>16. CASE FollowsUp
  BY <1>16 DEF FollowsUp, GoesTo, LoopTypeOK, transcriptVars, budgetVars
<1>17. CASE HasNothingToAdd
  BY <1>1, <1>17 DEF HasNothingToAdd
<1>18. CASE FollowUpThrows
  BY <1>1, <1>18 DEF FollowUpThrows
<1>19. CASE ModelAsksForTools
  <2>1. PICK calls \in Requestable :
          /\ Answers(calls, TRUE)
          /\ IF RegistryGiven /\ ~Aborted
             THEN DispatchNext(calls, 0) /\ GoesTo("executing")
             ELSE Ends("error") /\ dispatched' = 0 /\ UNCHANGED registryVars
    BY <1>19 DEF ModelAsksForTools
  <2>2. calls \in Seq(Calls) /\ 0 \in 0 .. Len(calls)
    BY <2>1, BatchesAreSequences DEF Requestable
  <2>3. pc' \in Awaits /\ caller' \in Outcomes /\ dispatched' \in 0 .. Len(calls)
    <3>1. CASE RegistryGiven /\ ~Aborted
      BY <2>1, <2>2, <3>1, DispatchNextIsDispatch DEF GoesTo, LoopTypeOK
    <3>2. CASE ~(RegistryGiven /\ ~Aborted)
      BY <2>1, <2>2, <3>2 DEF Ends, LoopTypeOK
    <3>3. QED
      BY <3>1, <3>2
  <2>4. QED
    BY <2>1, <2>2, <2>3, AnswersTyped
<1>20. CASE NextBatch
  <2>1. CASE Aborted
    BY <1>1, <1>20, <2>1 DEF NextBatch
  <2>2. CASE ~Aborted
    <3>1. DispatchNext(asked, dispatched) /\ asked \in Seq(Calls) /\ dispatched \in 0 .. Len(asked)
      BY <1>20, <2>2 DEF NextBatch, LoopTypeOK
    <3>2. dispatched' \in 0 .. Len(asked)
      BY <3>1, DispatchNextIsDispatch
    <3>3. QED
      BY <1>20, <2>2, <3>2 DEF NextBatch, LoopTypeOK, transcriptVars, budgetVars
  <2>3. QED
    BY <2>1, <2>2
<1>21. CASE BatchThrows
  BY <1>1, <1>21 DEF BatchThrows
<1>22. CASE LastBatchDone
  BY <1>22 DEF LastBatchDone, GoesTo, LoopTypeOK, transcriptVars, budgetVars
<1>23. CASE AppendResult
  <2>1. answered + 1 \in 1 .. Len(asked) /\ asked \in Seq(Calls)
    BY <1>23 DEF AppendResult, LoopTypeOK
  <2>2. entries' \in Seq(Conv!Entry)
    BY <1>23, <2>1, EntriesTyped DEF AppendResult, LoopTypeOK
  <2>3. QED
    BY <1>23, <2>1, <2>2 DEF AppendResult, LoopTypeOK, budgetVars
<1>24. CASE EndTurn
  BY <1>24 DEF EndTurn, Ends, GoesTo, LoopTypeOK, transcriptVars, budgetVars
<1>25. QED
  BY <1>2, <1>3, <1>4, <1>5, <1>6, <1>7, <1>8, <1>9, <1>10, <1>11, <1>12, <1>13,
     <1>14, <1>15, <1>16, <1>17, <1>18, <1>19, <1>20, <1>21, <1>22, <1>23, <1>24
     DEF LoopStep

\* The steps that are not the loop's leave its own state alone, but for what
\* the caller hears and the length of the transcript at the abort.
AroundLoop ==
  /\ UNCHANGED <<pc, turnCount, followUp, transcriptVars, dispatched, recovered,
                 requests, budgetVars, compactionVars>>
  /\ caller' \in {caller, "timeout"}
  /\ lenAtAbort' \in {lenAtAbort, Len(entries)}

LEMMA NextCases == [Next]_vars => LoopStep \/ AroundLoop
<1>1. ASSUME NEW c \in Calls, CallGoesOn(c)
      PROVE  AroundLoop
  BY <1>1 DEF CallGoesOn, AroundLoop, loopVars, transcriptVars, budgetVars
<1>2. ASSUME UserAborts
      PROVE  AroundLoop
  BY <1>2 DEF UserAborts, AroundLoop
<1>3. ASSUME TimesOut
      PROVE  AroundLoop
  BY <1>3 DEF TimesOut, AroundLoop
<1>4. ASSUME UNCHANGED vars
      PROVE  AroundLoop
  BY <1>4 DEF vars, AroundLoop, loopVars, transcriptVars, budgetVars
<1>5. QED
  BY <1>1, <1>2, <1>3, <1>4 DEF Next

\* The state of the loop is well-formed in every state: in particular results
\* never outrun the calls asked for, however batches end.
THEOREM LoopTyped == Spec => []LoopTypeOK
<1>1. ASSUME Init
      PROVE  LoopTypeOK
  <2>1. entries \in Seq(Conv!Entry)
    BY <1>1, EntriesTyped DEF Init, LoopInit
  <2>2. asked \in Seq(Calls) /\ Len(asked) = 0
    BY <1>1 DEF Init, LoopInit
  <2>3. pc \in Awaits /\ caller \in Outcomes
    BY <1>1 DEF Init, LoopInit, Awaits, Outcomes
  <2>4. /\ turnCount \in 0 .. MaxTurns
        /\ answered = 0 /\ dispatched = 0
        /\ requests \in Nat /\ spent \in Nat /\ streak \in Nat /\ lenAtAbort \in Nat
    BY <1>1, LoopAssumption DEF Init, LoopInit
  <2>5. followUp \in BOOLEAN /\ recovered \in BOOLEAN
    BY <1>1, Zenon DEF Init, LoopInit
  <2>6. QED
    BY <2>1, <2>2, <2>3, <2>4, <2>5 DEF LoopTypeOK
<1>2. LoopTypeOK /\ [Next]_vars => LoopTypeOK'
  <2>1. ASSUME LoopTypeOK, AroundLoop
        PROVE  LoopTypeOK'
    BY <2>1 DEF AroundLoop, LoopTypeOK, transcriptVars, budgetVars, Outcomes
  <2>2. QED
    BY <2>1, NextCases, LoopStepTyped
<1>3. QED
  BY <1>1, <1>2, PTL DEF Spec

-------------------------------------------------------------------------------
(* The transcript of a run is a conversation.  Where the loop stands decides *)
(* whether a call may be outstanding: only while tools run, while their      *)
(* results are appended, and after an end in between.                        *)

TurnClosed == pc \notin {"executing", "appending", "ended"} => Conv!AllAnswered

ConversationStep == [Conv!ConversationNext]_(Conv!conversationVars)

\* A step that writes nothing into the transcript.
LEMMA Silent ==
  ASSUME UNCHANGED transcriptVars
  PROVE  /\ ConversationStep
         /\ Conv!AllAnswered => Conv!AllAnswered'
BY DEF transcriptVars, ConversationStep, Conv!conversationVars, Conv!AllAnswered

LEMMA StopsClosed ==
  ASSUME NEW outcome, Stops(outcome)
  PROVE  ConversationStep /\ TurnClosed'
BY Silent DEF Stops, Ends, TurnClosed

\* A user's or a summary's entry, written when nothing is outstanding.
LEMMA InterjectionRefines ==
  ASSUME Conv!AllAnswered, UNCHANGED <<asked, answered>>,
         NEW e \in {Conv!User, Conv!Summary}, entries' = Append(entries, e)
  PROVE  ConversationStep /\ Conv!AllAnswered'
BY DEF ConversationStep, Conv!ConversationNext, Conv!Interject, Conv!AllAnswered

LEMMA AnswersRefine ==
  ASSUME Conv!AllAnswered, NEW calls \in Seq(Calls), NEW noted \in BOOLEAN,
         Answers(calls, noted), noted \/ calls = <<>>
  PROVE  ConversationStep /\ answered' = 0 /\ asked' = calls
<1>1. /\ asked' = calls
      /\ answered' = 0
      /\ entries' = IF noted THEN Append(entries, Conv!Assistant(calls)) ELSE entries
  BY DEF Answers
<1>2. Conv!Answer
  BY <1>1 DEF Conv!Answer
<1>3. QED
  BY <1>1, <1>2 DEF ConversationStep, Conv!ConversationNext

LEMMA LoopStepRefines ==
  ASSUME LoopTypeOK, TurnClosed, LoopStep
  PROVE  ConversationStep /\ TurnClosed'
<1> DEFINE Goal == ConversationStep /\ TurnClosed'
<1>1. ASSUME NEW outcome, Stops(outcome)
      PROVE  Goal
  BY <1>1, StopsClosed
<1>2. ASSUME UNCHANGED transcriptVars,
             pc \notin {"executing", "appending", "ended"}
               \/ pc' \in {"executing", "appending", "ended"}
      PROVE  Goal
  BY <1>2, Silent DEF TurnClosed
<1>3. CASE OutOfTurns \/ AbortedAtTop \/ CompactionThrows \/ PreparationFails
           \/ ModelFails \/ RecoveryFails \/ HasNothingToAdd \/ FollowUpThrows
           \/ BatchThrows
  BY <1>1, <1>3 DEF OutOfTurns, AbortedAtTop, CompactionThrows, PreparationFails,
     ModelFails, RecoveryFails, HasNothingToAdd, FollowUpThrows, BatchThrows
<1>4. CASE CompactionRetries \/ CompactionFails \/ ModelOverflows \/ FollowsUp
           \/ LastBatchDone
  BY <1>2, <1>4 DEF CompactionRetries, CompactionFails, ModelOverflows, FollowsUp,
     LastBatchDone, GoesTo, Ends, loopVars, transcriptVars
<1>5. CASE Prepared
  BY <1>1, <1>2, <1>5 DEF Prepared, GoesTo
<1>6. CASE NextBatch
  BY <1>1, <1>2, <1>6 DEF NextBatch
<1>7. CASE StartTurn
  <2>1. Conv!AllAnswered /\ UNCHANGED <<asked, answered>>
    BY <1>7 DEF StartTurn, TurnClosed
  <2>2. CASE entries' = Append(entries, Conv!User)
    BY <2>1, <2>2, InterjectionRefines DEF TurnClosed
  <2>3. CASE entries' = entries
    BY <2>1, <2>3, Silent DEF TurnClosed, transcriptVars
  <2>4. QED
    BY <1>7, <2>2, <2>3 DEF StartTurn
<1>8. CASE CompactionSucceeds \/ RecoverySucceeds
  <2>1. /\ Conv!AllAnswered /\ UNCHANGED <<asked, answered>>
        /\ entries' = Append(entries, Conv!Summary)
    BY <1>8 DEF CompactionSucceeds, RecoverySucceeds, TurnClosed
  <2>2. QED
    BY <2>1, InterjectionRefines DEF TurnClosed
<1>9. CASE ModelAnswers
  <2>1. Conv!AllAnswered
    BY <1>9 DEF ModelAnswers, Answers, TurnClosed
  <2>2. PICK noted \in BOOLEAN : Answers(<<>>, noted)
    BY <1>9 DEF ModelAnswers
  <2>3. ASSUME NEW calls \in Seq(Calls), calls = <<>>
        PROVE  Goal
    <3>1. Answers(calls, noted)
      BY <2>2, <2>3
    <3>2. ConversationStep /\ answered' = 0 /\ asked' = calls
      BY <2>1, <2>3, <3>1, AnswersRefine
    <3>3. QED
      BY <2>3, <3>2 DEF TurnClosed, Conv!AllAnswered
  <2>4. <<>> \in Seq(Calls)
    OBVIOUS
  <2>5. QED
    BY <2>3, <2>4, Zenon
<1>10. CASE ModelAsksForTools
  <2>1. Conv!AllAnswered
    BY <1>10 DEF ModelAsksForTools, Answers, TurnClosed
  <2>2. PICK calls \in Requestable : Answers(calls, TRUE)
    BY <1>10 DEF ModelAsksForTools
  <2>3. calls \in Seq(Calls)
    BY BatchesAreSequences DEF Requestable
  <2>4. pc' \in {"executing", "ended"}
    BY <1>10 DEF ModelAsksForTools, GoesTo, Ends
  <2>5. QED
    BY <2>1, <2>2, <2>3, <2>4, AnswersRefine DEF TurnClosed
<1>11. CASE AppendResult
  <2>1. Conv!Report
    BY <1>11 DEF AppendResult, Conv!Report
  <2>2. QED
    BY <1>11, <2>1 DEF AppendResult, ConversationStep, Conv!ConversationNext, TurnClosed
<1>12. CASE EndTurn
  BY <1>12, Silent DEF EndTurn, TurnClosed, Conv!AllAnswered, transcriptVars
<1>13. QED
  BY <1>3, <1>4, <1>5, <1>6, <1>7, <1>8, <1>9, <1>10, <1>11, <1>12 DEF LoopStep

LEMMA LoopRefinesByStep ==
  Spec => /\ [](LoopTypeOK /\ TurnClosed)
          /\ Conv!ConversationInit
          /\ [][Conv!ConversationNext]_(Conv!conversationVars)
<1>1. Init => TurnClosed /\ Conv!ConversationInit
  BY DEF Init, LoopInit, TurnClosed, Conv!ConversationInit, Conv!AllAnswered
<1>2. LoopTypeOK /\ TurnClosed /\ [Next]_vars => ConversationStep /\ TurnClosed'
  <2>1. ASSUME TurnClosed, AroundLoop
        PROVE  ConversationStep /\ TurnClosed'
    BY <2>1, Silent DEF AroundLoop, TurnClosed
  <2>2. QED
    BY <2>1, NextCases, LoopStepRefines
<1>3. QED
  BY <1>1, <1>2, LoopTyped, PTL DEF Spec, ConversationStep

\* Every run of the loop is a conversation: whatever batches, compactions,
\* overflows, aborts and timeouts do, the entries it writes are the ones the
\* abstract specification allows, in its order.
THEOREM LoopRefines == Spec => RefinesConversation
BY LoopRefinesByStep, PTL
DEF RefinesConversation, Conv!ConversationSpec

ConvP == INSTANCE ConversationProofs
           WITH Calls <- Calls, entries <- entries, asked <- asked, answered <- answered

\* What a conversation promises holds of every run's transcript; a request is
\* only made when nothing is outstanding, so every one of them, the one after a
\* compaction and the second one after an overflow included, shows the model
\* every tool call with its result in its place.
THEOREM LoopSendable == Spec => [](Conv!Paired /\ RequestSendable)
<1>1. ConvP!ConversationSpec => [](ConvP!Paired /\ ConvP!Sendable)
  BY ConvP!ConversationCorrect
<1>2. Spec => ConvP!ConversationSpec
  <2>1. Conv!ConversationInit => ConvP!ConversationInit
    BY DEF Conv!ConversationInit, ConvP!ConversationInit, Conv!System, Conv!User,
           ConvP!System, ConvP!User
  <2>2. ConversationStep => [ConvP!ConversationNext]_(ConvP!conversationVars)
    BY DEF ConversationStep, Conv!ConversationNext, ConvP!ConversationNext,
           Conv!Interject, ConvP!Interject, Conv!Answer, ConvP!Answer,
           Conv!Report, ConvP!Report, Conv!AllAnswered, ConvP!AllAnswered,
           Conv!User, ConvP!User, Conv!Summary, ConvP!Summary,
           Conv!Assistant, ConvP!Assistant, Conv!Result, ConvP!Result,
           Conv!conversationVars, ConvP!conversationVars
  <2>3. QED
    BY <2>1, <2>2, LoopRefinesByStep, PTL DEF ConvP!ConversationSpec, ConversationStep
<1>3. TurnClosed /\ ConvP!Paired /\ ConvP!Sendable => Conv!Paired /\ RequestSendable
  BY DEF TurnClosed, RequestSendable, ConvP!Paired, Conv!Paired, ConvP!Sendable,
         Conv!Sendable, ConvP!AllAnswered, Conv!AllAnswered, ConvP!IsAsk, Conv!IsAsk,
         ConvP!AnsweredInPlace, Conv!AnsweredInPlace, ConvP!Result, Conv!Result
<1>4. QED
  BY <1>1, <1>2, <1>3, LoopRefinesByStep, PTL

-------------------------------------------------------------------------------
(* The registry in the loop: whatever the loop does is a step of the         *)
(* registry's own specification or leaves the registry alone, so what is     *)
(* proved of the registry under any use of it holds in every run.            *)

LEMMA LoopStepOnRegistry ==
  ASSUME LoopTypeOK, LoopStep
  PROVE  RegistryStep
<1>1. ASSUME UNCHANGED registryVars
      PROVE  RegistryStep
  BY <1>1 DEF RegistryStep
<1>2. ASSUME NEW outcome, Stops(outcome)
      PROVE  RegistryStep
  BY <1>1, <1>2 DEF Stops
<1>3. ASSUME NEW calls \in Seq(Calls), NEW i \in 0 .. Len(calls), DispatchNext(calls, i)
      PROVE  RegistryStep
  BY <1>3, DispatchNextIsDispatch DEF RegistryStep
<1>4. CASE OutOfTurns \/ AbortedAtTop \/ CompactionThrows \/ PreparationFails
           \/ ModelFails \/ RecoveryFails \/ HasNothingToAdd \/ FollowUpThrows
           \/ BatchThrows
  BY <1>2, <1>4 DEF OutOfTurns, AbortedAtTop, CompactionThrows, PreparationFails,
     ModelFails, RecoveryFails, HasNothingToAdd, FollowUpThrows, BatchThrows
<1>5. CASE StartTurn \/ CompactionRetries \/ CompactionSucceeds \/ CompactionFails
           \/ ModelOverflows \/ RecoverySucceeds \/ ModelAnswers \/ FollowsUp
           \/ LastBatchDone \/ AppendResult \/ EndTurn
  BY <1>1, <1>5 DEF StartTurn, CompactionRetries, CompactionSucceeds, CompactionFails,
     ModelOverflows, RecoverySucceeds, ModelAnswers, FollowsUp, LastBatchDone,
     AppendResult, EndTurn
<1>6. CASE Prepared
  BY <1>1, <1>2, <1>6 DEF Prepared
<1>7. CASE ModelAsksForTools
  <2>1. PICK calls \in Requestable : DispatchNext(calls, 0) \/ UNCHANGED registryVars
    BY <1>7 DEF ModelAsksForTools
  <2>2. calls \in Seq(Calls) /\ 0 \in 0 .. Len(calls)
    BY BatchesAreSequences DEF Requestable
  <2>3. QED
    BY <1>1, <1>3, <2>1, <2>2
<1>8. CASE NextBatch
  <2>1. asked \in Seq(Calls) /\ dispatched \in 0 .. Len(asked)
    BY DEF LoopTypeOK
  <2>2. QED
    BY <1>2, <1>3, <1>8, <2>1 DEF NextBatch
<1>9. QED
  BY <1>4, <1>5, <1>6, <1>7, <1>8 DEF LoopStep

LEMMA NextOnRegistry ==
  ASSUME LoopTypeOK, [Next]_vars
  PROVE  RegistryStep
<1>1. CASE LoopStep
  BY <1>1, LoopStepOnRegistry
<1>2. CASE \E c \in Calls : CallGoesOn(c)
  BY <1>2 DEF CallGoesOn, RegistryStep
<1>3. CASE UserAborts
  BY <1>3 DEF UserAborts, RegistryStep, Signals
<1>4. CASE TimesOut
  BY <1>4 DEF TimesOut, RegistryStep, Signals
<1>5. CASE UNCHANGED vars
  BY <1>5 DEF vars, RegistryStep
<1>6. QED
  BY <1>1, <1>2, <1>3, <1>4, <1>5 DEF Next

\* In every run, however its batches interleave with hooks, timeouts and the
\* abort, no more tools are launched than maxToolCalls, and only tools that the
\* policy allowed, on inputs the sandbox accepts.
THEOREM LoopUsesRegistrySafely == Spec => [](RegistryTypeOK /\ LimitHolds /\ LaunchPermitted)
<1> DEFINE Inv == RegistryTypeOK /\ Accounted /\ Screened
<1>1. Init => Inv
  BY RegistryInitTyped, RegistryInitAccounted, RegistryInitScreened DEF Init
<1>2. LoopTypeOK /\ Inv /\ [Next]_vars => Inv'
  BY NextOnRegistry, RegistryStepTyped, RegistryStepAccounted, RegistryStepScreened
<1>3. Inv => RegistryTypeOK /\ LimitHolds /\ LaunchPermitted
  BY AccountedLimits DEF Screened
<1>4. QED
  BY <1>1, <1>2, <1>3, LoopTyped, PTL DEF Spec

-------------------------------------------------------------------------------
(* Compaction in the loop.                                                   *)

LEMMA NextOnCompaction == [Next]_vars => CompactionStep
<1>1. ASSUME UNCHANGED compactionVars
      PROVE  CompactionStep
  BY <1>1 DEF CompactionStep
<1>2. CASE StartTurn \/ ModelOverflows
  BY <1>2 DEF StartTurn, ModelOverflows, CompactionStep
<1>3. CASE CompactionRetries \/ CompactionSucceeds \/ CompactionFails
           \/ CompactionThrows \/ RecoverySucceeds \/ RecoveryFails
  BY <1>3 DEF CompactionRetries, CompactionSucceeds, CompactionFails,
     CompactionThrows, RecoverySucceeds, RecoveryFails, CompactionStep
<1>4. CASE LoopStep
  BY <1>1, <1>2, <1>3, <1>4 DEF LoopStep, OutOfTurns, AbortedAtTop, PreparationFails,
     Prepared, ModelFails, ModelAnswers, FollowsUp, HasNothingToAdd, FollowUpThrows,
     ModelAsksForTools, Answers, NextBatch, BatchThrows, LastBatchDone, AppendResult,
     EndTurn
<1>5. QED
  BY <1>1, <1>4, NextCases DEF AroundLoop

\* Compaction stays within its limits in every run: no attempt makes more model
\* calls than its two retry counters allow.
THEOREM LoopCompactsWithinBounds == Spec => [](CompactionTypeOK /\ CallsPerAttemptBounded)
<1>1. Init => Counted
  BY CompactionInitCounted DEF Init
<1>2. Counted /\ [Next]_vars => Counted'
  BY NextOnCompaction, CompactionStepCounted
<1>3. QED
  BY <1>1, <1>2, CountedBounds, PTL DEF Spec

\* Inside the loop as well: once the breaker is open no turn and no overflow
\* begins a compaction again.
THEOREM LoopKeepsBreakerOpen == Spec => BreakerStaysOpen
<1>1. Counted /\ [Next]_vars => Counted'
  BY NextOnCompaction, CompactionStepCounted
<1>2. Counted /\ [Next]_vars =>
        [(BreakerOpen /\ ~InFlight) => (BreakerOpen' /\ ~InFlight')]_compactionVars
  BY NextOnCompaction, CompactionStepKeepsBreaker
<1>3. Init => Counted
  BY CompactionInitCounted DEF Init
<1>4. QED
  BY <1>1, <1>2, <1>3, PTL DEF Spec, BreakerStaysOpen

-------------------------------------------------------------------------------
(* Recovery from an overflow.  RecoversOnce is not inductive: a request or a *)
(* compaction that is under way must already be paid for.                    *)

Extra == IF recovered THEN 1 ELSE 0

Paid ==
  /\ requests <= turnCount + Extra
  /\ pc \in {"compacting", "preparing", "recovering"} => requests + 1 <= turnCount + Extra
  /\ pc = "recovering" => recovered
  /\ compactionCount <= MaxCompactions + Extra
  /\ pc \in {"compacting", "recovering"} => compactionCount + 1 <= MaxCompactions + Extra

LEMMA LoopStepPaid ==
  ASSUME LoopTypeOK, CompactionTypeOK, Paid, LoopStep
  PROVE  Paid'
<1>1. /\ requests \in Nat /\ turnCount \in Nat /\ compactionCount \in Nat
      /\ MaxCompactions \in Nat /\ recovered \in BOOLEAN
  BY LoopAssumption, CompactionAssumption DEF LoopTypeOK, CompactionTypeOK
<1>2. ASSUME NEW outcome, Stops(outcome), UNCHANGED compactionCount
      PROVE  Paid'
  BY <1>1, <1>2 DEF Stops, Ends, Paid, Extra
<1>3. ASSUME UNCHANGED <<requests, turnCount, recovered, compactionCount>>,
             pc' = pc \/ pc' \notin {"compacting", "preparing", "recovering"}
      PROVE  Paid'
  BY <1>1, <1>3 DEF Paid, Extra
<1>4. CASE OutOfTurns \/ AbortedAtTop \/ CompactionThrows \/ PreparationFails
           \/ ModelFails \/ RecoveryFails \/ HasNothingToAdd \/ FollowUpThrows
           \/ BatchThrows
  BY <1>2, <1>4 DEF OutOfTurns, AbortedAtTop, CompactionThrows, PreparationFails,
     ModelFails, RecoveryFails, HasNothingToAdd, FollowUpThrows, BatchThrows,
     Throws, FailsQuietly, compactionVars
<1>5. CASE CompactionRetries \/ ModelAnswers \/ FollowsUp \/ LastBatchDone
           \/ AppendResult \/ EndTurn \/ ModelAsksForTools
  BY <1>3, <1>5 DEF CompactionRetries, RetryInvalid, RetryOverflow, ModelAnswers,
     Answers, FollowsUp, LastBatchDone, AppendResult, EndTurn, ModelAsksForTools,
     GoesTo, Ends, loopVars, compactionVars
<1>6. CASE NextBatch
  BY <1>2, <1>3, <1>6 DEF NextBatch, compactionVars
<1>7. CASE StartTurn
  <2>1. /\ turnCount' = turnCount + 1
        /\ UNCHANGED <<requests, recovered, compactionCount>>
        /\ \/ pc' = "compacting" /\ compactionCount < MaxCompactions
           \/ pc' = "preparing"
    BY <1>7 DEF StartTurn, Begin, Gate, Declines, GoesTo, compactionVars
  <2>2. QED
    BY <1>1, <2>1 DEF Paid, Extra
<1>8. CASE CompactionSucceeds \/ CompactionFails
  BY <1>1, <1>8 DEF CompactionSucceeds, CompactionFails, Succeeds, FailsQuietly,
     GoesTo, Paid, Extra
<1>9. CASE Prepared
  <2>1. CASE Aborted
    BY <1>2, <1>9, <2>1 DEF Prepared, compactionVars
  <2>2. CASE ~Aborted
    BY <1>1, <1>9, <2>2 DEF Prepared, GoesTo, Paid, Extra, compactionVars
  <2>3. QED
    BY <2>1, <2>2
<1>10. CASE ModelOverflows
  <2>1. /\ ~recovered /\ recovered'
        /\ pc = "requesting" /\ pc' \in {"recovering", "ended"}
        /\ UNCHANGED <<requests, turnCount, compactionCount>>
    BY <1>10 DEF ModelOverflows, Begin, Declines, GoesTo, Ends, compactionVars
  <2>2. Extra = 0 /\ Extra' = 1
    BY <2>1 DEF Extra
  <2>3. QED
    BY <1>1, <2>1, <2>2 DEF Paid
<1>11. CASE RecoverySucceeds
  BY <1>1, <1>11 DEF RecoverySucceeds, Succeeds, GoesTo, Ends, Paid, Extra
<1>12. QED
  BY <1>4, <1>5, <1>6, <1>7, <1>8, <1>9, <1>10, <1>11 DEF LoopStep

\* A run makes at most one main request more than it has turns, and at most one
\* compaction more than maxCompactionsPerRun: those of its one recovery.
THEOREM LoopRecoversOnce == Spec => []RecoversOnce
<1>1. Init => Paid
  BY CompactionAssumption DEF Init, LoopInit, CompactionInit, Paid, Extra
<1>2. LoopTypeOK /\ CompactionTypeOK /\ Paid /\ [Next]_vars => Paid'
  <2>1. ASSUME Paid, AroundLoop
        PROVE  Paid'
    BY <2>1 DEF AroundLoop, compactionVars, Paid, Extra
  <2>2. QED
    BY <2>1, NextCases, LoopStepPaid
<1>3. Paid => RecoversOnce
  BY DEF Paid, Extra, RecoversOnce
<1>4. QED
  BY <1>1, <1>2, <1>3, LoopTyped, LoopCompactsWithinBounds, PTL DEF Spec

-------------------------------------------------------------------------------
(* After an abort.                                                           *)

\* A call that is not started stays so when another one goes on.
LEMMA IdleStaysIdle ==
  ASSUME RegistryTypeOK, NEW c \in Calls, CallStep(c), NEW d \in Calls,
         call[d].stage = "idle"
  PROVE  call'[d].stage = "idle"
BY CallStepEffect DEF MovesAlone, RegistryTypeOK

BeginsNothing ==
  /\ turnCount' = turnCount
  /\ requests' = requests
  /\ \A c \in Calls : call[c].stage = "idle" => call'[c].stage = "idle"

LEMMA AbortedBeginsNothing ==
  ASSUME RegistryTypeOK, Aborted, [Next]_vars
  PROVE  BeginsNothing
<1>1. ASSUME UNCHANGED <<turnCount, requests, registryVars>>
      PROVE  BeginsNothing
  BY <1>1 DEF BeginsNothing, registryVars
<1>2. CASE LoopStep
  <2>1. ASSUME NEW outcome, Stops(outcome)
        PROVE  BeginsNothing
    BY <1>1, <2>1 DEF Stops
  <2>2. CASE OutOfTurns \/ AbortedAtTop \/ CompactionThrows \/ PreparationFails
             \/ ModelFails \/ RecoveryFails \/ HasNothingToAdd \/ FollowUpThrows
             \/ BatchThrows \/ Prepared \/ NextBatch
    BY <2>1, <2>2 DEF OutOfTurns, AbortedAtTop, CompactionThrows, PreparationFails,
       ModelFails, RecoveryFails, HasNothingToAdd, FollowUpThrows, BatchThrows,
       Prepared, NextBatch
  <2>3. CASE CompactionRetries \/ CompactionSucceeds \/ CompactionFails
             \/ ModelOverflows \/ RecoverySucceeds \/ ModelAnswers \/ FollowsUp
             \/ ModelAsksForTools \/ LastBatchDone \/ AppendResult \/ EndTurn
    BY <1>1, <2>3 DEF CompactionRetries, CompactionSucceeds, CompactionFails,
       ModelOverflows, RecoverySucceeds, ModelAnswers, Answers, FollowsUp,
       ModelAsksForTools, LastBatchDone, AppendResult, EndTurn, loopVars
  <2>4. QED
    BY <1>2, <2>2, <2>3 DEF LoopStep, StartTurn
<1>3. ASSUME NEW c \in Calls, CallGoesOn(c)
      PROVE  BeginsNothing
  BY <1>3, IdleStaysIdle DEF CallGoesOn, loopVars, BeginsNothing
<1>4. CASE UserAborts \/ TimesOut
  BY <1>1, <1>4 DEF UserAborts, TimesOut, Abort, Aborted
<1>5. CASE UNCHANGED vars
  BY <1>1, <1>5 DEF vars, loopVars
<1>6. QED
  BY <1>2, <1>3, <1>4, <1>5 DEF Next

\* Once the run is aborted no turn, no main request and no tool call begins,
\* wherever the loop was waiting when it happened.
THEOREM LoopHeedsAbort == Spec => NoNewWorkAfterAbort
<1>1. RegistryTypeOK /\ [Next]_vars => [Aborted => BeginsNothing]_vars
  BY AbortedBeginsNothing
<1>2. QED
  BY <1>1, LoopUsesRegistrySafely, PTL DEF Spec, NoNewWorkAfterAbort, BeginsNothing

-------------------------------------------------------------------------------
(* What a run still writes after an abort.  The bound is not inductive: a    *)
(* run that waits for the model must not have written anything yet, and one  *)
(* that appends results only as many as it has appended.                     *)

LateEntries ==
  Aborted =>
    /\ pc \in {"compacting", "requesting", "recovering", "rerequesting", "executing"} =>
         Len(entries) <= lenAtAbort
    /\ pc = "appending" => Len(entries) <= lenAtAbort + answered
    /\ AbortBoundsTranscript

LEMMA LoopStepKeepsSignal ==
  ASSUME LoopStep
  PROVE  UNCHANGED <<signal, lenAtAbort>>
<1>1. ASSUME NEW outcome, Stops(outcome)
      PROVE  UNCHANGED <<signal, lenAtAbort>>
  BY <1>1 DEF Stops, registryVars
<1>2. ASSUME NEW calls, NEW i, DispatchNext(calls, i)
      PROVE  UNCHANGED signal
  BY <1>2 DEF DispatchNext, Dispatch
<1>3. CASE OutOfTurns \/ AbortedAtTop \/ CompactionThrows \/ PreparationFails
           \/ ModelFails \/ RecoveryFails \/ HasNothingToAdd \/ FollowUpThrows
           \/ BatchThrows
  BY <1>1, <1>3 DEF OutOfTurns, AbortedAtTop, CompactionThrows, PreparationFails,
     ModelFails, RecoveryFails, HasNothingToAdd, FollowUpThrows, BatchThrows
<1>4. CASE StartTurn \/ CompactionRetries \/ CompactionSucceeds \/ CompactionFails
           \/ ModelOverflows \/ RecoverySucceeds \/ ModelAnswers \/ FollowsUp
           \/ LastBatchDone \/ AppendResult \/ EndTurn
  BY <1>4 DEF StartTurn, CompactionRetries, CompactionSucceeds, CompactionFails,
     ModelOverflows, RecoverySucceeds, ModelAnswers, Answers, FollowsUp, LastBatchDone,
     AppendResult, EndTurn, registryVars, loopVars
<1>5. CASE Prepared
  BY <1>1, <1>5 DEF Prepared, registryVars
<1>6. CASE ModelAsksForTools
  <2>1. UNCHANGED lenAtAbort
    BY <1>6 DEF ModelAsksForTools, Answers
  <2>2. UNCHANGED signal
    BY <1>2, <1>6 DEF ModelAsksForTools, registryVars
  <2>3. QED
    BY <2>1, <2>2
<1>7. CASE NextBatch
  BY <1>1, <1>2, <1>7 DEF NextBatch
<1>8. QED
  BY <1>3, <1>4, <1>5, <1>6, <1>7 DEF LoopStep

LEMMA LoopStepLate ==
  ASSUME LoopTypeOK, LateEntries, LoopStep
  PROVE  LateEntries'
<1>1. SUFFICES ASSUME Aborted
               PROVE  LateEntries'
  BY LoopStepKeepsSignal DEF LateEntries, Aborted
<1>2. /\ lenAtAbort \in Nat /\ Len(entries) \in Nat /\ Len(asked) \in Nat
      /\ entries \in Seq(Conv!Entry)
      /\ answered \in 0 .. Len(asked)
      /\ lenAtAbort' = lenAtAbort
  BY LoopStepKeepsSignal DEF LoopTypeOK
<1> DEFINE Waits == {"compacting", "requesting", "recovering", "rerequesting", "executing"}
           MayAppend(n) == IF n > 1 THEN n ELSE 1
<1>3. /\ pc \in Waits => Len(entries) <= lenAtAbort
      /\ pc = "appending" => Len(entries) <= lenAtAbort + answered
      /\ Len(entries) <= lenAtAbort + MayAppend(Len(asked))
  BY <1>1 DEF LateEntries, AbortBoundsTranscript
<1>4. ASSUME UNCHANGED transcriptVars,
             pc' \notin Waits \cup {"appending"} \/ pc' = pc
               \/ (pc \in Waits /\ pc' \in Waits \cup {"appending"})
      PROVE  LateEntries'
  BY <1>2, <1>3, <1>4 DEF transcriptVars, LateEntries, AbortBoundsTranscript
<1>5. ASSUME pc \in Waits, pc' \notin Waits \cup {"appending"},
             Len(entries') <= Len(entries) + 1, Len(entries') \in Nat, Len(asked') \in Nat
      PROVE  LateEntries'
  BY <1>2, <1>3, <1>5 DEF LateEntries, AbortBoundsTranscript
<1>6. ASSUME NEW outcome, Stops(outcome)
      PROVE  LateEntries'
  BY <1>4, <1>6 DEF Stops, Ends
<1>7. CASE OutOfTurns \/ AbortedAtTop \/ CompactionThrows \/ PreparationFails
           \/ ModelFails \/ RecoveryFails \/ HasNothingToAdd \/ FollowUpThrows
           \/ BatchThrows \/ Prepared \/ NextBatch
  BY <1>1, <1>6, <1>7 DEF OutOfTurns, AbortedAtTop, CompactionThrows, PreparationFails,
     ModelFails, RecoveryFails, HasNothingToAdd, FollowUpThrows, BatchThrows,
     Prepared, NextBatch
<1>8. CASE CompactionRetries \/ CompactionFails \/ ModelOverflows \/ FollowsUp
           \/ LastBatchDone
  BY <1>4, <1>8 DEF CompactionRetries, CompactionFails, ModelOverflows, FollowsUp,
     LastBatchDone, GoesTo, Ends, loopVars, transcriptVars
<1>9. CASE CompactionSucceeds \/ RecoverySucceeds
  <2>1. /\ entries' = Append(entries, Conv!Summary) /\ UNCHANGED asked
        /\ pc \in Waits /\ pc' \notin Waits \cup {"appending"}
    BY <1>1, <1>9 DEF CompactionSucceeds, RecoverySucceeds, GoesTo, Ends
  <2>2. Len(entries') = Len(entries) + 1
    BY <1>2, <2>1, EntriesTyped
  <2>3. QED
    BY <1>2, <1>5, <2>1, <2>2
<1>10. CASE ModelAnswers \/ ModelAsksForTools
  <2>1. PICK calls \in Seq(Calls), noted \in BOOLEAN : Answers(calls, noted)
    <3>1. <<>> \in Seq(Calls)
      OBVIOUS
    <3>2. CASE ModelAnswers
      BY <3>1, <3>2, Zenon DEF ModelAnswers
    <3>3. CASE ModelAsksForTools
      BY <3>3, BatchesAreSequences DEF ModelAsksForTools, Requestable
    <3>4. QED
      BY <1>10, <3>2, <3>3
  <2>2. pc \in Waits /\ pc' \notin Waits \cup {"appending"}
    BY <1>1, <1>10 DEF ModelAnswers, ModelAsksForTools, Answers, GoesTo, Ends
  <2>3. Len(entries') <= Len(entries) + 1 /\ Len(entries') \in Nat
    BY <1>2, <2>1, EntriesTyped DEF Answers
  <2>4. asked' = calls
    BY <2>1 DEF Answers
  <2>5. QED
    BY <1>5, <2>2, <2>3, <2>4
<1>11. CASE AppendResult
  <2>1. /\ pc = "appending" /\ pc' = "appending" /\ UNCHANGED asked
        /\ answered < Len(asked) /\ answered' = answered + 1
        /\ entries' = Append(entries, Conv!Result(asked[answered + 1]))
    BY <1>11 DEF AppendResult
  <2>2. Conv!Result(asked[answered + 1]) \in Conv!Entry
    BY <1>2, <2>1, EntriesTyped DEF LoopTypeOK
  <2>3. Len(entries') = Len(entries) + 1
    BY <1>2, <2>1, <2>2
  <2>4. QED
    BY <1>2, <1>3, <2>1, <2>3 DEF LateEntries, AbortBoundsTranscript
<1>12. CASE EndTurn
  BY <1>4, <1>12 DEF EndTurn, GoesTo, Ends, transcriptVars
<1>13. QED
  BY <1>1, <1>7, <1>8, <1>9, <1>10, <1>11, <1>12 DEF LoopStep, StartTurn

LEMMA NextLate ==
  ASSUME LoopTypeOK, LateEntries, [Next]_vars
  PROVE  LateEntries'
<1>1. Len(entries) \in Nat /\ Len(asked) \in Nat /\ answered \in Nat
  BY DEF LoopTypeOK
<1>2. ASSUME AroundLoop, lenAtAbort' = Len(entries)
      PROVE  LateEntries'
  BY <1>1, <1>2 DEF AroundLoop, transcriptVars, LateEntries, AbortBoundsTranscript
<1>3. ASSUME AroundLoop, UNCHANGED <<signal, lenAtAbort>>
      PROVE  LateEntries'
  BY <1>3 DEF AroundLoop, transcriptVars, LateEntries, AbortBoundsTranscript, Aborted
<1>4. CASE LoopStep
  BY <1>4, LoopStepLate
<1>5. ASSUME NEW c \in Calls, CallGoesOn(c)
      PROVE  LateEntries'
  <2>1. AroundLoop /\ UNCHANGED lenAtAbort
    BY <1>5 DEF CallGoesOn, AroundLoop, loopVars, transcriptVars, budgetVars
  <2>2. UNCHANGED signal
    BY <1>5 DEF CallGoesOn, CallStep, BeforeHookPasses, BeforeHookDenies, HookThrows,
       ToolReturns, ToolFails, ToolAborts, ToolRejectsWithReason, ToolTimesOut,
       AfterHookReturns, ZombieSettles, MoveTo
  <2>3. QED
    BY <1>3, <2>1, <2>2
<1>6. CASE UserAborts
  BY <1>2, <1>6 DEF UserAborts, AroundLoop
<1>7. CASE TimesOut
  BY <1>2, <1>3, <1>7 DEF TimesOut, AroundLoop, registryVars
<1>8. CASE UNCHANGED vars
  BY <1>3, <1>8 DEF vars, AroundLoop, loopVars, transcriptVars, budgetVars, registryVars
<1>9. QED
  BY <1>4, <1>5, <1>6, <1>7, <1>8 DEF Next

\* Whatever a run was waiting for when it was aborted, it writes no more into
\* the session than one entry, or than the results of the calls it had started.
THEOREM LoopBoundsLateEntries == Spec => []AbortBoundsTranscript
<1>1. Init => LateEntries
  BY DEF Init, RegistryInit, LateEntries, Aborted
<1>2. LoopTypeOK /\ LateEntries /\ [Next]_vars => LateEntries'
  BY NextLate
<1>3. LateEntries => AbortBoundsTranscript
  BY DEF LateEntries, AbortBoundsTranscript
<1>4. QED
  BY <1>1, <1>2, <1>3, LoopTyped, PTL DEF Spec

-------------------------------------------------------------------------------
(* The calls of a run.  An answered run has heard of every call because, up  *)
(* to its end, every call that is not idle has its result in the transcript  *)
(* or is one of those the loop has started and not yet reported.             *)

Outstanding == {asked[i] : i \in answered + 1 .. dispatched}

HeardOf(c) ==
  call[c].stage = "done" /\ \E i \in DOMAIN entries : entries[i] = Conv!Result(c)

Followed ==
  /\ pc # "ended" =>
       \A c \in Calls : call[c].stage = "idle" \/ c \in Outstanding \/ HeardOf(c)
  /\ pc = "executing" => answered = 0
  /\ pc = "appending" => dispatched = Len(asked) /\ AllDone
  /\ caller = "answer" => pc = "ended"
  /\ AnswerAccountsForCalls

\* Nothing is outstanding where the loop does not wait for its calls.
LEMMA NothingOutstanding ==
  ASSUME LoopTypeOK, Conv!AllAnswered
  PROVE  Outstanding = {}
BY DEF LoopTypeOK, Conv!AllAnswered, Outstanding

\* What the transcript tells of a call it goes on telling.
LEMMA HeardStays ==
  ASSUME LoopTypeOK, NEW c \in Calls, HeardOf(c), call'[c] = call[c],
         entries' = entries \/ \E e \in Conv!Entry : entries' = Append(entries, e)
  PROVE  HeardOf(c)'
<1>1. entries \in Seq(Conv!Entry)
  BY DEF LoopTypeOK
<1>2. PICK i \in DOMAIN entries : entries[i] = Conv!Result(c)
  BY DEF HeardOf
<1>3. i \in DOMAIN entries' /\ entries'[i] = entries[i]
  BY <1>1, <1>2
<1>4. Conv!Result(c)' = Conv!Result(c)
  BY DEF Conv!Result
<1>5. QED
  BY <1>2, <1>3, <1>4 DEF HeardOf

\* A step of the loop that starts nothing and reports nothing.
LEMMA FollowedStays ==
  ASSUME LoopTypeOK, Followed, UNCHANGED <<call, asked, answered, dispatched>>,
         entries' = entries \/ \E e \in Conv!Entry : entries' = Append(entries, e),
         pc # "ended",
         pc' \in {"executing", "appending"} => pc' = pc,
         caller' = "answer" /\ caller # "answer" => pc' = "ended" /\ Outstanding = {}
  PROVE  Followed'
<1>1. Outstanding' = Outstanding
  BY DEF Outstanding
<1>2. \A c \in Calls : HeardOf(c) => HeardOf(c)'
  BY HeardStays
<1>3. \A c \in Calls : call'[c].stage = "idle" \/ c \in Outstanding \/ HeardOf(c)'
  BY <1>2 DEF Followed
<1>4. caller # "answer"
  BY DEF Followed
<1>5. caller' = "answer" => pc' = "ended" /\ AnswerAccountsForCalls'
  BY <1>3, <1>4 DEF AnswerAccountsForCalls, HeardOf
<1>6. pc' = "executing" => answered' = 0
  BY DEF Followed
<1>7. pc' = "appending" => dispatched' = Len(asked') /\ AllDone'
  BY DEF Followed, AllDone, Started
<1>8. AnswerAccountsForCalls'
  BY <1>5 DEF AnswerAccountsForCalls
<1>9. QED
  BY <1>1, <1>3, <1>5, <1>6, <1>7, <1>8 DEF Followed

\* The next batch is started when nothing else is in progress; it is one call,
\* or all of its calls may run side by side.
LEMMA DispatchNextAlone ==
  ASSUME RegistryTypeOK, NEW calls \in Seq(Calls), NEW i \in 0 .. Len(calls),
         DispatchNext(calls, i), InProgress = {}
  PROVE  /\ SequentialCallsAlone'
         /\ \A c \in Calls :
              call'[c] = call[c] \/ \E k \in i + 1 .. dispatched' : c = calls[k]
<1>1. PICK j \in i + 1 .. Len(calls) :
        /\ IsNextBatch(calls, i, j)
        /\ Dispatch(SubSeq(calls, i + 1, j))
        /\ dispatched' = j
  BY DEF DispatchNext
<1> DEFINE batch == SubSeq(calls, i + 1, j)
<1>2. /\ batch \in Seq(Calls) /\ Len(batch) = j - i
      /\ \A k \in 1 .. j - i : batch[k] = calls[i + k]
  BY <1>1
<1>3. Members(batch) = {calls[k] : k \in i + 1 .. j}
  <2>1. \A k \in 1 .. j - i : i + k \in i + 1 .. j
    BY <1>1
  <2>2. \A k \in i + 1 .. j : k - i \in 1 .. j - i /\ i + (k - i) = k
    BY <1>1
  <2>3. Members(batch) \subseteq {calls[k] : k \in i + 1 .. j}
    BY <1>2, <2>1 DEF Members
  <2>4. {calls[k] : k \in i + 1 .. j} \subseteq Members(batch)
    <3>1. ASSUME NEW k \in i + 1 .. j
          PROVE  calls[k] \in Members(batch)
      BY <1>2, <2>2 DEF Members
    <3>2. QED
      BY <3>1
  <2>5. QED
    BY <2>3, <2>4
<1>4. \A c \in Calls \ Members(batch) : call'[c] = call[c]
  BY <1>1, <1>2, DispatchEffect
<1>5. InProgress' \subseteq Members(batch)
  BY <1>4 DEF InProgress
<1>6. CASE j = i + 1
  <2>1. Members(batch) = {calls[j]}
    BY <1>1, <1>3, <1>6
  <2>2. QED
    BY <1>1, <1>3, <1>4, <1>5, <2>1 DEF SequentialCallsAlone
<1>7. CASE j # i + 1
  <2>1. \A k \in i + 2 .. j : calls[i + 1] \in ParallelSafe /\ calls[k] \in ParallelSafe
    BY <1>1 DEF IsNextBatch, Together
  <2>2. i + 2 \in i + 2 .. j
    BY <1>1, <1>7
  <2>3. \A k \in i + 1 .. j : calls[k] \in ParallelSafe
    <3>1. \A k \in i + 1 .. j : k = i + 1 \/ k \in i + 2 .. j
      BY <1>1
    <3>2. QED
      BY <2>1, <2>2, <3>1
  <2>4. QED
    BY <1>1, <1>3, <1>4, <1>5, <2>3 DEF SequentialCallsAlone
<1>8. QED
  BY <1>6, <1>7

\* The model asks for calls, or the next of them are started: they become the
\* outstanding ones, and every other call stays as it was.
LEMMA DispatchNextFollowed ==
  ASSUME LoopTypeOK, RegistryTypeOK, NEW calls \in Seq(Calls), NEW i \in 0 .. Len(calls),
         DispatchNext(calls, i), InProgress = {},
         \A c \in Calls : \/ call[c].stage = "idle" \/ HeardOf(c)
                          \/ \E k \in 1 .. i : c = calls[k],
         entries' = entries \/ \E e \in Conv!Entry : entries' = Append(entries, e),
         asked' = calls, answered' = 0, pc' = "executing", caller' = caller, caller # "answer"
  PROVE  Followed'
<1>1. dispatched' \in i + 1 .. Len(calls)
  BY DispatchNextIsDispatch
<1>2. \A k \in 1 .. i : calls[k] \in Outstanding'
  BY <1>1 DEF Outstanding
<1>3. \A k \in i + 1 .. dispatched' : calls[k] \in Outstanding'
  BY <1>1 DEF Outstanding
<1>4. ASSUME NEW c \in Calls
      PROVE  call'[c].stage = "idle" \/ c \in Outstanding' \/ HeardOf(c)'
  <2>1. CASE call'[c] = call[c]
    BY <1>2, <2>1, HeardStays
  <2>2. CASE \E k \in i + 1 .. dispatched' : c = calls[k]
    BY <1>3, <2>2
  <2>3. QED
    BY <2>1, <2>2, DispatchNextAlone
<1>5. QED
  BY <1>4 DEF Followed, AnswerAccountsForCalls

LEMMA LoopStepFollowed ==
  ASSUME LoopTypeOK, RegistryTypeOK, TurnClosed, Followed, SequentialCallsAlone, LoopStep
  PROVE  Followed' /\ SequentialCallsAlone'
<1> DEFINE Goal == Followed' /\ SequentialCallsAlone'
<1>1. /\ entries \in Seq(Conv!Entry) /\ asked \in Seq(Calls)
      /\ dispatched \in 0 .. Len(asked) /\ answered \in 0 .. Len(asked)
  BY DEF LoopTypeOK
<1>2. ASSUME UNCHANGED call
      PROVE  SequentialCallsAlone'
  BY <1>2 DEF SequentialCallsAlone, InProgress
<1>3. pc \notin {"executing", "appending", "ended"} => Outstanding = {}
  BY NothingOutstanding DEF TurnClosed
<1>4. ASSUME UNCHANGED <<call, asked, answered, dispatched, caller>>, pc # "ended",
             entries' = entries \/ \E e \in Conv!Entry : entries' = Append(entries, e),
             pc' \in {"executing", "appending"} => pc' = pc
      PROVE  Goal
  BY <1>2, <1>4, FollowedStays
<1>5. ASSUME NEW outcome \in {"answer", "error"}, Stops(outcome), pc # "ended",
             outcome = "answer" => Outstanding = {}
      PROVE  Goal
  BY <1>2, <1>5, FollowedStays DEF Stops, Ends, registryVars, transcriptVars
<1>6. CASE OutOfTurns \/ AbortedAtTop \/ CompactionThrows \/ PreparationFails
           \/ ModelFails \/ RecoveryFails \/ HasNothingToAdd \/ FollowUpThrows
           \/ BatchThrows
  BY <1>3, <1>5, <1>6 DEF OutOfTurns, AbortedAtTop, CompactionThrows, PreparationFails,
     ModelFails, RecoveryFails, HasNothingToAdd, FollowUpThrows, BatchThrows
<1>7. CASE CompactionRetries \/ CompactionFails \/ FollowsUp
  BY <1>4, <1>7 DEF CompactionRetries, CompactionFails, FollowsUp, GoesTo, loopVars,
     transcriptVars, registryVars
<1>8. CASE StartTurn \/ CompactionSucceeds
  <2>1. entries' = entries \/ \E e \in Conv!Entry : entries' = Append(entries, e)
    BY <1>8, EntriesTyped DEF StartTurn, CompactionSucceeds
  <2>2. QED
    BY <1>4, <1>8, <2>1 DEF StartTurn, CompactionSucceeds, GoesTo, registryVars
<1>9. CASE ModelOverflows
  BY <1>2, <1>3, <1>9, FollowedStays DEF ModelOverflows, GoesTo, Ends, transcriptVars,
     registryVars
<1>10. CASE RecoverySucceeds
  <2>1. \E e \in Conv!Entry : entries' = Append(entries, e)
    BY <1>10, EntriesTyped DEF RecoverySucceeds
  <2>2. UNCHANGED <<call, asked, answered, dispatched>> /\ pc = "recovering"
    BY <1>10 DEF RecoverySucceeds, registryVars
  <2>3. \/ pc' = "rerequesting" /\ caller' = caller
        \/ pc' = "ended" /\ caller' \in {caller, "error"}
    BY <1>10 DEF RecoverySucceeds, GoesTo, Ends
  <2>4. QED
    BY <1>2, <2>1, <2>2, <2>3, FollowedStays
<1>11. CASE Prepared
  <2>1. CASE Aborted
    BY <1>5, <1>11, <2>1 DEF Prepared
  <2>2. CASE ~Aborted
    BY <1>4, <1>11, <2>2 DEF Prepared, GoesTo, transcriptVars, registryVars
  <2>3. QED
    BY <2>1, <2>2
<1>12. CASE ModelAnswers
  <2>1. entries' = entries \/ \E e \in Conv!Entry : entries' = Append(entries, e)
    <3>1. <<>> \in Seq(Calls)
      OBVIOUS
    <3>2. Conv!Assistant(<<>>) \in Conv!Entry
      BY <3>1, EntriesTyped, Zenon
    <3>3. QED
      BY <1>12, <3>2 DEF ModelAnswers, Answers
  <2>2. /\ pc \in {"requesting", "rerequesting"} /\ pc' = "following"
        /\ UNCHANGED <<call, caller>>
        /\ asked' = <<>> /\ answered' = 0 /\ dispatched' = 0
    BY <1>12 DEF ModelAnswers, Answers, GoesTo, registryVars
  <2>3. \A c \in Calls : call[c].stage = "idle" \/ HeardOf(c)
    BY <1>3, <2>2 DEF Followed
  <2>4. \A c \in Calls : call'[c].stage = "idle" \/ HeardOf(c)'
    BY <2>1, <2>2, <2>3, HeardStays
  <2>5. caller' # "answer"
    BY <2>2 DEF Followed
  <2>6. Followed'
    BY <2>2, <2>4, <2>5 DEF Followed, AnswerAccountsForCalls
  <2>7. QED
    BY <1>2, <2>2, <2>6
<1>13. CASE ModelAsksForTools
  <2>1. PICK calls \in Requestable :
          /\ Answers(calls, TRUE)
          /\ IF RegistryGiven /\ ~Aborted
             THEN DispatchNext(calls, 0) /\ GoesTo("executing")
             ELSE Ends("error") /\ dispatched' = 0 /\ UNCHANGED registryVars
    BY <1>13 DEF ModelAsksForTools
  <2>2. calls \in Seq(Calls) /\ 0 \in 0 .. Len(calls)
    BY BatchesAreSequences DEF Requestable
  <2>3. \E e \in Conv!Entry : entries' = Append(entries, e)
    BY <2>1, <2>2, EntriesTyped DEF Answers
  <2>4. /\ pc \in {"requesting", "rerequesting"}
        /\ asked' = calls /\ answered' = 0
    BY <2>1 DEF Answers
  <2>5. caller # "answer"
    BY <2>4 DEF Followed
  <2>6. \A c \in Calls : call[c].stage = "idle" \/ HeardOf(c)
    BY <1>3, <2>4 DEF Followed
  <2>7. InProgress = {}
    BY <2>6 DEF InProgress, HeardOf
  <2>8. CASE RegistryGiven /\ ~Aborted
    <3>1. DispatchNext(calls, 0) /\ pc' = "executing" /\ caller' = caller
      BY <2>1, <2>8 DEF GoesTo
    <3>2. Followed'
      BY <2>2, <2>3, <2>4, <2>5, <2>6, <2>7, <3>1, DispatchNextFollowed
    <3>3. SequentialCallsAlone'
      BY <2>2, <2>7, <3>1, DispatchNextAlone
    <3>4. QED
      BY <3>2, <3>3
  <2>9. CASE ~(RegistryGiven /\ ~Aborted)
    <3>1. pc' = "ended" /\ caller' \in {caller, "error"} /\ UNCHANGED call
      BY <2>1, <2>9 DEF Ends, registryVars
    <3>2. QED
      BY <1>2, <2>5, <3>1 DEF Followed, AnswerAccountsForCalls
  <2>10. QED
    BY <2>8, <2>9
<1>14. CASE NextBatch
  <2>1. CASE Aborted
    BY <1>5, <1>14, <2>1 DEF NextBatch
  <2>2. CASE ~Aborted
    <3>1. /\ pc = "executing" /\ AllDone /\ DispatchNext(asked, dispatched)
          /\ UNCHANGED <<pc, entries, asked, answered, caller>>
      BY <1>14, <2>2 DEF NextBatch, transcriptVars
    <3>2. answered = 0 /\ caller # "answer"
      BY <3>1 DEF Followed
    <3>3. Outstanding = Started
      BY <3>2 DEF Outstanding, Started
    <3>4. \A c \in Calls : \/ call[c].stage = "idle" \/ HeardOf(c)
                           \/ c \in Started /\ call[c].stage = "done"
      BY <3>1, <3>3 DEF Followed, AllDone
    <3>5. InProgress = {}
      BY <3>4 DEF InProgress, HeardOf
    <3>6. \A c \in Calls : \/ call[c].stage = "idle" \/ HeardOf(c)
                           \/ \E k \in 1 .. dispatched : c = asked[k]
      BY <3>4 DEF Started
    <3>7. Followed'
      BY <1>1, <3>1, <3>2, <3>5, <3>6, DispatchNextFollowed
    <3>8. SequentialCallsAlone'
      BY <1>1, <3>1, <3>5, DispatchNextAlone
    <3>9. QED
      BY <3>7, <3>8
  <2>3. QED
    BY <2>1, <2>2
<1>15. CASE LastBatchDone
  <2>1. /\ pc = "executing" /\ pc' = "appending" /\ AllDone /\ dispatched = Len(asked)
        /\ UNCHANGED <<call, entries, asked, answered, dispatched, caller>>
    BY <1>15 DEF LastBatchDone, GoesTo, transcriptVars, registryVars
  <2>2. \A c \in Calls : HeardOf(c) => HeardOf(c)'
    BY <2>1, HeardStays
  <2>3. QED
    BY <1>2, <2>1, <2>2
       DEF Followed, AllDone, Started, Outstanding, AnswerAccountsForCalls
<1>16. CASE AppendResult
  <2>1. /\ pc = "appending" /\ answered < Len(asked)
        /\ entries' = Append(entries, Conv!Result(asked[answered + 1]))
        /\ answered' = answered + 1
        /\ UNCHANGED <<pc, call, asked, dispatched, caller>>
    BY <1>16 DEF AppendResult, registryVars
  <2>2. PICK d \in Calls : d = asked[answered + 1] /\ Conv!Result(d) \in Conv!Entry
    BY <1>1, <2>1, EntriesTyped
  <2>3. dispatched = Len(asked) /\ AllDone /\ caller # "answer"
    BY <2>1 DEF Followed
  <2>4. call[d].stage = "done"
    BY <1>1, <2>1, <2>2, <2>3 DEF AllDone, Started
  <2>5. HeardOf(d)'
    <3>1. Len(entries) + 1 \in DOMAIN entries' /\ entries'[Len(entries) + 1] = Conv!Result(d)
      BY <1>1, <2>1, <2>2
    <3>2. QED
      BY <2>1, <2>4, <3>1 DEF HeardOf, Conv!Result
  <2>6. \A c \in Outstanding : c = d \/ c \in Outstanding'
    BY <1>1, <2>1, <2>2 DEF Outstanding
  <2>7. \A c \in Calls : HeardOf(c) => HeardOf(c)'
    BY <2>1, <2>2, HeardStays
  <2>8. \A c \in Calls : call'[c].stage = "idle" \/ c \in Outstanding' \/ HeardOf(c)'
    BY <2>1, <2>5, <2>6, <2>7 DEF Followed
  <2>9. pc' = "appending" /\ dispatched' = Len(asked') /\ AllDone'
    BY <2>1, <2>3 DEF AllDone, Started
  <2>10. AnswerAccountsForCalls' /\ caller' # "answer"
    BY <2>1, <2>3 DEF AnswerAccountsForCalls
  <2>11. QED
    BY <1>2, <2>1, <2>8, <2>9, <2>10 DEF Followed
<1>17. CASE EndTurn
  <2>1. Outstanding = {}
    BY <1>17, NothingOutstanding DEF EndTurn, Conv!AllAnswered
  <2>2. QED
    BY <1>2, <1>17, <2>1, FollowedStays DEF EndTurn, GoesTo, Ends, transcriptVars, registryVars
<1>18. QED
  BY <1>6, <1>7, <1>8, <1>9, <1>10, <1>11, <1>12, <1>13, <1>14, <1>15, <1>16, <1>17
     DEF LoopStep

\* A call in progress comes to its end alone; calls that are done stay so.
LEMMA CallGoesOnFollowed ==
  ASSUME LoopTypeOK, RegistryTypeOK, Followed, SequentialCallsAlone, NEW c \in Calls, CallGoesOn(c)
  PROVE  Followed' /\ SequentialCallsAlone'
<1>1. UNCHANGED <<pc, entries, asked, answered, dispatched, caller>> /\ CallStep(c)
  BY DEF CallGoesOn, loopVars
<1>2. /\ \A d \in Calls \ {c} : call'[d] = call[d]
      /\ call[c].stage \in {"idle", "done", "thrown"} => call'[c] = call[c]
  BY <1>1, CallStepEffect DEF MovesAlone, RegistryTypeOK
<1>3. ASSUME NEW d \in Calls, call[d].stage \in {"idle", "done"}
      PROVE  call'[d] = call[d]
  BY <1>2, <1>3
<1>4. \A d \in Calls : HeardOf(d) => HeardOf(d)'
  BY <1>1, <1>3, HeardStays DEF HeardOf
<1>5. Outstanding' = Outstanding
  BY <1>1 DEF Outstanding
<1>6. \A d \in Started : d \in Calls
  BY DEF Started, LoopTypeOK
<1>7. AllDone => AllDone'
  BY <1>1, <1>3, <1>6 DEF AllDone, Started
<1>8. AnswerAccountsForCalls'
  BY <1>1, <1>3, <1>4 DEF Followed, AnswerAccountsForCalls, HeardOf
<1>9. Followed'
  BY <1>1, <1>3, <1>4, <1>5, <1>7, <1>8 DEF Followed
<1>10. InProgress' \subseteq InProgress
  <2>1. ASSUME NEW d \in InProgress'
        PROVE  d \in InProgress
    <3>1. d \in Calls /\ call'[d].stage \in {"before", "running", "after"}
      BY <2>1 DEF InProgress
    <3>2. CASE call[d].stage \in {"idle", "done", "thrown"}
      BY <1>2, <3>1, <3>2
    <3>3. CASE call[d].stage \in {"before", "running", "after"}
      BY <3>1, <3>3 DEF InProgress
    <3>4. call[d].stage \in Stages
      BY <3>1 DEF RegistryTypeOK, CallState
    <3>5. QED
      BY <3>2, <3>3, <3>4 DEF Stages
  <2>2. QED
    BY <2>1
<1>11. SequentialCallsAlone'
  BY <1>10 DEF SequentialCallsAlone
<1>12. QED
  BY <1>9, <1>11

\* An answered run has heard of every call it started, whatever batches,
\* timeouts of tools and hooks did; and a call whose tool is not parallel-safe
\* never had another one beside it, not even one left behind by a failed batch.
THEOREM LoopTakesCareOfCalls == Spec => []CallsTakenCareOf
<1> DEFINE Inv == Followed /\ SequentialCallsAlone
<1>1. Init => Inv
  <2>1. ASSUME Init
        PROVE  \A c \in Calls : call[c].stage = "idle"
    BY <2>1 DEF Init, RegistryInit
  <2>2. QED
    BY <2>1 DEF Init, LoopInit, Followed, AnswerAccountsForCalls, SequentialCallsAlone, InProgress
<1>2. LoopTypeOK /\ RegistryTypeOK /\ TurnClosed /\ Inv /\ [Next]_vars => Inv'
  <2>1. ASSUME Inv, UNCHANGED <<call, pc, entries, asked, answered, dispatched>>,
               caller' \in {caller, "timeout"}
        PROVE  Inv'
    BY <2>1 DEF Followed, Outstanding, HeardOf, AllDone, Started, AnswerAccountsForCalls,
                SequentialCallsAlone, InProgress, Conv!Result
  <2>2. CASE UserAborts \/ TimesOut \/ UNCHANGED vars
    BY <2>1, <2>2 DEF UserAborts, TimesOut, Abort, vars, loopVars, registryVars, transcriptVars
  <2>3. QED
    BY <2>2, LoopStepFollowed, CallGoesOnFollowed DEF Next
<1>3. LoopTypeOK /\ CompactionTypeOK /\ Inv => CallsTakenCareOf
  BY DEF CallsTakenCareOf, Followed
<1>4. QED
  BY <1>1, <1>2, <1>3, LoopTyped, LoopUsesRegistrySafely, LoopCompactsWithinBounds,
     LoopRefinesByStep, PTL DEF Spec
===============================================================================
